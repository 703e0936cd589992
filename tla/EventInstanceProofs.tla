------------------------ MODULE EventInstanceProofs ------------------------
(***************************************************************************)
(* Proofs about EventInstance, for any number of clients, markers and      *)
(* callbacks.                                                              *)
(***************************************************************************)
EXTENDS EventInstance, SequenceTheorems, TLAPS

\* What the proofs use of the sequence operators that m_on_ready_callbacks needs:
\* an empty and a one-element list, push_back, and taking the first element.
LEMMA ListFacts ==
  ASSUME NEW S
  PROVE  /\ <<>> \in Seq(S)
         /\ Len(<<>>) = 0
         /\ \A s \in Seq(S) : Len(s) \in Nat /\ (Len(s) = 0 <=> s = <<>>)
         /\ \A s \in Seq(S) : \A i \in 1..Len(s) : s[i] \in S
         /\ \A e \in S : <<e>> \in Seq(S) /\ Len(<<e>>) = 1 /\ <<e>>[1] = e
         /\ \A s \in Seq(S), e \in S :
               /\ Append(s, e) \in Seq(S)
               /\ Len(Append(s, e)) = Len(s) + 1
               /\ \A i \in 1..Len(s) : Append(s, e)[i] = s[i]
               /\ Append(s, e)[Len(s) + 1] = e
         /\ \A s \in Seq(S) : s # <<>> =>
               /\ Head(s) = s[1]
               /\ Tail(s) \in Seq(S)
               /\ Len(Tail(s)) = Len(s) - 1
               /\ \A i \in 1..Len(Tail(s)) : Tail(s)[i] = s[i + 1]
<1>1. <<>> \in Seq(S) /\ Len(<<>>) = 0
  BY EmptySeq
<1>2. \A s \in Seq(S) : Len(s) \in Nat /\ (Len(s) = 0 <=> s = <<>>)
  BY EmptySeq, LenProperties
<1>3. \A s \in Seq(S) : \A i \in 1..Len(s) : s[i] \in S
  BY ElementOfSeq
<1>4. \A e \in S : <<e>> \in Seq(S) /\ Len(<<e>>) = 1 /\ <<e>>[1] = e
  OBVIOUS
<1>5. \A s \in Seq(S), e \in S :
        /\ Append(s, e) \in Seq(S)
        /\ Len(Append(s, e)) = Len(s) + 1
        /\ \A i \in 1..Len(s) : Append(s, e)[i] = s[i]
        /\ Append(s, e)[Len(s) + 1] = e
  BY LenProperties
<1>6. \A s \in Seq(S) : s # <<>> =>
        /\ Head(s) = s[1]
        /\ Tail(s) \in Seq(S)
        /\ Len(Tail(s)) = Len(s) - 1
        /\ \A i \in 1..Len(Tail(s)) : Tail(s)[i] = s[i + 1]
  BY HeadTailProperties
<1> QED
  BY <1>1, <1>2, <1>3, <1>4, <1>5, <1>6

\* A newly constructed event is type correct.
LEMMA TypeInit == Init => TypeOK
<1>1. <<>> \in Seq(Callbacks) /\ <<>> \in Seq(Statuses \cup {kUnknown})
  BY EmptySeq
<1>2. Init => pc \in [Threads -> {"idle", "working", "done"}]
  BY DEF Init, Threads
<1> QED
  BY <1>1, <1>2 DEF Init, TypeOK

\* Every call on the event, and every step of a marker, keeps the types.
LEMMA TypeStep == TypeOK /\ [Next]_vars => TypeOK'
<1> SUFFICES ASSUME TypeOK, [Next]_vars PROVE TypeOK'
  OBVIOUS
<1> USE EventAssumption DEF TypeOK, Threads, MayCall
<1>1. ASSUME NEW t \in Clients, AwaitEnter(t) PROVE TypeOK'
  BY <1>1 DEF AwaitEnter
<1>2. ASSUME NEW t \in Clients, EventError(t) PROVE TypeOK'
  BY <1>2 DEF EventError
<1>3. ASSUME NEW t \in Clients, ClientDestroy(t) PROVE TypeOK'
  BY <1>3 DEF ClientDestroy, Destroy, Destructor
<1>4. ASSUME NEW t \in Clients, NEW c \in Callbacks, OnReady(t, c)
      PROVE TypeOK'
  <2>1. Append(callbacks, c) \in Seq(Callbacks) /\ <<c>> \in Seq(Callbacks)
    OBVIOUS
  <2> QED
    BY <1>4, <2>1, ZenonT(60) DEF OnReady
<1>5. ASSUME NEW t \in Threads, AwaitWake(t) PROVE TypeOK'
  BY <1>5 DEF AwaitWake
<1>12. ASSUME NEW t \in Threads, AwaitSleep(t) \/ SpuriousWakeup(t) PROVE TypeOK'
  BY <1>12 DEF AwaitSleep, SpuriousWakeup
<1>6. ASSUME NEW t \in Threads, GetErrorFromStatus(t) PROVE TypeOK'
  BY <1>6, ZenonT(60) DEF GetErrorFromStatus
<1>7. ASSUME NEW t \in Threads, RunCallback(t) PROVE TypeOK'
  <2>1. /\ Head(todo[t]) \in Callbacks
        /\ Tail(todo[t]) \in Seq(Callbacks)
    BY <1>7 DEF RunCallback
  <2>2. CallbackStatus(t) \subseteq Statuses \cup {kUnknown}
    BY DEF CallbackStatus
  <2>3. \A s \in CallbackStatus(t) : Append(invoked[Head(todo[t])], s)
                                     \in Seq(Statuses \cup {kUnknown})
    BY <2>1, <2>2
  <2> QED
    BY <1>7, <2>1, <2>3 DEF RunCallback, Destroy, Destructor
<1>8. ASSUME NEW t \in Threads, CallbacksDone(t) PROVE TypeOK'
  BY <1>8 DEF CallbacksDone
<1>9. ASSUME NEW m \in Markers, NEW s \in Statuses, MarkAsReady(m, s)
      PROVE TypeOK'
  BY <1>9 DEF MarkAsReady, MarkAsReadyNoLock
<1>10. ASSUME NEW m \in Markers, OwnerDelete(m) PROVE TypeOK'
  BY <1>10 DEF OwnerDelete, Destructor
<1>11. CASE UNCHANGED vars
  BY <1>11 DEF vars
<1> QED
  BY <1>1, <1>2, <1>3, <1>4, <1>5, <1>6, <1>7, <1>8, <1>9, <1>10, <1>11, <1>12
  DEF Next, ClientStep, Progress, MarkerStep

\* The event is type correct in every reachable state.
THEOREM TypeCorrect == Spec => []TypeOK
  BY TypeInit, TypeStep, PTL DEF Spec

-----------------------------------------------------------------------------
(* The lifetime of the event of an orderly client.                          *)

\* An indestructible event is marked by one thread only, its owner.
OneOwner ==
    indestructible =>
        \A m, n \in Markers : pc[m] # "done" /\ pc[n] # "done" => m = n

\* Which control points each kind of thread can be at.
Control ==
    /\ \A t \in Clients :
          pc[t] \in {"idle", "waiting", "awoken", "reading", "calling"}
    /\ \A m \in Markers : pc[m] \in {"working", "calling", "deleting", "done"}
    /\ \A m \in Markers : pc[m] = "deleting" => indestructible
    /\ \A t \in Clients : Len(todo[t]) <= 1
    /\ \A t \in Threads : pc[t] # "calling" => todo[t] = <<>>

\* The owner of an indestructible event starts when every client has let go of
\* it, and is done when it has deleted it.
Ownership ==
    indestructible =>
        /\ \A m \in Markers : pc[m] \in {"calling", "deleting"} =>
              released /\ \A u \in Clients : pc[u] = "idle"
        /\ destroyed => /\ released
                        /\ \A u \in Clients : pc[u] = "idle"
                        /\ \A m \in Markers : pc[m] = "done"

\* Thread t still has to touch the event object: it waits on it, will read
\* m_status after releasing the lock, or holds the pointer to mark or delete it.
UsesEvent(t) ==
    \/ pc[t] \in {"waiting", "awoken", "reading", "working", "deleting"}
    \/ t \in Clients /\ pc[t] = "calling" /\ todo[t] # <<>>

\* No thread is going to touch an event object that has been destroyed.
NoUseAfterDestroy == destroyed => \A t \in Threads : ~UsesEvent(t)

LifetimeInv == TypeOK /\ Control /\ OneOwner /\ Ownership /\ NoUseAfterDestroy

\* With an orderly client every step keeps the control points, the
\* ownership of the event and the order of its last use and its destruction.
LEMMA LifetimeStep ==
  ASSUME OrderlyDestroy, LifetimeInv, TypeOK', [Next]_vars
  PROVE  LifetimeInv'
<1> USE EventAssumption
    DEF LifetimeInv, Control, Ownership, NoUseAfterDestroy, UsesEvent, Threads,
        MayCall, Running, OneOwner
<1>0. \A t \in Clients : t \notin Markers
  OBVIOUS
<1>len. /\ Len(<<>>) = 0
        /\ \A c \in Callbacks : Len(<<c>>) = 1
        /\ \A t \in Threads : todo[t] # <<>> =>
              Len(Tail(todo[t])) = Len(todo[t]) - 1
        /\ \A t \in Threads : Len(todo[t]) \in Nat
        /\ \A t \in Threads : Len(todo[t]) = 0 <=> todo[t] = <<>>
        /\ \A t \in Threads : Len(todo[t]) = 1 => Tail(todo[t]) = <<>>
  <2>1. Len(<<>>) = 0 /\ \A c \in Callbacks : Len(<<c>>) = 1
    BY ListFacts
  <2>2. ASSUME NEW t \in Threads
        PROVE  /\ todo[t] # <<>> => Len(Tail(todo[t])) = Len(todo[t]) - 1
               /\ Len(todo[t]) \in Nat
               /\ Len(todo[t]) = 0 <=> todo[t] = <<>>
               /\ Len(todo[t]) = 1 => Tail(todo[t]) = <<>>
    <3>1. todo[t] \in Seq(Callbacks)
      BY DEF TypeOK
    <3>2. /\ Len(todo[t]) \in Nat
          /\ Len(todo[t]) = 0 <=> todo[t] = <<>>
          /\ todo[t] # <<>> => /\ Len(Tail(todo[t])) = Len(todo[t]) - 1
                              /\ Tail(todo[t]) \in Seq(Callbacks)
      BY <3>1, ListFacts
    <3>3. Tail(todo[t]) \in Seq(Callbacks) =>
            (Len(Tail(todo[t])) = 0 <=> Tail(todo[t]) = <<>>)
      BY EmptySeq
    <3> QED
      BY <3>2, <3>3
  <2> QED
    BY <2>1, <2>2
<1> USE <1>0
<1>1. ASSUME NEW t \in Clients, AwaitEnter(t) PROVE LifetimeInv'
  BY <1>1 DEF AwaitEnter, TypeOK
<1>2. ASSUME NEW t \in Clients, EventError(t) PROVE LifetimeInv'
  BY <1>2 DEF EventError, TypeOK
<1>3. ASSUME NEW t \in Clients, ClientDestroy(t) PROVE LifetimeInv'
  BY <1>3 DEF ClientDestroy, OrderlyRelease, Destroy, Destructor, TypeOK
<1>4. ASSUME NEW t \in Clients, NEW c \in Callbacks, OnReady(t, c)
      PROVE LifetimeInv'
  <2>1. CASE ~ready
    BY <1>4, <2>1 DEF OnReady, TypeOK
  <2>2. CASE ready
    <3>1. /\ todo' = [todo EXCEPT ![t] = <<c>>]
          /\ pc' = [pc EXCEPT ![t] = "calling"]
          /\ pc[t] = "idle" /\ ~destroyed /\ ~released
          /\ UNCHANGED <<indestructible, destroyed, released>>
      BY <1>4, <2>2 DEF OnReady
    <3>2. Control'
      BY <3>1, <1>len DEF TypeOK
    <3>3. OneOwner' /\ Ownership' /\ NoUseAfterDestroy'
      BY <3>1 DEF TypeOK
    <3> QED
      BY <3>2, <3>3
  <2> QED
    BY <2>1, <2>2
<1>5. ASSUME NEW t \in Threads, AwaitWake(t) PROVE LifetimeInv'
  BY <1>5 DEF AwaitWake, TypeOK
<1>12. ASSUME NEW t \in Threads, AwaitSleep(t) \/ SpuriousWakeup(t) PROVE LifetimeInv'
  BY <1>12 DEF AwaitSleep, SpuriousWakeup, TypeOK
<1>6. ASSUME NEW t \in Threads, GetErrorFromStatus(t) PROVE LifetimeInv'
  BY <1>6 DEF GetErrorFromStatus, TypeOK
<1>7. ASSUME NEW t \in Threads, RunCallback(t) PROVE LifetimeInv'
  <2>1. /\ pc[t] = "calling" /\ todo[t] # <<>>
        /\ pc' = pc
        /\ todo' = [todo EXCEPT ![t] = Tail(todo[t])]
        /\ indestructible' = indestructible
        /\ \/ UNCHANGED <<destroyed, released>>
           \/ /\ OrderlyRelease(t)
              /\ released' = TRUE
              /\ indestructible => destroyed' = destroyed
    BY <1>7 DEF RunCallback, Destroy, Destructor
  <2>2. /\ todo' \in [Threads -> Seq(Callbacks)]
        /\ \A u \in Threads : u # t => todo'[u] = todo[u]
        /\ todo'[t] = Tail(todo[t])
    BY <2>1 DEF TypeOK
  <2>3. t \in Clients => todo'[t] = <<>> /\ Len(todo[t]) = 1
    <3>1. t \in Clients => Len(todo[t]) <= 1
      OBVIOUS
    <3>2. Len(todo[t]) \in Nat /\ Len(todo[t]) # 0
      BY <2>1, <1>len
    <3>3. Len(todo[t]) = 1 => Tail(todo[t]) = <<>>
      BY <1>len
    <3>4. t \in Clients => Len(todo[t]) = 1
      <4>1. \A n \in Nat : n <= 1 /\ n # 0 => n = 1
        OBVIOUS
      <4> QED
        BY <3>1, <3>2, <4>1, Zenon
    <3>5. todo'[t] = Tail(todo[t])
      BY <2>2
    <3> QED
      BY <3>3, <3>4, <3>5, Zenon
  <2>4. Control'
    BY <2>1, <2>2, <2>3, <1>len
  <2>5. OneOwner' /\ Ownership'
    BY <2>1
  <2>6. NoUseAfterDestroy'
    BY <2>1, <2>2, <2>3 DEF OrderlyRelease
  <2> QED
    BY <2>4, <2>5, <2>6
<1>8. ASSUME NEW t \in Threads, CallbacksDone(t) PROVE LifetimeInv'
  BY <1>8 DEF CallbacksDone, TypeOK
<1>9. ASSUME NEW m \in Markers, NEW s \in Statuses, MarkAsReady(m, s)
      PROVE LifetimeInv'
  BY <1>9 DEF MarkAsReady, OrderlyOwner, TypeOK
<1>10. ASSUME NEW m \in Markers, OwnerDelete(m) PROVE LifetimeInv'
  BY <1>10 DEF OwnerDelete, Destructor, TypeOK
<1>11. CASE UNCHANGED vars
  BY <1>11 DEF vars, TypeOK
<1> QED
  BY <1>1, <1>2, <1>3, <1>4, <1>5, <1>6, <1>7, <1>8, <1>9, <1>10, <1>11, <1>12
  DEF Next, ClientStep, Progress, MarkerStep

\* LifetimeInv holds of every event of an orderly client.
LEMMA LifetimeInvHolds ==
  ASSUME OrderlyDestroy
  PROVE  Spec => []LifetimeInv
<1>1. Init => LifetimeInv
  <2>1. Init => TypeOK
    BY TypeInit
  <2> QED
    BY <2>1, EventAssumption, EmptySeq
    DEF Init, LifetimeInv, Control, OneOwner, Ownership, NoUseAfterDestroy, Threads
<1>2. LifetimeInv /\ TypeOK' /\ [Next]_vars => LifetimeInv'
  BY LifetimeStep
<1> QED
  BY <1>1, <1>2, TypeCorrect, PTL DEF Spec

\* No thread touches a destroyed event: PJRT_Event_Destroy by an orderly client,
\* or by a callback of it, and the deletion of an indestructible event by its
\* owner, come after the last access of every other thread.
LEMMA EventLifetime ==
  ASSUME OrderlyDestroy
  PROVE  Spec => []NoUseAfterDestroy
<1>1. LifetimeInv => NoUseAfterDestroy
  BY DEF LifetimeInv
<1> QED
  BY <1>1, LifetimeInvHolds, PTL

-----------------------------------------------------------------------------
(* Callbacks run once and with the final status.                            *)

\* A client runs one callback at a time; only a thread inside the calling loop
\* has callbacks to run; callbacks exist outside the queue only once the event is
\* ready, and inside it only before.
Queues ==
    /\ ready => callbacks = <<>>
    /\ ~ready => \A t \in Threads : todo[t] = <<>>
    /\ ~ready => \A c \in Callbacks : invoked[c] = <<>>
    /\ \A t \in Threads : pc[t] # "calling" => todo[t] = <<>>

\* No callback is in two places.
Unique ==
    /\ \A i, j \in 1..Len(callbacks) : callbacks[i] = callbacks[j] => i = j
    /\ \A t, u \in Threads : \A i \in 1..Len(todo[t]), j \in 1..Len(todo[u]) :
          todo[t][i] = todo[u][j] => t = u /\ i = j

\* A callback that waits to run is registered and has not run.
Fresh ==
    /\ \A i \in 1..Len(callbacks) :
          callbacks[i] \in registered /\ invoked[callbacks[i]] = <<>>
    /\ \A t \in Threads : \A i \in 1..Len(todo[t]) :
          todo[t][i] \in registered /\ invoked[todo[t][i]] = <<>>
    /\ \A c \in Callbacks : invoked[c] # <<>> => c \in registered

\* The marker that took the callbacks is the one whose status the event has.
FirstMarker == \A m \in Markers : todo[m] # <<>> => arg[m] = status

CallbackInv ==
    /\ Queues
    /\ Unique
    /\ Fresh
    /\ FirstMarker
    /\ CallbackSeesFinalStatus

\* Steps that only move a thread between control points outside the calling loop.
LEMMA CallbackInvFrame ==
  ASSUME TypeOK, CallbackInv,
         UNCHANGED <<ready, status, callbacks, todo, arg, registered, invoked>>,
         \A t \in Threads : pc[t] = "calling" => pc'[t] = "calling" \/ todo[t] = <<>>
  PROVE  CallbackInv'
BY DEF CallbackInv, Queues, Unique, Fresh, FirstMarker, CallbackSeesFinalStatus

\* onReady keeps CallbackInv: it queues a fresh callback before the event is ready,
\* and hands it to the calling thread afterwards.
LEMMA OnReadyStep ==
  ASSUME TypeOK, CallbackInv,
         NEW t \in Clients, NEW c \in Callbacks, OnReady(t, c)
  PROVE  CallbackInv'
<1> USE DEF CallbackInv
<1>t. t \in Threads /\ t \notin Markers
  BY EventAssumption DEF Threads
<1>c. c \notin registered /\ registered' = registered \cup {c}
  BY DEF OnReady
<1>i. invoked' = invoked /\ status' = status /\ arg' = arg /\ ready' = ready
  BY DEF OnReady
<1>f. invoked[c] = <<>>
  BY <1>c DEF Fresh
<1>1. CASE ~ready
  <2>1. callbacks' = Append(callbacks, c) /\ todo' = todo /\ pc' = pc
    BY <1>1 DEF OnReady
  <2>2. /\ Len(callbacks) \in Nat
        /\ Len(callbacks') = Len(callbacks) + 1
        /\ \A i \in 1..Len(callbacks) : callbacks'[i] = callbacks[i]
        /\ callbacks'[Len(callbacks) + 1] = c
    BY <2>1, ListFacts DEF TypeOK
  <2>3. \A i \in 1..Len(callbacks') :
          \/ i \in 1..Len(callbacks) /\ callbacks'[i] = callbacks[i]
          \/ i = Len(callbacks) + 1 /\ callbacks'[i] = c
    BY <2>2
  <2>4. \A i \in 1..Len(callbacks) : callbacks[i] # c
    BY <1>c DEF Fresh
  <2>5. Unique'
    BY <2>1, <2>3, <2>4 DEF Unique
  <2>6. Fresh'
    BY <2>1, <2>3, <1>c, <1>f, <1>i DEF Fresh
  <2>7. Queues'
    BY <2>1, <1>1, <1>i DEF Queues
  <2> QED
    BY <2>1, <2>5, <2>6, <2>7, <1>i DEF FirstMarker, CallbackSeesFinalStatus
<1>2. CASE ready
  <2>1. /\ callbacks' = callbacks
        /\ todo' = [todo EXCEPT ![t] = <<c>>]
        /\ pc' = [pc EXCEPT ![t] = "calling"]
    BY <1>2 DEF OnReady
  <2>2. /\ todo'[t] = <<c>>
        /\ \A u \in Threads : u # t => todo'[u] = todo[u] /\ pc'[u] = pc[u]
        /\ pc'[t] = "calling"
    BY <2>1, <1>t DEF TypeOK
  <2>3. \A i \in 1..Len(todo'[t]) : i = 1 /\ todo'[t][i] = c
    BY <2>2, ListFacts
  <2>4. \A u \in Threads : \A i \in 1..Len(todo[u]) : todo[u][i] # c
    BY <1>c DEF Fresh
  <2>5. Unique'
    BY <2>1, <2>2, <2>3, <2>4 DEF Unique
  <2>6. Fresh'
    BY <2>1, <2>2, <2>3, <1>c, <1>f, <1>i DEF Fresh
  <2>7. Queues'
    BY <2>1, <2>2, <1>2, <1>i DEF Queues
  <2>8. FirstMarker'
    BY <2>2, <1>t, <1>i DEF FirstMarker, Threads
  <2> QED
    BY <2>5, <2>6, <2>7, <2>8, <1>i DEF CallbackSeesFinalStatus
<1> QED
  BY <1>1, <1>2

\* markAsReadyAndCallback keeps CallbackInv: it moves the queued callbacks to its
\* own list, and a second mark finds none.
LEMMA MarkAsReadyStep ==
  ASSUME TypeOK, CallbackInv,
         NEW m \in Markers, NEW s \in Statuses, MarkAsReady(m, s)
  PROVE  CallbackInv'
<1> USE DEF CallbackInv
<1>1. /\ pc[m] = "working"
      /\ ready' = TRUE
      /\ status' = IF ready THEN status ELSE s
      /\ todo' = [todo EXCEPT ![m] = callbacks]
      /\ callbacks' = <<>>
      /\ arg' = [arg EXCEPT ![m] = s]
      /\ pc' = [pc EXCEPT ![m] = "calling"]
      /\ registered' = registered /\ invoked' = invoked
  BY DEF MarkAsReady, MarkAsReadyNoLock
<1>2. /\ m \in Threads
      /\ todo'[m] = callbacks
      /\ arg'[m] = s
      /\ \A u \in Threads : u # m => /\ todo'[u] = todo[u]
                                    /\ arg'[u] = arg[u]
                                    /\ pc'[u] = pc[u]
      /\ pc'[m] = "calling"
  BY <1>1 DEF TypeOK, Threads
<1>3. Len(<<>>) = 0
  BY EmptySeq
<1>4. CASE ready
  <2>1. \A u \in Threads : todo'[u] = todo[u]
    BY <1>4, <1>1, <1>2 DEF Queues
  <2>2. Queues' /\ Unique' /\ Fresh'
    BY <1>1, <1>2, <1>3, <2>1 DEF Queues, Unique, Fresh
  <2>3. FirstMarker' /\ CallbackSeesFinalStatus'
    BY <1>1, <1>2, <1>4, <2>1
    DEF Queues, FirstMarker, CallbackSeesFinalStatus, Threads
  <2> QED
    BY <2>2, <2>3
<1>5. CASE ~ready
  <2>1. \A u \in Threads : u # m => todo'[u] = <<>>
    BY <1>5, <1>2 DEF Queues
  <2>2. Queues'
    BY <1>1, <1>2, <2>1 DEF Queues
  <2>3. Unique'
    BY <1>1, <1>2, <1>3, <2>1 DEF Unique
  <2>4. Fresh'
    BY <1>1, <1>2, <1>3, <2>1 DEF Fresh
  <2>5. FirstMarker' /\ CallbackSeesFinalStatus'
    BY <1>1, <1>2, <1>5, <2>1
    DEF Queues, FirstMarker, CallbackSeesFinalStatus, Threads
  <2> QED
    BY <2>2, <2>3, <2>4, <2>5
<1> QED
  BY <1>4, <1>5

\* Running a callback keeps CallbackInv: it leaves its list and is called once, with
\* the status of the first mark, even if it destroys the event.
LEMMA RunCallbackStep ==
  ASSUME TypeOK, CallbackInv, NoUseAfterDestroy,
         NEW t \in Threads, RunCallback(t)
  PROVE  CallbackInv'
<1> USE DEF CallbackInv
<1> DEFINE c == Head(todo[t])
<1>1. /\ pc[t] = "calling"
      /\ todo[t] # <<>>
      /\ todo' = [todo EXCEPT ![t] = Tail(todo[t])]
      /\ pc' = pc /\ arg' = arg /\ ready' = ready /\ status' = status
      /\ callbacks' = callbacks /\ registered' = registered
  BY DEF RunCallback
<1>2. CallbackStatus(t) = {status}
  BY <1>1, EventAssumption
  DEF CallbackStatus, NoUseAfterDestroy, UsesEvent, FirstMarker, Threads
<1>3. /\ todo[t] \in Seq(Callbacks)
      /\ Len(todo[t]) \in Nat \ {0}
      /\ c = todo[t][1]
      /\ c \in Callbacks
      /\ Len(Tail(todo[t])) = Len(todo[t]) - 1
      /\ \A i \in 1..Len(Tail(todo[t])) : Tail(todo[t])[i] = todo[t][i + 1]
  <2>1. todo[t] \in Seq(Callbacks)
    BY DEF TypeOK
  <2> QED
    BY <1>1, <2>1, ListFacts
<1>4. /\ invoked' = [invoked EXCEPT ![c] = Append(invoked[c], status)]
  BY <1>2 DEF RunCallback
<1>5. invoked[c] = <<>> /\ c \in registered
  BY <1>3 DEF Fresh
<1>6. /\ invoked'[c] = <<status>>
      /\ \A d \in Callbacks : d # c => invoked'[d] = invoked[d]
  BY <1>3, <1>4, <1>5 DEF TypeOK
<1>7. /\ \A u \in Threads : u # t => todo'[u] = todo[u]
      /\ \A i \in 1..Len(todo'[t]) :
            i + 1 \in 2..Len(todo[t]) /\ todo'[t][i] = todo[t][i + 1]
  <2>1. todo'[t] = Tail(todo[t])
    BY <1>1 DEF TypeOK
  <2> QED
    BY <1>1, <1>3, <2>1 DEF TypeOK
<1>8. \A u \in Threads : \A i \in 1..Len(todo'[u]) :
        \E j \in 1..Len(todo[u]) :
          /\ todo'[u][i] = todo[u][j]
          /\ u = t => j = i + 1
          /\ u # t => j = i
  BY <1>3, <1>7
<1>9. ready /\ callbacks = <<>>
  BY <1>1 DEF Queues
<1>10. Queues'
  <2>1. \A u \in Threads : pc[u] # "calling" => u # t
    BY <1>1
  <2> QED
    BY <1>1, <1>7, <1>9, <2>1 DEF Queues
<1>11. Unique'
  <2>1. ASSUME NEW u \in Threads, NEW v \in Threads,
               NEW i \in 1..Len(todo'[u]), NEW j \in 1..Len(todo'[v]),
               todo'[u][i] = todo'[v][j]
        PROVE  u = v /\ i = j
    <3>1. PICK k \in 1..Len(todo[u]) : /\ todo'[u][i] = todo[u][k]
                                       /\ u = t => k = i + 1
                                       /\ u # t => k = i
      BY <1>8
    <3>2. PICK l \in 1..Len(todo[v]) : /\ todo'[v][j] = todo[v][l]
                                       /\ v = t => l = j + 1
                                       /\ v # t => l = j
      BY <1>8
    <3>3. todo[u][k] = todo[v][l]
      BY <2>1, <3>1, <3>2
    <3>4. u = v /\ k = l
      <4> HIDE DEF CallbackInv
      <4>1. Unique
        BY DEF CallbackInv
      <4> QED
        BY <3>3, <4>1 DEF Unique
    <3> QED
      BY <3>1, <3>2, <3>4
  <2> QED
    BY <2>1, <1>1 DEF Unique
<1>12. Fresh'
  <2>1. ASSUME NEW u \in Threads, NEW i \in 1..Len(todo'[u])
        PROVE  todo'[u][i] \in registered /\ invoked'[todo'[u][i]] = <<>>
    <3>1. PICK k \in 1..Len(todo[u]) : /\ todo'[u][i] = todo[u][k]
                                       /\ u = t => k = i + 1
      BY <1>8
    <3>2. todo[u][k] \in registered /\ invoked[todo[u][k]] = <<>>
      BY DEF Fresh
    <3>3. ~(u = t /\ k = 1)
      BY <3>1
    <3>4. todo[u][k] # c
      BY <1>3, <3>3 DEF Unique
    <3>5. todo[u][k] \in Callbacks
      BY <3>2 DEF TypeOK
    <3> QED
      BY <3>1, <3>2, <3>4, <3>5, <1>6
  <2>2. \A i \in 1..Len(callbacks') : FALSE
    BY <1>1, <1>9, EmptySeq
  <2>3. \A d \in Callbacks : invoked'[d] # <<>> => d \in registered
    BY <1>5, <1>6 DEF Fresh
  <2> QED
    BY <2>1, <2>2, <2>3, <1>1, Zenon DEF Fresh
<1>13. FirstMarker'
  <2>1. \A m \in Markers : todo'[m] # <<>> => todo[m] # <<>>
    BY <1>1, <1>7 DEF Threads
  <2> QED
    BY <2>1, <1>1 DEF FirstMarker
<1>14. CallbackSeesFinalStatus'
  BY <1>1, <1>6 DEF CallbackSeesFinalStatus
<1> QED
  BY <1>10, <1>11, <1>12, <1>13, <1>14

\* Every step of a client or of a marker keeps CallbackInv.
LEMMA CallbackInvStep ==
  ASSUME TypeOK, CallbackInv, NoUseAfterDestroy, [Next]_vars
  PROVE  CallbackInv'
<1> DEFINE Frame ==
      /\ UNCHANGED <<ready, status, callbacks, todo, arg, registered, invoked>>
      /\ \A t \in Threads :
            pc[t] = "calling" => pc'[t] = "calling" \/ todo[t] = <<>>
<1> USE DEF TypeOK, Threads
<1>1. ASSUME NEW t \in Clients, AwaitEnter(t) PROVE Frame
  BY <1>1 DEF AwaitEnter, MayCall
<1>2. ASSUME NEW t \in Clients, EventError(t) PROVE Frame
  BY <1>2 DEF EventError, MayCall
<1>3. ASSUME NEW t \in Clients, ClientDestroy(t) PROVE Frame
  BY <1>3 DEF ClientDestroy
<1>4. ASSUME NEW t \in Clients, NEW c \in Callbacks, OnReady(t, c)
      PROVE CallbackInv'
  BY <1>4, OnReadyStep
<1>5. ASSUME NEW t \in Threads, AwaitWake(t) PROVE Frame
  BY <1>5 DEF AwaitWake
<1>12. ASSUME NEW t \in Threads, AwaitSleep(t) \/ SpuriousWakeup(t) PROVE Frame
  BY <1>12 DEF AwaitSleep, SpuriousWakeup
<1>6. ASSUME NEW t \in Threads, GetErrorFromStatus(t) PROVE Frame
  BY <1>6 DEF GetErrorFromStatus
<1>7. ASSUME NEW t \in Threads, RunCallback(t) PROVE CallbackInv'
  BY <1>7, RunCallbackStep
<1>8. ASSUME NEW t \in Threads, CallbacksDone(t) PROVE Frame
  BY <1>8 DEF CallbacksDone
<1>9. ASSUME NEW m \in Markers, NEW s \in Statuses, MarkAsReady(m, s)
      PROVE CallbackInv'
  BY <1>9, MarkAsReadyStep
<1>10. ASSUME NEW m \in Markers, OwnerDelete(m) PROVE Frame
  BY <1>10 DEF OwnerDelete
<1>11. ASSUME UNCHANGED vars PROVE Frame
  BY <1>11 DEF vars
<1>13. Frame => CallbackInv'
  BY CallbackInvFrame
<1> HIDE DEF Frame
<1> QED
  BY <1>1, <1>2, <1>3, <1>4, <1>5, <1>6, <1>7, <1>8, <1>9, <1>10, <1>11, <1>12,
     <1>13
  DEF Next, ClientStep, Progress, MarkerStep

\* CallbackInv holds of every event of an orderly client.
LEMMA CallbackInvHolds ==
  ASSUME OrderlyDestroy
  PROVE  Spec => []CallbackInv
<1>1. Init => CallbackInv
  BY EmptySeq
  DEF Init, CallbackInv, Queues, Unique, Fresh, FirstMarker,
      CallbackSeesFinalStatus, Threads
<1>2. TypeOK /\ CallbackInv /\ NoUseAfterDestroy /\ [Next]_vars => CallbackInv'
  BY CallbackInvStep
<1> QED
  BY <1>1, <1>2, TypeCorrect, EventLifetime, PTL DEF Spec

\* A registered callback runs at most once and sees the status of the first mark,
\* however many threads mark the event and even if it destroys the event.
THEOREM CallbacksCorrect ==
  ASSUME OrderlyDestroy
  PROVE  Spec => []CallbackSeesFinalStatus
<1>1. CallbackInv => CallbackSeesFinalStatus
  BY DEF CallbackInv
<1> QED
  BY <1>1, CallbackInvHolds, PTL

\* onReady, racing with any number of markers, never leaves a callback in the queue of an
\* event that is already ready.
THEOREM NoneStranded ==
  ASSUME OrderlyDestroy
  PROVE  Spec => []NoStrandedCallback
<1>1. CallbackInv => NoStrandedCallback
  BY DEF CallbackInv, Queues, NoStrandedCallback
<1> QED
  BY <1>1, CallbackInvHolds, PTL

-----------------------------------------------------------------------------
(* The destructor finds nobody waiting.                                     *)

\* m_awaiters_count counts the clients that wait, of which an indestructible event has
\* none; a marker that runs callbacks or deletes the event has marked it.
Counted ==
    /\ awaiting = {t \in Clients : pc[t] = "waiting"}
    /\ indestructible => awaiting = {}
    /\ \A m \in Markers : pc[m] \in {"calling", "deleting"} => ready

DestructorInv == Counted /\ NeverTerminates

\* Every step keeps the count, and every destruction by an orderly client finds neither an
\* awaiter nor a queued callback.
LEMMA DestructorStep ==
  ASSUME OrderlyDestroy, LifetimeInv, CallbackInv, DestructorInv, [Next]_vars
  PROVE  DestructorInv'
<1> USE EventAssumption DEF DestructorInv, Counted, NeverTerminates, Threads
<1>0. /\ pc \in [Threads -> {"idle", "waiting", "awoken", "reading", "calling",
                              "working", "deleting", "done"}]
      /\ indestructible \in BOOLEAN
      /\ \A t \in Clients : t \notin Markers
      /\ \A m \in Markers : pc[m] # "waiting"
      /\ \A t \in Clients : pc[t] # "deleting"
      /\ ready => callbacks = <<>>
      /\ \A m \in Markers : pc[m] = "deleting" => indestructible
  BY DEF LifetimeInv, TypeOK, Control, CallbackInv, Queues
<1>1. ASSUME NEW t \in Clients, AwaitEnter(t) PROVE DestructorInv'
  BY <1>0, <1>1 DEF AwaitEnter, MayCall
<1>2. ASSUME NEW t \in Clients, EventError(t) PROVE DestructorInv'
  BY <1>0, <1>2 DEF EventError, MayCall
<1>3. ASSUME NEW t \in Clients, ClientDestroy(t) PROVE DestructorInv'
  <2>1. ~indestructible => ready /\ awaiting = {}
    BY <1>0, <1>3 DEF ClientDestroy, MayCall, OrderlyRelease
  <2> QED
    BY <1>0, <1>3, <2>1 DEF ClientDestroy, Destroy, Destructor
<1>4. ASSUME NEW t \in Clients, NEW c \in Callbacks, OnReady(t, c)
      PROVE DestructorInv'
  BY <1>0, <1>4 DEF OnReady, MayCall
<1>5. ASSUME NEW t \in Threads, AwaitWake(t) PROVE DestructorInv'
  BY <1>0, <1>5 DEF AwaitWake
<1>12. ASSUME NEW t \in Threads, AwaitSleep(t) \/ SpuriousWakeup(t) PROVE DestructorInv'
  BY <1>0, <1>12 DEF AwaitSleep, SpuriousWakeup
<1>6. ASSUME NEW t \in Threads, GetErrorFromStatus(t) PROVE DestructorInv'
  BY <1>0, <1>6 DEF GetErrorFromStatus
<1>7. ASSUME NEW t \in Threads, RunCallback(t) PROVE DestructorInv'
  <2>1. /\ UNCHANGED <<indestructible, ready, awaiting, pc>>
        /\ \/ terminated' = terminated
           \/ OrderlyRelease(t) /\ Destroy
        /\ pc[t] = "calling"
    BY <1>7 DEF RunCallback
  <2>2. OrderlyRelease(t) /\ ~indestructible => ready /\ awaiting = {}
    BY <1>0, <2>1 DEF OrderlyRelease
  <2>3. ~terminated'
    BY <1>0, <2>1, <2>2 DEF Destroy, Destructor
  <2> QED
    BY <2>1, <2>3
<1>8. ASSUME NEW t \in Threads, CallbacksDone(t) PROVE DestructorInv'
  <2>1. /\ UNCHANGED <<indestructible, ready, awaiting, terminated>>
        /\ pc[t] = "calling"
        /\ \A u \in Threads : u # t => pc'[u] = pc[u]
    BY <1>0, <1>8 DEF CallbacksDone
  <2>2. pc'[t] \in {"idle", "deleting", "done"} /\ (t \in Clients => pc'[t] = "idle")
    BY <1>0, <1>8 DEF CallbacksDone
  <2> QED
    BY <1>0, <2>1, <2>2
<1>9. ASSUME NEW m \in Markers, NEW s \in Statuses, MarkAsReady(m, s)
      PROVE DestructorInv'
  BY <1>0, <1>9 DEF MarkAsReady, MarkAsReadyNoLock
<1>10. ASSUME NEW m \in Markers, OwnerDelete(m) PROVE DestructorInv'
  BY <1>0, <1>10 DEF OwnerDelete, Destructor
<1>11. CASE UNCHANGED vars
  BY <1>11 DEF vars
<1> QED
  BY <1>1, <1>2, <1>3, <1>4, <1>5, <1>6, <1>7, <1>8, <1>9, <1>10, <1>11, <1>12
  DEF Next, ClientStep, Progress, MarkerStep

\* ~EventInstance never calls std::terminate in the process of an orderly client, however
\* its threads, its callbacks and the markers interleave.
THEOREM DestructorNeverTerminates ==
  ASSUME OrderlyDestroy
  PROVE  Spec => []NeverTerminates
<1>1. Init => DestructorInv
  BY EventAssumption
  DEF Init, DestructorInv, Counted, NeverTerminates, Threads
<1>2. LifetimeInv /\ CallbackInv /\ DestructorInv /\ [Next]_vars => DestructorInv'
  BY DestructorStep
<1>3. DestructorInv => NeverTerminates
  BY DEF DestructorInv
<1> QED
  BY <1>1, <1>2, <1>3, LifetimeInvHolds, CallbackInvHolds, PTL DEF Spec

\* Marking an event a second time changes neither that it is ready nor its status.
THEOREM StatusNeverChanges == Spec => StatusFinal
<1>1. ASSUME [Next]_vars, ready PROVE ready' /\ status' = status
  BY <1>1
  DEF Next, vars, ClientStep, Progress, MarkerStep, AwaitEnter, EventError,
      ClientDestroy, OnReady, AwaitSleep, SpuriousWakeup, AwaitWake, GetErrorFromStatus, RunCallback,
      CallbacksDone, MarkAsReady, MarkAsReadyNoLock, OwnerDelete
<1>2. [Next]_vars => [ready => ready' /\ status' = status]_vars
  BY <1>1
<1> QED
  BY <1>2, PTL DEF Spec, StatusFinal

-----------------------------------------------------------------------------
(* The event keeps the promise.                                             *)

\* A thread that has passed the wait, or the check of m_ready, finds a status in the event.
Answerable ==
    /\ ready => status \in Statuses
    /\ \A t \in Clients : pc[t] \in {"awoken", "reading"} => ready

\* An event has a status from the first mark on, and nobody gets past the wait before.
LEMMA AnswerableStep ==
  ASSUME TypeOK, LifetimeInv, Answerable, [Next]_vars
  PROVE  Answerable'
<1> USE EventAssumption DEF TypeOK, Threads, Answerable
<1>1. ASSUME NEW t \in Clients, ClientStep(t) PROVE Answerable'
  BY <1>1
  DEF ClientStep, AwaitEnter, EventError, ClientDestroy, OnReady, Control, LifetimeInv
<1>2. ASSUME NEW t \in Threads, AwaitSleep(t) \/ SpuriousWakeup(t) \/ AwaitWake(t)
      PROVE  Answerable'
  BY <1>2 DEF AwaitSleep, SpuriousWakeup, AwaitWake
<1>3. ASSUME NEW t \in Threads, GetErrorFromStatus(t) \/ RunCallback(t) \/ CallbacksDone(t)
      PROVE  Answerable'
  BY <1>3 DEF GetErrorFromStatus, RunCallback, CallbacksDone
<1>4. ASSUME NEW m \in Markers, MarkerStep(m) PROVE Answerable'
  BY <1>4 DEF MarkerStep, MarkAsReady, MarkAsReadyNoLock, OwnerDelete
<1>5. CASE UNCHANGED vars
  BY <1>5 DEF vars
<1> QED
  BY <1>1, <1>2, <1>3, <1>4, <1>5 DEF Next, Progress

\* A callback that a thread is about to run is registered, has not run, and will be told the
\* status of the event.
LEMMA NextCallback ==
  ASSUME TypeOK, CallbackInv, NoUseAfterDestroy, NEW t \in Threads, RunCallback(t)
  PROVE  LET c == Head(todo[t])
         IN  /\ c \in registered /\ c \in Callbacks /\ invoked[c] = <<>> /\ ready
             /\ invoked' = [invoked EXCEPT ![c] = <<status>>]
<1> DEFINE c == Head(todo[t])
<1>1. /\ todo[t] # <<>> /\ todo[t] \in Seq(Callbacks)
      /\ pc[t] = "calling"
      /\ \E s \in CallbackStatus(t) : invoked' = [invoked EXCEPT ![c] = Append(@, s)]
  BY DEF RunCallback, TypeOK
<1>2. c = todo[t][1] /\ 1 \in 1..Len(todo[t]) /\ c \in Callbacks
  BY <1>1, ListFacts
<1>3. c \in registered /\ invoked[c] = <<>> /\ ready
  BY <1>1, <1>2 DEF CallbackInv, Fresh, Queues
<1>4. CallbackStatus(t) = {status}
  <2>1. CASE t \in Markers
    BY <2>1, <1>1 DEF CallbackStatus, CallbackInv, FirstMarker
  <2>2. CASE t \notin Markers
    <3>1. UsesEvent(t)
      BY <2>2, <1>1 DEF UsesEvent, Threads
    <3> QED
      BY <2>2, <3>1 DEF CallbackStatus, NoUseAfterDestroy
  <2> QED
    BY <2>1, <2>2
<1>5. invoked \in [Callbacks -> Seq(Statuses \cup {kUnknown})]
  BY DEF TypeOK
<1>6. Append(<<>>, status) = <<status>>
  OBVIOUS
<1>7. invoked' = [invoked EXCEPT ![c] = Append(invoked[c], status)]
  BY <1>1, <1>2, <1>4, <1>5
<1> QED
  BY <1>2, <1>3, <1>6, <1>7

\* Every step of an event of an orderly client is one of the promise, or one it does not see.
LEMMA KeepsPromise ==
  ASSUME OrderlyDestroy, LifetimeInv, CallbackInv, Answerable, Answerable', [Next]_vars
  PROVE  [P!Next]_P!vars
<1> USE EventAssumption DEF Threads, P!vars, P!Next
<1>0. /\ TypeOK /\ Control /\ NoUseAfterDestroy
      /\ \A t \in Clients : t \notin Markers
      /\ \A t \in Threads : t \in Clients \/ t \in Markers
      /\ pc \in [Threads -> {"idle", "waiting", "awoken", "reading", "calling",
                             "working", "deleting", "done"}]
      /\ returned \in [Clients -> Statuses \cup {kUnknown}]
  BY DEF LifetimeInv, TypeOK
<1>v. ready => status # kUnknown
  BY DEF Answerable
\* Steps that the promise does not see.
<1> DEFINE Hidden == /\ UNCHANGED <<ready, status, returned, registered, invoked>>
                     /\ Asking' = Asking
<1>h. Hidden => UNCHANGED P!vars
  OBVIOUS
<1> HIDE DEF Hidden
<1>1. ASSUME NEW t \in Clients, AwaitEnter(t) \/ EventError(t) PROVE P!Ask(t)
  BY <1>0, <1>1 DEF AwaitEnter, EventError, MayCall, P!Ask, Asking
<1>2. ASSUME NEW t \in Clients, ClientDestroy(t) PROVE Hidden
  BY <1>2 DEF ClientDestroy, Hidden, Asking
<1>3. ASSUME NEW t \in Clients, NEW c \in Callbacks, OnReady(t, c) PROVE P!Subscribe(c)
  <2>1. Asking' = Asking
    BY <1>0, <1>3 DEF OnReady, MayCall, Asking
  <2> QED
    BY <1>3, <2>1 DEF OnReady, P!Subscribe
<1>4. ASSUME NEW t \in Threads, AwaitWake(t) PROVE Hidden
  <2>1. Asking' = Asking
    BY <1>0, <1>4 DEF AwaitWake, Asking
  <2> QED
    BY <1>4, <2>1 DEF AwaitWake, Hidden
<1>11. ASSUME NEW t \in Threads, AwaitSleep(t) \/ SpuriousWakeup(t) PROVE Hidden
  BY <1>11 DEF AwaitSleep, SpuriousWakeup, Hidden, Asking
<1>5. ASSUME NEW t \in Threads, GetErrorFromStatus(t) PROVE t \in Clients /\ P!Answer(t)
  <2>1. t \in Clients /\ pc[t] \in {"awoken", "reading"}
    BY <1>0, <1>5 DEF GetErrorFromStatus, Control
  <2>2. ready /\ ~destroyed
    BY <1>0, <2>1 DEF Answerable, NoUseAfterDestroy, UsesEvent
  <2>3. returned' = [returned EXCEPT ![t] = status]
    BY <1>5, <2>2 DEF GetErrorFromStatus
  <2>4. Asking' = Asking \ {t} /\ t \in Asking
    BY <1>0, <1>5, <2>1 DEF GetErrorFromStatus, Asking
  <2>5. UNCHANGED <<ready, status, registered, invoked>>
    BY <1>5 DEF GetErrorFromStatus
  <2> QED
    BY <1>v, <2>1, <2>2, <2>3, <2>4, <2>5 DEF P!Answer
<1>6. ASSUME NEW t \in Threads, RunCallback(t)
      PROVE  \E c \in Callbacks : P!Tell(c)
  <2> DEFINE c == Head(todo[t])
  <2>1. /\ c \in registered /\ c \in Callbacks /\ invoked[c] = <<>> /\ ready
        /\ invoked' = [invoked EXCEPT ![c] = <<status>>]
    BY <1>0, <1>6, NextCallback
  <2>2. UNCHANGED <<ready, status, returned, registered>> /\ Asking' = Asking
    BY <1>6 DEF RunCallback, Asking
  <2> HIDE DEF c
  <2> QED
    BY <1>v, <2>1, <2>2 DEF P!Tell
<1>7. ASSUME NEW t \in Threads, CallbacksDone(t) PROVE Hidden
  <2>1. Asking' = Asking
    BY <1>0, <1>7 DEF CallbacksDone, Asking
  <2> QED
    BY <1>7, <2>1 DEF CallbacksDone, Hidden
<1>8. ASSUME NEW m \in Markers, NEW s \in Statuses, MarkAsReady(m, s)
      PROVE  P!Fulfil \/ Hidden
  <2>1. /\ UNCHANGED <<returned, registered, invoked>> /\ Asking' = Asking
        /\ ready' = TRUE /\ status' = IF ready THEN status ELSE s
    BY <1>0, <1>8 DEF MarkAsReady, MarkAsReadyNoLock, Asking
  <2>2. CASE ready
    BY <2>1, <2>2 DEF Hidden
  <2>3. CASE ~ready
    BY <2>1, <2>3 DEF P!Fulfil
  <2> QED
    BY <2>2, <2>3
<1>9. ASSUME NEW m \in Markers, OwnerDelete(m) PROVE Hidden
  <2>1. Asking' = Asking
    BY <1>0, <1>9 DEF OwnerDelete, Asking
  <2> QED
    BY <1>9, <2>1 DEF OwnerDelete, Hidden
<1>10. CASE UNCHANGED vars
  BY <1>10 DEF vars, Asking
<1> QED
  BY <1>h, <1>1, <1>2, <1>3, <1>4, <1>5, <1>6, <1>7, <1>8, <1>9, <1>10, <1>11
  DEF Next, ClientStep, Progress, MarkerStep

\* An event of an orderly client is a promise: PJRT_Event_Await, PJRT_Event_Error and every
\* callback get the status of the first mark and nothing before it, although they read it, or
\* are told it, after the lock was released and while others mark or destroy the event.
THEOREM EventKeepsPromise ==
  ASSUME OrderlyDestroy
  PROVE  Spec => ImplementsPromise
<1>1. Init => P!Init
  BY EventAssumption DEF Init, P!Init, Asking, Threads
<1>2. Init => Answerable
  BY EventAssumption DEF Init, Answerable, Threads
<1>3. TypeOK /\ LifetimeInv /\ Answerable /\ [Next]_vars => Answerable'
  BY AnswerableStep
<1>4. LifetimeInv /\ CallbackInv /\ Answerable /\ Answerable' /\ [Next]_vars
        => [P!Next]_P!vars
  BY KeepsPromise
<1> QED
  BY <1>1, <1>2, <1>3, <1>4, TypeCorrect, LifetimeInvHolds, CallbackInvHolds, PTL
  DEF Spec, ImplementsPromise, P!Spec
=============================================================================
