-------------------------- MODULE EventQueueProofs --------------------------
(***************************************************************************)
(* Proofs about EventQueue, for any number of threads, pushes and clears.  *)
(*                                                                         *)
(* Everything rests on one fact: a thread that is between lock() and       *)
(* unlock() and has not written yet sees in its view the queue as it is,   *)
(* because nobody else can write.  TypeOK, MutualExclusion,                *)
(* NothingLostOrReordered, NoLostWakeup and the refinement of EventChannel *)
(* follow from the inductive invariant IInv that says so.                  *)
(***************************************************************************)
EXTENDS EventQueue, SequenceTheorems, TLAPS

\* The threads inside the mutex are the ones that hold it.
OwnerInCritical == \A t \in Threads : pc[t] \in Critical <=> m_mutex = t

\* Before it writes, the view of the holder is the queue.
ViewIsCurrent ==
  \A t \in Threads :
    pc[t] \in {"push_locked", "pop_locked", "clear_locked"} => view[t] = m_queue

\* A thread inside push() has begun at least one push.
PushCounted == \A t \in Threads : pc[t] \in PushPC => pushed[t] # 0

\* A pop that found nothing has not left the mutex, or every event stored since
\* then has been, or is about to be, signalled.
DrainedOrSignalled ==
  /\ pc[Main] = "pop_empty" => m_queue = <<>>
  /\ pc[Main] \in {"drained", "waiting"} /\ m_queue # <<>> =>
       m_Event \/ \E t \in Threads : pc[t] \in {"push_stored", "push_unlocked"}

IInv ==
  /\ TypeOK
  /\ OwnerInCritical
  /\ ViewIsCurrent
  /\ PushCounted
  /\ NothingLostOrReordered
  /\ DrainedOrSignalled

-----------------------------------------------------------------------------
\* Appending an event to the queue appends it to all that was pushed.
LEMMA StoredIsAppended ==
  ASSUME TypeOK, NothingLostOrReordered, NEW e \in Event
  PROVE  Append(accepted, e) = removed \o Append(m_queue, e)
<1>1. removed \in Seq(Event) /\ m_queue \in Seq(Event)
  BY DEF TypeOK
<1>2. Append(removed \o m_queue, e) = removed \o Append(m_queue, e)
  BY <1>1
<1> QED BY <1>2 DEF NothingLostOrReordered

\* Moving the head of the queue to what was taken changes nothing else.
LEMMA MoveHead ==
  ASSUME NEW S, NEW r \in Seq(S), NEW q \in Seq(S), q # <<>>
  PROVE  r \o q = Append(r, Head(q)) \o Tail(q)
BY SMT

\* IInv holds initially.
LEMMA InitIInv == Init => IInv
<1> SUFFICES ASSUME Init PROVE IInv
  OBVIOUS
<1>1. TypeOK
  <2>1. <<>> \in Seq(Event)
    OBVIOUS
  <2>2. 0 \in 0..MaxPush /\ 0 \in 0..MaxClear
    BY EventQueueAssumption
  <2> QED BY <2>1, <2>2 DEF Init, TypeOK
<1>2. OwnerInCritical
  BY EventQueueAssumption DEF Init, OwnerInCritical, Critical, PopPC, ClearPC
<1>3. ViewIsCurrent /\ PushCounted /\ DrainedOrSignalled
  BY EventQueueAssumption DEF Init, ViewIsCurrent, PushCounted, DrainedOrSignalled, PushPC
<1>4. NothingLostOrReordered
  BY DEF Init, NothingLostOrReordered
<1> QED BY <1>1, <1>2, <1>3, <1>4 DEF IInv

\* Every step of push preserves IInv.
LEMMA PushIInv ==
  ASSUME IInv, NEW t \in Threads, Push(t)
  PROVE  IInv'
<1> USE EventQueueAssumption
         DEF IInv, TypeOK, OwnerInCritical, ViewIsCurrent, PushCounted,
             NothingLostOrReordered, DrainedOrSignalled, Critical, PushPC, PopPC, ClearPC
<1>1. CASE PushLock(t)
  <2>1. TypeOK'
    BY <1>1 DEF PushLock, Free, Lock
  <2>2. OwnerInCritical'
    BY <1>1 DEF PushLock, Free, Lock
  <2>3. ViewIsCurrent' /\ PushCounted'
    BY <1>1 DEF PushLock, Free, Lock
  <2>4. DrainedOrSignalled'
    BY <1>1 DEF PushLock, Free, Lock
  <2> QED
    BY <1>1, <2>1, <2>2, <2>3, <2>4 DEF PushLock
<1>2. CASE PushStore(t)
  <2>1. /\ view[t] = m_queue
        /\ NextEventOf(t) \in Event
    BY <1>2 DEF PushStore, NextEventOf, Event
  <2>2. TypeOK'
    BY <1>2, <2>1 DEF PushStore
  <2>3. NothingLostOrReordered'
    <3>1. Append(accepted, NextEventOf(t)) = removed \o Append(m_queue, NextEventOf(t))
      BY <2>1, StoredIsAppended
    <3> QED BY <1>2, <2>1, <3>1 DEF PushStore
  <2>4. DrainedOrSignalled'
    BY <1>2 DEF PushStore
  <2> QED
    BY <1>2, <2>2, <2>3, <2>4 DEF PushStore
<1>3. CASE PushUnlock(t)
  BY <1>3 DEF PushUnlock, Unlock
<1>4. CASE PushSetEvent(t)
  BY <1>4 DEF PushSetEvent
<1> QED BY <1>1, <1>2, <1>3, <1>4 DEF Push

\* Every step of pop preserves IInv.
LEMMA PopIInv ==
  ASSUME IInv, Pop
  PROVE  IInv'
<1> USE EventQueueAssumption
         DEF IInv, TypeOK, OwnerInCritical, ViewIsCurrent, PushCounted,
             NothingLostOrReordered, DrainedOrSignalled, Critical, PushPC, PopPC, ClearPC
<1>1. CASE PopLock
  <2>1. TypeOK'
    BY <1>1 DEF PopLock, Free, Lock
  <2>2. OwnerInCritical'
    BY <1>1 DEF PopLock, Free, Lock
  <2>3. ViewIsCurrent' /\ PushCounted'
    BY <1>1 DEF PopLock, Free, Lock
  <2>4. DrainedOrSignalled'
    BY <1>1 DEF PopLock, Free, Lock
  <2> QED
    BY <1>1, <2>1, <2>2, <2>3, <2>4 DEF PopLock
<1>2. CASE PopTake
  <2>1. view[Main] = m_queue /\ m_queue # <<>>
    BY <1>2 DEF PopTake
  <2>2. Head(m_queue) \in Event /\ Tail(m_queue) \in Seq(Event)
    BY <2>1
  <2>3. TypeOK'
    BY <1>2, <2>1, <2>2 DEF PopTake
  <2>4. NothingLostOrReordered'
    <3>1. removed \o m_queue = Append(removed, Head(m_queue)) \o Tail(m_queue)
      BY <2>1, MoveHead
    <3> QED BY <1>2, <2>1, <3>1 DEF PopTake
  <2> QED
    BY <1>2, <2>3, <2>4 DEF PopTake
<1>3. CASE PopUnknown
  BY <1>3 DEF PopUnknown
<1>4. CASE PopUnlock
  BY <1>4 DEF PopUnlock, Unlock
<1> QED BY <1>1, <1>2, <1>3, <1>4 DEF Pop

\* Every step of clear preserves IInv.
LEMMA ClearIInv ==
  ASSUME IInv, Clear
  PROVE  IInv'
<1> USE EventQueueAssumption
         DEF IInv, TypeOK, OwnerInCritical, ViewIsCurrent, PushCounted,
             NothingLostOrReordered, DrainedOrSignalled, Critical, PushPC, PopPC, ClearPC
<1>1. CASE ClearLock
  BY <1>1 DEF ClearLock, Free, Lock
<1>2. CASE ClearAll
  <2>1. view[Main] = m_queue
    BY <1>2 DEF ClearAll
  <2>2. removed' \in Seq(Event) /\ accepted' = removed' \o m_queue'
    BY <1>2, <2>1 DEF ClearAll
  <2> QED
    BY <1>2, <2>2 DEF ClearAll
<1>3. CASE ClearUnlock
  BY <1>3 DEF ClearUnlock, Unlock
<1> QED BY <1>1, <1>2, <1>3 DEF Clear

\* Waiting preserves IInv.
LEMMA WaitIInv ==
  ASSUME IInv, Wait
  PROVE  IInv'
BY EventQueueAssumption
   DEF IInv, TypeOK, OwnerInCritical, ViewIsCurrent, PushCounted, NothingLostOrReordered,
       DrainedOrSignalled, Critical, PushPC, PopPC, ClearPC, Wait, WaitEnter, WaitReturn, WaitTimeout

\* IInv is an invariant of the queue.
LEMMA Invariance == Spec => []IInv
<1>1. IInv /\ UNCHANGED vars => IInv'
  BY DEF vars, IInv, TypeOK, OwnerInCritical, ViewIsCurrent, PushCounted,
         NothingLostOrReordered, DrainedOrSignalled
<1>2. IInv /\ [Next]_vars => IInv'
  BY <1>1, PushIInv, PopIInv, ClearIInv, WaitIInv DEF Next
<1> QED BY InitIInv, <1>2, PTL DEF Spec

-----------------------------------------------------------------------------
\* Every variable always has its type; in particular a thread other than the
\* Node thread is never inside pop, clear or waitEvents.
THEOREM TypeCorrectness == Spec => []TypeOK
BY Invariance, PTL DEF IInv

\* Pushes, pops and clears of any number of threads never overlap inside the
\* std::queue (EventQueue.cpp, m_mutex).
THEOREM Exclusion == Spec => []MutualExclusion
<1>1. IInv => MutualExclusion
  BY DEF IInv, OwnerInCritical, MutualExclusion
<1> QED BY Invariance, <1>1, PTL

\* No event is lost, duplicated or reordered between the threads that push and
\* the Node thread, whatever the interleaving.
THEOREM Fifo == Spec => []NothingLostOrReordered
BY Invariance, PTL DEF IInv

\* A pump that drained the queue and waits is not asleep on a queued event.
THEOREM WakeupSafety == Spec => []NoLostWakeup
<1>1. IInv => NoLostWakeup
  BY DEF IInv, DrainedOrSignalled, NoLostWakeup
<1> QED BY Invariance, <1>1, PTL

\* Each step of push, pop, clear or waitEvents is one step of the channel, or
\* none: the write inside the mutex is where the call takes effect.
LEMMA StepSimulation ==
  ASSUME IInv, [Next]_vars
  PROVE  [Channel!Next]_(Channel!vars)
<1> USE DEF Channel!Next, Channel!vars, Channel!Send, Channel!Take, Channel!Discard
<1>1. CASE UNCHANGED vars
  BY <1>1 DEF vars
<1>2. ASSUME NEW t \in Threads, Push(t)
      PROVE  [Channel!Next]_(Channel!vars)
  <2>1. CASE PushStore(t)
    <3>1. view[t] = m_queue /\ NextEventOf(t) \in Event
      BY <2>1, EventQueueAssumption
         DEF PushStore, NextEventOf, Event, IInv, TypeOK, ViewIsCurrent, PushCounted, PushPC
    <3> QED BY <2>1, <3>1 DEF PushStore
  <2>2. CASE PushLock(t) \/ PushUnlock(t) \/ PushSetEvent(t)
    BY <2>2 DEF PushLock, PushUnlock, PushSetEvent
  <2> QED BY <1>2, <2>1, <2>2 DEF Push
<1>3. CASE Pop
  <2>1. CASE PopTake
    <3>1. view[Main] = m_queue
      BY <2>1, EventQueueAssumption DEF PopTake, IInv, ViewIsCurrent
    <3> QED BY <2>1, <3>1 DEF PopTake
  <2>2. CASE PopLock \/ PopUnknown \/ PopUnlock
    BY <2>2 DEF PopLock, PopUnknown, PopUnlock
  <2> QED BY <1>3, <2>1, <2>2 DEF Pop
<1>4. CASE Clear
  <2>1. CASE ClearAll
    <3>1. view[Main] = m_queue
      BY <2>1, EventQueueAssumption DEF ClearAll, IInv, ViewIsCurrent
    <3> QED BY <2>1, <3>1 DEF ClearAll
  <2>2. CASE ClearLock \/ ClearUnlock
    BY <2>2 DEF ClearLock, ClearUnlock
  <2> QED BY <1>4, <2>1, <2>2 DEF Clear
<1>5. CASE Wait
  BY <1>5 DEF Wait, WaitEnter, WaitReturn, WaitTimeout
<1> QED BY <1>1, <1>2, <1>3, <1>4, <1>5 DEF Next

\* The mutex makes the queue a first-in first-out channel with atomic sends.
THEOREM Refinement == Spec => ImplementsChannel
<1>1. Init => Channel!Init
  BY DEF Init, Channel!Init
<1>2. IInv /\ [Next]_vars => [Channel!Next]_(Channel!vars)
  BY StepSimulation
<1> QED BY Invariance, <1>1, <1>2, PTL DEF Spec, ImplementsChannel, Channel!Spec
=============================================================================
