----------------------------- MODULE EventQueue -----------------------------
(***************************************************************************)
(* The queue that carries every event from the native threads to the Node  *)
(* thread (common/EventQueue.cpp, common/Mutex.cpp): a std::queue under a  *)
(* mutex and an auto-reset event that is set after the mutex is released.  *)
(*                                                                         *)
(* Every thread pushes: the ForexConnect callback threads, the libuv       *)
(* workers and the Node thread itself (log lines of a login).  Only the    *)
(* Node thread pops (nextEvent, until it finds the queue empty), waits     *)
(* (waitEvents) and clears (Order2Go::close).                              *)
(*                                                                         *)
(* A push or a pop of std::queue is a read of its internals followed by a  *)
(* write of them, so each is two steps here: "view" is what the thread     *)
(* read, and the write is computed from the view.  Nothing but the mutex   *)
(* keeps the view of a thread equal to the queue.                          *)
(***************************************************************************)
EXTENDS Naturals, Sequences

CONSTANTS
  Threads,     \* all the threads that use the queue
  Main,        \* the Node thread, one of them
  NoThread,    \* "the mutex is free"
  MaxPush,     \* bound: pushes of one thread
  MaxClear     \* bound: calls of clear()

ASSUME EventQueueAssumption ==
  /\ Main \in Threads
  /\ NoThread \notin Threads
  /\ MaxPush \in Nat
  /\ MaxClear \in Nat

VARIABLES
  m_queue,     \* the std::queue, oldest event first
  m_mutex,     \* the thread that holds the mutex, or NoThread
  m_Event,     \* the auto-reset event: signalled?
  pc,          \* where each thread is in push, pop, clear or waitEvents
  view,        \* what a thread inside the mutex read of the queue
  pushed,      \* how many events each thread has begun to push
  clears,      \* how many times clear() was called
  accepted,    \* history: all the events stored in the queue, in order
  removed      \* history: all the events taken out of it, in order

vars == <<m_queue, m_mutex, m_Event, pc, view, pushed, clears, accepted, removed>>

Event == [by : Threads, seq : 1..MaxPush]

PushPC == {"push_locked", "push_stored", "push_unlocked"}
PopPC == {"pop_locked", "pop_taken", "pop_empty"}
ClearPC == {"clear_locked", "clear_done"}

\* Between lock() and unlock(): lines 33-35, and the scope of Mutex::Lock.
Critical == {"push_locked", "push_stored"} \cup PopPC \cup ClearPC

TypeOK ==
  /\ m_queue \in Seq(Event)
  /\ m_mutex \in Threads \cup {NoThread}
  /\ m_Event \in BOOLEAN
  /\ pc \in [Threads -> {"idle", "drained", "waiting"} \cup PushPC \cup PopPC \cup ClearPC]
  /\ \A t \in Threads \ {Main} : pc[t] \in {"idle"} \cup PushPC
  /\ view \in [Threads -> Seq(Event)]
  /\ pushed \in [Threads -> 0..MaxPush]
  /\ clears \in 0..MaxClear
  /\ accepted \in Seq(Event)
  /\ removed \in Seq(Event)

Init ==
  /\ m_queue = <<>>
  /\ m_mutex = NoThread
  /\ m_Event = FALSE
  /\ pc = [t \in Threads |-> "idle"]
  /\ view = [t \in Threads |-> <<>>]
  /\ pushed = [t \in Threads |-> 0]
  /\ clears = 0
  /\ accepted = <<>>
  /\ removed = <<>>

-----------------------------------------------------------------------------
(* Mutex *)

\* A thread that is in no call of the queue may start one.
Free(t) == pc[t] \in {"idle", "drained"}

\* The mutex left out.
LockUnguarded(t) ==
  /\ m_mutex' = t
  /\ view' = [view EXCEPT ![t] = m_queue]

Lock(t) ==
  /\ m_mutex = NoThread
  /\ m_mutex' = t
  /\ view' = [view EXCEPT ![t] = m_queue]

Unlock(t) ==
  /\ m_mutex' = NoThread
  /\ view' = [view EXCEPT ![t] = <<>>]

-----------------------------------------------------------------------------
(* push *)

PushLock(t) ==
  /\ Free(t)
  /\ pushed[t] < MaxPush
  /\ Lock(t)
  /\ pc' = [pc EXCEPT ![t] = "push_locked"]
  /\ pushed' = [pushed EXCEPT ![t] = @ + 1]
  /\ UNCHANGED <<m_queue, m_Event, clears, accepted, removed>>

NextEventOf(t) == [by |-> t, seq |-> pushed[t]]

\* A stack instead of a queue.
PushStoreInFront(t) ==
  /\ pc[t] = "push_locked"
  /\ m_queue' = <<NextEventOf(t)>> \o view[t]
  /\ accepted' = Append(accepted, NextEventOf(t))
  /\ pc' = [pc EXCEPT ![t] = "push_stored"]
  /\ UNCHANGED <<m_mutex, m_Event, view, pushed, clears, removed>>

PushStore(t) ==
  /\ pc[t] = "push_locked"
  /\ m_queue' = Append(view[t], NextEventOf(t))
  /\ accepted' = Append(accepted, NextEventOf(t))
  /\ pc' = [pc EXCEPT ![t] = "push_stored"]
  /\ UNCHANGED <<m_mutex, m_Event, view, pushed, clears, removed>>

\* push() without its last line.
PushUnlockUnsignalled(t) ==
  /\ pc[t] = "push_stored"
  /\ Unlock(t)
  /\ pc' = [pc EXCEPT ![t] = "idle"]
  /\ UNCHANGED <<m_queue, m_Event, pushed, clears, accepted, removed>>

PushUnlock(t) ==
  /\ pc[t] = "push_stored"
  /\ Unlock(t)
  /\ pc' = [pc EXCEPT ![t] = "push_unlocked"]
  /\ UNCHANGED <<m_queue, m_Event, pushed, clears, accepted, removed>>

PushSetEvent(t) ==
  /\ pc[t] = "push_unlocked"
  /\ m_Event' = TRUE
  /\ pc' = [pc EXCEPT ![t] = "idle"]
  /\ UNCHANGED <<m_queue, m_mutex, view, pushed, clears, accepted, removed>>

-----------------------------------------------------------------------------
(* pop, as the pump calls it: again and again, until it returns UNKNOWN *)

PopLock ==
  /\ Free(Main)
  /\ Lock(Main)
  /\ pc' = [pc EXCEPT ![Main] = "pop_locked"]
  /\ UNCHANGED <<m_queue, m_Event, pushed, clears, accepted, removed>>

\* front() without the pop() that follows it.
PopTakeFrontOnly ==
  /\ pc[Main] = "pop_locked"
  /\ view[Main] # <<>>
  /\ pc' = [pc EXCEPT ![Main] = "pop_taken"]
  /\ UNCHANGED <<m_queue, m_mutex, m_Event, view, pushed, clears, accepted, removed>>

PopTake ==
  /\ pc[Main] = "pop_locked"
  /\ view[Main] # <<>>
  /\ m_queue' = Tail(view[Main])
  /\ removed' = Append(removed, Head(view[Main]))
  /\ pc' = [pc EXCEPT ![Main] = "pop_taken"]
  /\ UNCHANGED <<m_mutex, m_Event, view, pushed, clears, accepted>>

PopUnknown ==
  /\ pc[Main] = "pop_locked"
  /\ view[Main] = <<>>
  /\ pc' = [pc EXCEPT ![Main] = "pop_empty"]
  /\ UNCHANGED <<m_queue, m_mutex, m_Event, view, pushed, clears, accepted, removed>>

PopUnlock ==
  /\ pc[Main] \in {"pop_taken", "pop_empty"}
  /\ Unlock(Main)
  /\ pc' = [pc EXCEPT ![Main] = IF @ = "pop_empty" THEN "drained" ELSE "idle"]
  /\ UNCHANGED <<m_queue, m_Event, pushed, clears, accepted, removed>>

-----------------------------------------------------------------------------
(* clear *)

ClearLock ==
  /\ Free(Main)
  /\ clears < MaxClear
  /\ Lock(Main)
  /\ pc' = [pc EXCEPT ![Main] = "clear_locked"]
  /\ clears' = clears + 1
  /\ UNCHANGED <<m_queue, m_Event, pushed, accepted, removed>>

ClearAll ==
  /\ pc[Main] = "clear_locked"
  /\ m_queue' = <<>>
  /\ removed' = removed \o view[Main]
  /\ pc' = [pc EXCEPT ![Main] = "clear_done"]
  /\ UNCHANGED <<m_mutex, m_Event, view, pushed, clears, accepted>>

ClearUnlock ==
  /\ pc[Main] = "clear_done"
  /\ Unlock(Main)
  /\ pc' = [pc EXCEPT ![Main] = "idle"]
  /\ UNCHANGED <<m_queue, m_Event, pushed, clears, accepted, removed>>

-----------------------------------------------------------------------------
(* waitEvents, called by a pump that has just found the queue empty.  The  *)
(* wait is the one of an auto-reset event: it consumes the signal, also    *)
(* when a time-out races with it (module WinEvent).                        *)

WaitEnter ==
  /\ pc[Main] = "drained"
  /\ pc' = [pc EXCEPT ![Main] = "waiting"]
  /\ UNCHANGED <<m_queue, m_mutex, m_Event, view, pushed, clears, accepted, removed>>

WaitReturn ==
  /\ pc[Main] = "waiting"
  /\ m_Event
  /\ m_Event' = FALSE
  /\ pc' = [pc EXCEPT ![Main] = "idle"]
  /\ UNCHANGED <<m_queue, m_mutex, view, pushed, clears, accepted, removed>>

WaitTimeout ==
  /\ pc[Main] = "waiting"
  /\ m_Event' = FALSE
  /\ pc' = [pc EXCEPT ![Main] = "idle"]
  /\ UNCHANGED <<m_queue, m_mutex, view, pushed, clears, accepted, removed>>

-----------------------------------------------------------------------------
Push(t) == PushLock(t) \/ PushStore(t) \/ PushUnlock(t) \/ PushSetEvent(t)
Pop == PopLock \/ PopTake \/ PopUnknown \/ PopUnlock
Clear == ClearLock \/ ClearAll \/ ClearUnlock
Wait == WaitEnter \/ WaitReturn \/ WaitTimeout

Next == (\E t \in Threads : Push(t)) \/ Pop \/ Clear \/ Wait

Spec == Init /\ [][Next]_vars

\* A thread inside a call gets on with it, and until close() the pump calls
\* pop again on every turn of the event loop (addon.js, setImmediate).  A wait
\* ends when the event is set; no fairness is assumed of its time-out.
Fairness ==
  /\ \A t \in Threads : WF_vars(PushStore(t) \/ PushUnlock(t) \/ PushSetEvent(t))
  /\ WF_vars(clears = 0 /\ PopLock)
  /\ WF_vars(PopTake \/ PopUnknown \/ PopUnlock)
  /\ WF_vars(ClearAll \/ ClearUnlock)
  /\ WF_vars(WaitReturn)

FairSpec == Spec /\ Fairness

-----------------------------------------------------------------------------
(* Properties *)

\* No two threads are inside the std::queue at once: every push, pop and clear
\* of EventQueue.cpp holds m_mutex while it touches m_queue.
MutualExclusion ==
  \A s, t \in Threads : pc[s] \in Critical /\ pc[t] \in Critical => s = t

\* The Node thread gets every event exactly once and in the order in which the
\* pushes took the mutex: what was taken, followed by what is queued, is what
\* was pushed.
NothingLostOrReordered == accepted = removed \o m_queue

\* A pump that found the queue empty and then waits is never left asleep with
\* an event in the queue: the signal is set, or the push is about to set it.
\* It is the order "push, unlock, SetEvent" of EventQueue::push.
NoLostWakeup ==
  pc[Main] = "waiting" /\ m_queue # <<>> =>
    m_Event \/ \E t \in Threads : pc[t] \in {"push_stored", "push_unlocked"}

\* Until close(), the pump keeps emptying the queue, so that (the queue being
\* first-in first-out) every event that was pushed reaches the Node thread.
EventuallyDrained == []<>(m_queue = <<>> \/ clears > 0)

\* push, pop and clear are atomic for everyone else.
Channel == INSTANCE EventChannel WITH chan <- m_queue

\* The queue implements the first-in first-out channel.
ImplementsChannel == Channel!Spec
=============================================================================
