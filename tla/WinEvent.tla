------------------------------ MODULE WinEvent ------------------------------
(***************************************************************************)
(* One Win32-style event as the addon emulates it on POSIX systems         *)
(* (common/winevent.cpp, class CEventHandle): a flag, a signal counter, a  *)
(* mutex and a condition variable.  Every listener of the addon blocks on  *)
(* one of these; all of them are auto-reset.                               *)
(*                                                                         *)
(* Each action is one critical section of m_Mutex.  A waiter leaves the    *)
(* mutex only inside pthread_cond_(timed)wait, so a wait is two sections:  *)
(* from its entry to the first blocking call, and from the last wake-up to *)
(* its return.  pthread_cond_broadcast wakes every waiter; each one        *)
(* re-evaluates the loop condition, which compares the counter with its    *)
(* value at the entry, and a spurious wake-up blocks again (a stutter).    *)
(* rc is ETIMEDOUT only when the last timed wait timed out, and then the   *)
(* loop is left whatever was signalled in the meantime.                    *)
(*                                                                         *)
(* The other half of the class (subscribe, used by WaitForMultipleObjects) *)
(* has no caller in the addon.                                             *)
(***************************************************************************)
EXTENDS Naturals

CONSTANTS
  Waiters,        \* the threads that wait on the event
  ManualReset,    \* m_ManualReset
  MaxSignals      \* bound: calls of SetEvent

ASSUME WinEventAssumption == ManualReset \in BOOLEAN /\ MaxSignals \in Nat

VARIABLES
  m_Signaled,  \* the flag
  m_Count,     \* how many times signal() was called
  blocked,     \* the threads inside pthread_cond_(timed)wait
  count,       \* for each of them, m_Count at the entry of wait()
  wakeups      \* history: how many waits of each thread returned true

vars == <<m_Signaled, m_Count, blocked, count, wakeups>>

TypeOK ==
  /\ m_Signaled \in BOOLEAN
  /\ m_Count \in Nat
  /\ blocked \subseteq Waiters
  /\ count \in [Waiters -> Nat]
  /\ wakeups \in [Waiters -> Nat]

Init ==
  /\ m_Signaled = FALSE
  /\ m_Count = 0
  /\ blocked = {}
  /\ count = [t \in Waiters |-> 0]
  /\ wakeups = [t \in Waiters |-> 0]

\* The flag left as it is, as for a manual-reset event.
AfterWaitUnreset == m_Signaled

\* The flag after a wait, successful or not.
AfterWait == IF ManualReset THEN m_Signaled ELSE FALSE

-----------------------------------------------------------------------------
\* signal() without the counter.
SignalFlagOnly ==
  /\ m_Count < MaxSignals
  /\ m_Signaled' = TRUE
  /\ UNCHANGED <<m_Count, blocked, count, wakeups>>

\* signal(), the body of SetEvent.
Signal ==
  /\ m_Count < MaxSignals
  /\ m_Signaled' = TRUE
  /\ m_Count' = m_Count + 1
  /\ UNCHANGED <<blocked, count, wakeups>>

\* reset(), the body of ResetEvent.
Reset ==
  /\ m_Signaled' = FALSE
  /\ UNCHANGED <<m_Count, blocked, count, wakeups>>

\* The loop condition of wait() is false at once.
WaitPasses(t) ==
  /\ t \notin blocked
  /\ m_Signaled
  /\ m_Signaled' = AfterWait
  /\ wakeups' = [wakeups EXCEPT ![t] = @ + 1]
  /\ UNCHANGED <<m_Count, blocked, count>>

WaitBlocks(t) ==
  /\ t \notin blocked
  /\ ~m_Signaled
  /\ blocked' = blocked \cup {t}
  /\ count' = [count EXCEPT ![t] = m_Count]
  /\ UNCHANGED <<m_Signaled, m_Count, wakeups>>

\* The loop condition without the counter: only the flag is looked at.
ReleasedByFlag(t) == m_Signaled

Released(t) == m_Signaled \/ m_Count # count[t]

WaitWakes(t) ==
  /\ t \in blocked
  /\ Released(t)
  /\ blocked' = blocked \ {t}
  /\ m_Signaled' = AfterWait
  /\ wakeups' = [wakeups EXCEPT ![t] = @ + 1]
  /\ UNCHANGED <<m_Count, count>>

\* The time is up: the flag is reset all the same, and wait() returns false.
WaitTimesOut(t) ==
  /\ t \in blocked
  /\ blocked' = blocked \ {t}
  /\ m_Signaled' = AfterWait
  /\ UNCHANGED <<m_Count, count, wakeups>>

-----------------------------------------------------------------------------
Next ==
  \/ Signal
  \/ Reset
  \/ \E t \in Waiters : WaitPasses(t) \/ WaitBlocks(t) \/ WaitWakes(t) \/ WaitTimesOut(t)

Spec == Init /\ [][Next]_vars

\* A woken thread gets the mutex back and returns.  Nothing is assumed of
\* time-outs: most waits of the addon are INFINITE.
FairSpec == Spec /\ \A t \in Waiters : WF_vars(WaitWakes(t))

-----------------------------------------------------------------------------
(* Properties *)

\* Some signal may still end a wait of t.
Pending(t) == m_Signaled \/ (t \in blocked /\ m_Count # count[t])

\* An auto-reset event is used up by the wait it ends: a thread never returns
\* true from wait() more often than SetEvent was called, and less often while a
\* signal is pending for it, however waits, resets, time-outs and other threads
\* interleave.
OneWakeupPerSignal ==
  ~ManualReset =>
    \A t \in Waiters : /\ wakeups[t] <= m_Count
                       /\ Pending(t) => wakeups[t] < m_Count

\* A thread that blocked before the flag was set always knows it from the
\* counter: the flag alone never decides for it, so that the reset of the flag by
\* another waiter or by ResetEvent cannot put it back to sleep.
FlagImpliesCount == m_Signaled => \A t \in blocked : m_Count # count[t]

\* Every thread that is blocked when SetEvent is called comes out of wait(),
\* also when the flag is reset before it runs.
SignalReleasesBlocked ==
  \A t \in Waiters : (t \in blocked /\ m_Count # count[t]) ~> (t \notin blocked)
=============================================================================
