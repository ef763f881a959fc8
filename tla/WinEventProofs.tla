--------------------------- MODULE WinEventProofs ---------------------------
(***************************************************************************)
(* Proofs about WinEvent, for any number of waiters and signals.  The      *)
(* argument: the counter never runs behind the value a waiter remembers,   *)
(* so a signal always separates the two; a wait that returns true spends   *)
(* the flag or the gap between them, and leaves neither.                   *)
(***************************************************************************)
EXTENDS WinEvent, TLAPS

\* What a waiter remembers of the counter is not ahead of it.
CountBehind == \A t \in Waiters : count[t] <= m_Count

IInv == TypeOK /\ CountBehind /\ FlagImpliesCount /\ OneWakeupPerSignal

LEMMA InitIInv == Init => IInv
<1> SUFFICES ASSUME Init PROVE IInv
  OBVIOUS
<1>1. TypeOK
  BY DEF Init, TypeOK
<1>2. CountBehind /\ FlagImpliesCount
  <2>1. CountBehind
    <3>1. 0 <= 0
      OBVIOUS
    <3> QED BY <3>1, Zenon DEF Init, CountBehind
  <2>2. FlagImpliesCount
    BY DEF Init, FlagImpliesCount
  <2> QED BY <2>1, <2>2
<1>3. OneWakeupPerSignal
  <2>1. 0 <= 0
    OBVIOUS
  <2>2. \A t \in Waiters : ~Pending(t)
    BY DEF Init, Pending
  <2> QED BY <2>1, <2>2, Zenon DEF Init, OneWakeupPerSignal
<1> QED BY <1>1, <1>2, <1>3 DEF IInv

\* Signalling and resetting preserve IInv.
LEMMA SignalResetIInv ==
  ASSUME IInv, Signal \/ Reset
  PROVE  IInv'
<1>1. CASE Signal
  <2>1. TypeOK' /\ CountBehind'
    BY <1>1 DEF Signal, IInv, TypeOK, CountBehind
  <2>2. FlagImpliesCount'
    BY <1>1 DEF Signal, IInv, TypeOK, CountBehind, FlagImpliesCount
  <2>3. OneWakeupPerSignal'
    BY <1>1 DEF Signal, IInv, TypeOK, OneWakeupPerSignal, Pending
  <2> QED BY <2>1, <2>2, <2>3 DEF IInv
<1>2. CASE Reset
  BY <1>2 DEF Reset, IInv, TypeOK, CountBehind, FlagImpliesCount, OneWakeupPerSignal, Pending
<1> QED BY <1>1, <1>2

\* Every step of a wait preserves IInv.
LEMMA WaitIInv ==
  ASSUME IInv, NEW t \in Waiters,
         WaitPasses(t) \/ WaitBlocks(t) \/ WaitWakes(t) \/ WaitTimesOut(t)
  PROVE  IInv'
<1>1. CASE WaitPasses(t)
  <2>1. TypeOK' /\ CountBehind' /\ FlagImpliesCount'
    BY <1>1, WinEventAssumption
       DEF WaitPasses, AfterWait, IInv, TypeOK, CountBehind, FlagImpliesCount
  <2>2. OneWakeupPerSignal'
    BY <1>1 DEF WaitPasses, AfterWait, IInv, TypeOK, OneWakeupPerSignal, Pending
  <2> QED BY <2>1, <2>2 DEF IInv
<1>2. CASE WaitBlocks(t)
  <2>1. TypeOK' /\ CountBehind' /\ FlagImpliesCount'
    BY <1>2 DEF WaitBlocks, IInv, TypeOK, CountBehind, FlagImpliesCount
  <2>2. OneWakeupPerSignal'
    BY <1>2 DEF WaitBlocks, IInv, TypeOK, OneWakeupPerSignal, Pending
  <2> QED BY <2>1, <2>2 DEF IInv
<1>3. CASE WaitWakes(t)
  <2>1. TypeOK' /\ CountBehind' /\ FlagImpliesCount'
    <3>1. m_Signaled' \in BOOLEAN /\ (m_Signaled' => m_Signaled)
      BY <1>3, WinEventAssumption DEF WaitWakes, AfterWait, IInv, TypeOK
    <3>2. TypeOK'
      BY <1>3, <3>1 DEF WaitWakes, IInv, TypeOK
    <3>3. CountBehind' /\ FlagImpliesCount'
      BY <1>3, <3>1 DEF WaitWakes, IInv, CountBehind, FlagImpliesCount
    <3> QED BY <3>2, <3>3
  <2>2. OneWakeupPerSignal'
    BY <1>3 DEF WaitWakes, Released, AfterWait, IInv, TypeOK, OneWakeupPerSignal, Pending
  <2> QED BY <2>1, <2>2 DEF IInv
<1>4. CASE WaitTimesOut(t)
  BY <1>4, WinEventAssumption
     DEF WaitTimesOut, AfterWait, IInv, TypeOK, CountBehind, FlagImpliesCount,
         OneWakeupPerSignal, Pending
<1> QED BY <1>1, <1>2, <1>3, <1>4

\* IInv is an invariant of the event.
LEMMA Invariance == Spec => []IInv
<1>1. IInv /\ UNCHANGED vars => IInv'
  BY DEF vars, IInv, TypeOK, CountBehind, FlagImpliesCount, OneWakeupPerSignal, Pending
<1>2. IInv /\ [Next]_vars => IInv'
  BY <1>1, SignalResetIInv, WaitIInv DEF Next
<1> QED BY InitIInv, <1>2, PTL DEF Spec

\* Every variable of the event always has its type.
THEOREM TypeCorrectness == Spec => []TypeOK
BY Invariance, PTL DEF IInv

\* No thread returns true from the wait on an auto-reset event more often than
\* the event was set (CEventHandle::wait, lines 92-107).
THEOREM WakeupsAreSignalled == Spec => []OneWakeupPerSignal
BY Invariance, PTL DEF IInv

\* A set flag is always visible to the blocked threads in the counter too.
THEOREM CounterTellsOfFlag == Spec => []FlagImpliesCount
BY Invariance, PTL DEF IInv
=============================================================================
