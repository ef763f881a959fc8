----------------------- MODULE ResponseListenerProofs -----------------------
(***************************************************************************)
(* That a call of the trading server tells the truth, for every number of  *)
(* price workers, requests and batches: an order call reports completion   *)
(* only of what the server completed (CompletedIsTrue), with the response  *)
(* (ResponseIsOwn) and the error (ErrorAgrees) of its own requests, and a   *)
(* client that took the listener over is served all the same               *)
(* (LastCallerIsServed).                                                   *)
(*                                                                         *)
(* None of them is inductive.  All follow from what the members of the     *)
(* listener mean to the client whose requests it names: the count is that  *)
(* of the completed requests of the call (Counts), the response is of one  *)
(* of them (Responses), and the event is only ever set once the call has   *)
(* ended (Wakes).  Other clients that wait, time out or read change none   *)
(* of this, only the error (HeldInv); while one client alone uses the      *)
(* listener, the error is its own, too (AloneInv).                         *)
(***************************************************************************)
EXTENDS ResponseListener, FiniteSetTheorems, WellFoundedInduction, TLAPS

\* From when the listener is reset until the call returns.
Armed == {"send", "wait", "blocked", "timed_out"} \cup Reading

\* The requests: calls do not share them, and they are not sent before the listener
\* is reset.
RequestInv ==
  /\ \A c \in Clients : \A r \in call[c] : answer[r] # "unused"
  /\ \A c, d \in Clients : c # d => call[c] \cap call[d] = {}
  /\ \A c \in Clients :
       pc[c] \in Resetting \cup {"send"} => \A r \in call[c] : answer[r] = "created"
  /\ \A c \in Clients :
       pc[c] # "idle" /\ kind[c] \in {"open", "prices"} => Cardinality(call[c]) = 1
  /\ \A c \in Clients : pc[c] = "read_response" => kind[c] \in {"open", "prices"}

\* The API thread handles an answer that was given.
ApiInv ==
  /\ apc # "idle" => handled \in Request
  /\ apc \in {"count", "store"} => answer[handled] = "completed"
  /\ apc \in {"find_failed", "fail", "fail_error"} => answer[handled] = "failed"
  /\ \A r \in errorEvents : answer[r] = "failed"

\* The listener names the requests of the call, and nothing crossed their set-up.
Held(c) == ~crossed[c] /\ m_RequestIDs = call[c]

\* What reset() has cleared so far stays clear: the API thread is in no callback.
Cleared(c) ==
  /\ pc[c] \in Resetting => apc = "idle" /\ ~timedOut[c]
  /\ pc[c] \in Resetting \ {"reset_response"} => m_Response = None
  /\ pc[c] \in {"reset_error", "reset_event", "reset_count"} => m_Status = "UNAVAILABLE"
  /\ pc[c] = "reset_count" => ~m_Signaled

\* The requests of the call that are in m_CompletedCount, and those that were refused.
Counted(c) ==
  {r \in call[c] : answer[r] = "completed" /\ ~(apc \in {"find", "count"} /\ handled = r)}
Refused(c) == {r \in call[c] : answer[r] = "failed" /\ r \in errorEvents}

Counts(c) ==
  /\ m_CompletedCount = Cardinality(Counted(c))
  /\ m_Status = "COMPLETED" \/ apc = "complete" => Counted(c) = call[c] /\ apc # "store"
  /\ apc \in {"count", "store", "fail", "fail_error"} => handled \in call[c]

Responses(c) ==
  /\ m_Response \in call[c] \cup {None}
  /\ Cardinality(call[c]) = 1 /\ Counted(c) # {} /\ apc # "store" => m_Response \in call[c]

\* The call has an outcome.
Ended(c) == m_Status = "COMPLETED" \/ Refused(c) # {}

\* The wait ends without a time-out only if the call has an outcome.
Wakes(c) ==
  /\ pc[c] \in {"send", "wait", "blocked"} => ~timedOut[c]
  /\ pc[c] = "timed_out" => timedOut[c]
  /\ apc = "signal" => Ended(c)
  /\ pc[c] \in {"send", "wait", "blocked"} /\ m_Signaled => Ended(c)
  /\ pc[c] = "blocked" /\ m_Count # count[c] => Ended(c)
  /\ pc[c] \in Reading /\ ~timedOut[c] => Ended(c)

Listens(c) == pc[c] \in Armed => Counts(c) /\ Responses(c) /\ Wakes(c)

\* What the call has read already, and what an order call has returned.
Got(c) ==
  /\ pc[c] # "done" => ~completed[c]
  /\ pc[c] \in {"read_error", "read_completed"} /\ kind[c] = "open" /\ ~timedOut[c] =>
       gotResponse[c] \in call[c] \/ Refused(c) # {}
  /\ pc[c] = "done" /\ completed[c] =>
       /\ \A r \in call[c] : answer[r] = "completed"
       /\ kind[c] = "open" /\ ~timedOut[c] => gotResponse[c] \in call[c]

\* Nobody else resets the listener.
Sole(c) == \A d \in Clients \ {c} : pc[d] \notin Resetting

HeldInv(c) == Held(c) => Sole(c) /\ Cleared(c) /\ Listens(c) /\ Got(c)

Alone(c) ==
  /\ ~crossed[c]
  /\ InCall(c) => m_RequestIDs = call[c] /\ \A d \in Clients : InCall(d) => d = c

\* The error is of a refused request of the call, or of its time-out.
Errors(c) ==
  /\ pc[c] \in {"reset_event", "reset_count"} => m_Error = None
  /\ pc[c] \in Armed =>
       /\ m_Error \in {None} \cup Refused(c) \cup (IF timedOut[c] THEN {Timeout} ELSE {})
       /\ ~timedOut[c] /\ Refused(c) # {} => m_Error \in Refused(c)

\* The error and the completion that an order call has read.
HasRead(c) ==
  pc[c] = "read_completed" /\ ~timedOut[c] =>
    (m_Status = "COMPLETED" /\ gotError[c] = None) \/ gotError[c] \in Refused(c)

Results(c) ==
  pc[c] = "done" /\ c = Main =>
    /\ completed[c] => \A r \in call[c] : answer[r] = "completed"
    /\ completed[c] /\ ~timedOut[c] => gotError[c] = None
    /\ ~completed[c] /\ ~timedOut[c] => gotError[c] \in Refused(c)

AloneInv(c) == Undisturbed(c) => Alone(c) /\ Errors(c) /\ HasRead(c) /\ Results(c)

IInv ==
  /\ TypeOK /\ Event!TypeOK /\ RequestInv /\ ApiInv
  /\ \A c \in Clients : HeldInv(c) /\ AloneInv(c)

USE ResponseListenerAssumption

-----------------------------------------------------------------------------
(* Sets of requests *)

Less == {ss \in Nat \X Nat : ss[1] < ss[2]}

LEMMA NatWF == IsWellFoundedOn(Less, Nat)
BY NatLessThanWellFounded, Zenon DEF OpToRel, Less

\* A set of requests that is not empty has a least one.
LEMMA Least ==
  ASSUME NEW T \in SUBSET Nat, T # {}
  PROVE  \E n \in T : \A m \in T : n <= m
<1>1. T \subseteq Nat
  OBVIOUS
<1>2. \E x \in T : \A y \in T : ~(<<y, x>> \in Less)
  BY NatWF, WFMin, <1>1, Zenon
<1>3. \A x, y \in T : ~(<<y, x>> \in Less) => x <= y
  BY <1>1 DEF Less
<1> QED
  BY <1>2, <1>3

LEMMA RequestFinite == IsFiniteSet(Request) /\ Request \subseteq Nat /\ None \notin Request /\ Timeout \notin Request
<1>1. IsFiniteSet(1 .. MaxRequests)
  BY FS_Interval
<1> QED
  BY <1>1 DEF Request

\* The least unused request is among those that a call takes.
LEMMA LeastFresh ==
  ASSUME TypeOK, NEW n \in Nat \ {0}, Cardinality(Unused) >= n
  PROVE  \E m \in Fresh(n) : m \in Unused /\ \A r \in Unused : m <= r
<1>1. IsFiniteSet(Unused) /\ Unused \subseteq Nat
  BY RequestFinite, FS_Subset DEF Unused
<1>2. Unused # {}
  BY FS_EmptySet
<1>3. PICK m \in Unused : \A r \in Unused : m <= r
  BY <1>1, <1>2, Least
<1>4. {s \in Unused : s <= m} = {m}
  <2>1. ASSUME NEW s \in Unused, s <= m PROVE s = m
    <3>1. m <= s /\ m \in Nat /\ s \in Nat
      BY <1>1, <1>3
    <3> QED
      BY <2>1, <3>1
  <2>2. m <= m
    BY <1>3
  <2> QED
    BY <2>1, <2>2, Zenon
<1>5. m \in Fresh(n)
  <2>1. Cardinality({m}) = 1
    BY FS_Singleton
  <2> QED
    BY <1>4, <2>1 DEF Fresh
<1> QED
  BY <1>3, <1>5

\* A call of one request has one request.
LEMMA FreshOne ==
  ASSUME TypeOK, Cardinality(Unused) >= 1
  PROVE  Cardinality(Fresh(1)) = 1
<1>1. IsFiniteSet(Unused) /\ Unused \subseteq Nat
  BY RequestFinite, FS_Subset DEF Unused
<1>2. PICK n \in Fresh(1) : n \in Unused /\ \A m \in Unused : n <= m
  BY LeastFresh
<1>3. ASSUME NEW m \in Unused, m # n PROVE m \notin Fresh(1)
  <2> DEFINE S == {s \in Unused : s <= m}
  <2>1. {n, m} \subseteq S
    BY <1>1, <1>2
  <2>2. IsFiniteSet(S) /\ Cardinality(S) \in Nat
    BY <1>1, FS_Subset, FS_CardinalityType
  <2>3. Cardinality({n, m}) = 2
    <3>1. IsFiniteSet({n}) /\ Cardinality({n}) = 1
      BY FS_Singleton
    <3>2. Cardinality({n} \cup {m}) = Cardinality({n}) + 1
      BY <1>3, <3>1, FS_AddElement
    <3>3. {n} \cup {m} = {n, m}
      OBVIOUS
    <3> QED
      BY <3>1, <3>2, <3>3
  <2>4. Cardinality({n, m}) <= Cardinality(S)
    BY <2>1, <2>2, FS_Subset, Zenon
  <2>5. ~(Cardinality(S) <= 1)
    BY <2>2, <2>3, <2>4
  <2> QED
    BY <2>5 DEF Fresh
<1>4. Fresh(1) = {n}
  BY <1>2, <1>3 DEF Fresh
<1> QED
  BY <1>4, FS_Singleton

LEMMA FreshUnused == \A n : Fresh(n) \subseteq Request /\ \A r \in Fresh(n) : answer[r] = "unused"
BY DEF Fresh, Unused

-----------------------------------------------------------------------------
(* Initially *)

LEMMA InitIInv == Init => IInv
<1> SUFFICES ASSUME Init PROVE IInv
  OBVIOUS
<1>1. TypeOK /\ Event!TypeOK
  BY DEF Init, TypeOK, Event!Init, Event!TypeOK
<1>2. RequestInv /\ ApiInv
  BY DEF Init, RequestInv, ApiInv, Resetting
<1>3. ASSUME NEW c \in Clients PROVE HeldInv(c)
  BY DEF Init, HeldInv, Sole, Cleared, Listens, Got, Armed, Reading, Resetting
<1>4. ASSUME NEW c \in Clients PROVE AloneInv(c)
  BY DEF Init, AloneInv, Alone, InCall, Errors, HasRead, Results, Armed, Reading
<1> QED
  BY <1>1, <1>2, <1>3, <1>4 DEF IInv

-----------------------------------------------------------------------------
(* Types *)

\* A client that begins a call.
Call(c) == \E k \in Kinds, n \in Nat \ {0} :
  SetRequestID(c, k, n) /\ (k \in {"open", "prices"} => n = 1)

LEMMA CallCases ==
  ASSUME OpenPosition \/ ChangeOrder \/ CloseAllPositions \/ \E c \in Workers : GetHistoricalPrices(c)
  PROVE  \E c \in Clients : Call(c)
<1>1. OpenPosition \/ ChangeOrder => Call(Main)
  BY DEF OpenPosition, ChangeOrder, Call, Kinds
<1>2. CloseAllPositions => Call(Main)
  BY DEF CloseAllPositions, Call, Kinds
<1>3. \A c \in Workers : GetHistoricalPrices(c) => Call(c)
  BY DEF GetHistoricalPrices, Call, Kinds
<1> QED
  BY <1>1, <1>2, <1>3 DEF Clients

LEMMA CallTypes ==
  ASSUME IInv, NEW c \in Clients, Call(c)
  PROVE  TypeOK' /\ Event!TypeOK'
<1>1. PICK k \in Kinds, n \in Nat \ {0} : SetRequestID(c, k, n)
  BY DEF Call
<1>2. TypeOK'
  BY <1>1, FreshUnused DEF IInv, TypeOK, SetRequestID, Resetting, Kinds
<1>3. Event!TypeOK'
  BY <1>1 DEF IInv, Event!TypeOK, SetRequestID, event
<1> QED
  BY <1>2, <1>3

LEMMA ClientTypes ==
  ASSUME IInv, NEW c \in Clients, ClientStep(c) \/ WaitTimesOut(c)
  PROVE  TypeOK' /\ Event!TypeOK'
<1> USE DEF IInv, TypeOK, Goto, calls, outcome, history, api, listener, event, Event!TypeOK, Resetting, Reading
<1>1. CASE ResetResponse(c)
  BY <1>1 DEF ResetResponse
<1>2. CASE ResetStatus(c)
  BY <1>2 DEF ResetStatus
<1>3. CASE ResetError(c)
  BY <1>3 DEF ResetError
<1>4. CASE ResetSignal(c)
  BY <1>4 DEF ResetSignal, Event!Reset
<1>5. CASE ResetCount(c)
  BY <1>5 DEF ResetCount
<1>6. CASE SendRequest(c)
  BY <1>6 DEF SendRequest
<1>7. CASE WaitPasses(c)
  BY <1>7 DEF WaitPasses, AfterWait, Event!WaitPasses, Event!AfterWait
<1>8. CASE WaitBlocks(c)
  BY <1>8 DEF WaitBlocks, Event!WaitBlocks
<1>9. CASE WaitWakes(c)
  BY <1>9 DEF WaitWakes, AfterWait, Event!WaitWakes, Event!AfterWait
<1>10. CASE TimeoutError(c)
  BY <1>10 DEF TimeoutError, AfterWait
<1>11. CASE ReadResponse(c)
  BY <1>11 DEF ReadResponse, RequestInv
<1>12. CASE ReadError(c)
  BY <1>12 DEF ReadError
<1>13. CASE ReadCompleted(c)
  BY <1>13 DEF ReadCompleted
<1>14. CASE WaitTimesOut(c)
  BY <1>14 DEF WaitTimesOut, Event!WaitTimesOut, Event!AfterWait
<1> QED
  BY <1>1, <1>2, <1>3, <1>4, <1>5, <1>6, <1>7, <1>8, <1>9, <1>10, <1>11, <1>12, <1>13, <1>14
     DEF ClientStep

LEMMA ApiTypes ==
  ASSUME IInv, ApiStep \/ \E r \in Request, a \in {"completed", "empty", "failed"} : Deliver(r, a)
  PROVE  TypeOK' /\ Event!TypeOK'
<1> USE DEF IInv, TypeOK, ApiGoto, ClientsUnchanged, calls, outcome, history, listener, event, Event!TypeOK,
            ApiInv
<1>1. CASE \E r \in Request, a \in {"completed", "empty", "failed"} : Deliver(r, a)
  BY <1>1 DEF Deliver, Resetting
<1>2. CASE Find
  BY <1>2 DEF Find
<1>3. CASE CountCompleted
  BY <1>3 DEF CountCompleted
<1>4. CASE StoreResponse
  BY <1>4 DEF StoreResponse
<1>5. CASE Compare
  BY <1>5 DEF Compare
<1>6. CASE Complete
  BY <1>6 DEF Complete
<1>7. CASE SignalEvent
  BY <1>7 DEF SignalEvent, Event!Signal
<1>8. CASE FindFailed
  BY <1>8 DEF FindFailed
<1>9. CASE Fail
  BY <1>9 DEF Fail
<1>10. CASE FailError
  BY <1>10 DEF FailError
<1> QED
  BY <1>1, <1>2, <1>3, <1>4, <1>5, <1>6, <1>7, <1>8, <1>9, <1>10 DEF ApiStep

-----------------------------------------------------------------------------
(* The requests and the API thread *)

LEMMA CallRequests ==
  ASSUME IInv, NEW c \in Clients, Call(c)
  PROVE  RequestInv' /\ ApiInv'
<1>1. PICK k \in Kinds, n \in Nat \ {0} : SetRequestID(c, k, n) /\ (k \in {"open", "prices"} => n = 1)
  BY DEF Call
<1> DEFINE F == Fresh(n)
<1>2. /\ F \subseteq Request /\ \A r \in F : answer[r] = "unused"
      /\ pc' = [pc EXCEPT ![c] = "reset_response"]
      /\ kind' = [kind EXCEPT ![c] = k]
      /\ call' = [call EXCEPT ![c] = F]
      /\ answer' = [r \in Request |-> IF r \in F THEN "created" ELSE answer[r]]
      /\ UNCHANGED <<apc, handled, errorEvents>>
      /\ pc[c] \in {"idle", "done"}
  BY <1>1, FreshUnused DEF SetRequestID
<1>3. k \in {"open", "prices"} => Cardinality(F) = 1
  BY <1>1, FreshOne DEF SetRequestID, IInv
<1> HIDE DEF F
<1>4. ApiInv'
  BY <1>2 DEF IInv, ApiInv, TypeOK
<1>5. RequestInv'
  <2>1. \A d \in Clients : call'[d] = IF d = c THEN F ELSE call[d]
    BY <1>2 DEF IInv, TypeOK
  <2>2. \A d \in Clients : pc'[d] = IF d = c THEN "reset_response" ELSE pc[d]
    BY <1>2 DEF IInv, TypeOK
  <2>3. \A d \in Clients : kind'[d] = IF d = c THEN k ELSE kind[d]
    BY <1>2 DEF IInv, TypeOK
  <2>4. \A r \in Request : answer'[r] = IF r \in F THEN "created" ELSE answer[r]
    BY <1>2
  <2>5. \A d \in Clients : call[d] \subseteq Request /\ call[d] \cap F = {}
    BY <1>2 DEF IInv, TypeOK, RequestInv
  <2>6. \A d \in Clients : \A r \in call'[d] : answer'[r] # "unused"
    BY <1>2, <2>1, <2>4, <2>5 DEF IInv, RequestInv
  <2>7. \A d, e \in Clients : d # e => call'[d] \cap call'[e] = {}
    BY <2>1, <2>5 DEF IInv, RequestInv
  <2>8. \A d \in Clients :
          pc'[d] \in Resetting \cup {"send"} => \A r \in call'[d] : answer'[r] = "created"
    BY <1>2, <2>1, <2>2, <2>4, <2>5 DEF IInv, RequestInv
  <2>9. \A d \in Clients :
          pc'[d] # "idle" /\ kind'[d] \in {"open", "prices"} => Cardinality(call'[d]) = 1
    BY <1>3, <2>1, <2>2, <2>3 DEF IInv, RequestInv
  <2>10. \A d \in Clients : pc'[d] = "read_response" => kind'[d] \in {"open", "prices"}
    BY <2>2, <2>3 DEF IInv, RequestInv
  <2> QED
    BY <2>6, <2>7, <2>8, <2>9, <2>10 DEF RequestInv
<1> QED
  BY <1>4, <1>5

\* A client that only moves on leaves the requests as they are.
LEMMA MoveRequests ==
  ASSUME IInv, NEW c \in Clients, NEW to,
         UNCHANGED <<calls, api>>, pc' = [pc EXCEPT ![c] = to],
         pc[c] # "idle",
         to \in Resetting \cup {"send"} => pc[c] \in Resetting,
         to = "read_response" => kind[c] \in {"open", "prices"}
  PROVE  RequestInv' /\ ApiInv'
<1>1. ApiInv'
  BY DEF IInv, ApiInv, api
<1>2. \A d \in Clients : pc'[d] = IF d = c THEN to ELSE pc[d]
  BY DEF IInv, TypeOK
<1>3. UNCHANGED <<call, kind, answer>>
  BY DEF calls, api
<1>4. RequestInv'
  BY <1>2, <1>3 DEF IInv, RequestInv
<1> QED
  BY <1>1, <1>4

LEMMA ClientRequests ==
  ASSUME IInv, NEW c \in Clients, ClientStep(c) \/ WaitTimesOut(c)
  PROVE  RequestInv' /\ ApiInv'
<1> DEFINE Move(to) ==
      /\ UNCHANGED <<calls, api>> /\ pc' = [pc EXCEPT ![c] = to] /\ pc[c] # "idle"
      /\ to \in Resetting \cup {"send"} => pc[c] \in Resetting
      /\ to = "read_response" => kind[c] \in {"open", "prices"}
<1>1. CASE SendRequest(c)
  <2>1. ApiInv'
    BY <1>1 DEF SendRequest, Goto, IInv, ApiInv, RequestInv, TypeOK
  <2>2. \A d \in Clients : pc'[d] = IF d = c THEN "wait" ELSE pc[d]
    BY <1>1 DEF SendRequest, Goto, IInv, TypeOK
  <2>3. UNCHANGED <<call, kind>>
    BY <1>1 DEF SendRequest, calls
  <2>4. \A r \in Request : answer'[r] = IF r \in call[c] THEN "sent" ELSE answer[r]
    BY <1>1 DEF SendRequest
  <2>5. \A d \in Clients : call[d] \subseteq Request
    BY DEF IInv, TypeOK
  <2>6. RequestInv'
    <3> HIDE DEF Move
    <3>1. \A d \in Clients : \A r \in call[d] : answer'[r] # "unused"
      BY <2>4, <2>5 DEF IInv, RequestInv
    <3>2. \A d \in Clients : pc'[d] \in Resetting \cup {"send"} => \A r \in call[d] : answer'[r] = "created"
      BY <2>2, <2>4, <2>5 DEF IInv, RequestInv, Resetting
    <3>3. \A d \in Clients :
            pc'[d] # "idle" /\ kind[d] \in {"open", "prices"} => Cardinality(call[d]) = 1
      BY <1>1, <2>2 DEF IInv, RequestInv, SendRequest, Goto
    <3>4. \A d \in Clients : pc'[d] = "read_response" => kind[d] \in {"open", "prices"}
      BY <2>2 DEF IInv, RequestInv
    <3>5. \A d, e \in Clients : d # e => call[d] \cap call[e] = {}
      BY DEF IInv, RequestInv
    <3> QED
      BY <2>3, <3>1, <3>2, <3>3, <3>4, <3>5 DEF RequestInv
  <2> QED
    BY <2>1, <2>6
<1>2. CASE ~SendRequest(c)
  <2>1. \E to : Move(to)
    <3>1. CASE ResetResponse(c) \/ ResetStatus(c) \/ ResetError(c) \/ ResetSignal(c) \/ ResetCount(c)
      BY <3>1 DEF ResetResponse, ResetStatus, ResetError, ResetSignal, ResetCount, Goto, Resetting
    <3>2. CASE WaitPasses(c) \/ WaitBlocks(c) \/ WaitWakes(c) \/ WaitTimesOut(c) \/ TimeoutError(c)
      <4>1. AfterWait(c) \in Reading /\ (AfterWait(c) = "read_response" => kind[c] \in {"open", "prices"})
        BY DEF AfterWait, Reading
      <4>2. \E to \in {"blocked", "timed_out", "read_error", AfterWait(c)} : 
              /\ pc' = [pc EXCEPT ![c] = to] 
              /\ pc[c] \in {"wait", "blocked", "timed_out"}
              /\ UNCHANGED <<calls, api>>
        BY <3>2 DEF WaitPasses, WaitBlocks, WaitWakes, WaitTimesOut, TimeoutError, Goto
      <4> QED
        BY <4>1, <4>2 DEF Resetting, Reading
    <3>3. CASE ReadResponse(c) \/ ReadError(c) \/ ReadCompleted(c)
      BY <3>3 DEF ReadResponse, ReadError, ReadCompleted, Goto, Resetting
    <3> QED
      BY <1>2, <3>1, <3>2, <3>3 DEF ClientStep
  <2>2. PICK to : Move(to)
    BY <2>1
  <2> QED
    BY <2>2, MoveRequests
<1> QED
  BY <1>1, <1>2

LEMMA ApiRequests ==
  ASSUME IInv, ApiStep \/ \E r \in Request, a \in {"completed", "empty", "failed"} : Deliver(r, a)
  PROVE  RequestInv' /\ ApiInv'
<1>1. CASE ApiStep
  <2>1. UNCHANGED <<pc, call, kind, answer, handled>>
    BY <1>1 DEF ApiStep, Find, CountCompleted, StoreResponse, Compare, Complete, SignalEvent,
                FindFailed, Fail, FailError, ClientsUnchanged, calls
  <2>2. RequestInv'
    BY <2>1 DEF IInv, RequestInv
  <2>3. ApiInv'
    BY <1>1, <2>1 DEF IInv, ApiInv, ApiStep, Find, CountCompleted, StoreResponse, Compare, Complete,
                      SignalEvent, FindFailed, Fail, FailError, ApiGoto
  <2> QED
    BY <2>2, <2>3
<1>2. CASE \E r \in Request, a \in {"completed", "empty", "failed"} : Deliver(r, a)
  <2>1. PICK r \in Request, a \in {"completed", "empty", "failed"} : Deliver(r, a)
    BY <1>2
  <2>2. UNCHANGED <<pc, call, kind>> /\ answer' = [answer EXCEPT ![r] = a] /\ answer[r] = "sent"
        /\ handled' = r /\ apc' = (IF a = "failed" THEN "find_failed" ELSE "find")
        /\ errorEvents' = errorEvents
    BY <2>1 DEF Deliver, ApiGoto, calls
  <2>3. \A s \in Request : answer'[s] = IF s = r THEN a ELSE answer[s]
    BY <2>2 DEF IInv, TypeOK
  <2>4. ApiInv'
    BY <2>2, <2>3 DEF IInv, ApiInv, TypeOK
  <2>5. \A d \in Clients : call[d] \subseteq Request
    BY DEF IInv, TypeOK
  <2>6. RequestInv'
    BY <2>2, <2>3, <2>5 DEF IInv, RequestInv
  <2> QED
    BY <2>4, <2>6
<1> QED
  BY <1>1, <1>2

-----------------------------------------------------------------------------
(* A step of another client *)

ClientMoves(d) == Call(d) \/ ClientStep(d) \/ WaitTimesOut(d)

\* What a step of a client leaves of another one.
LEMMA OthersKept ==
  ASSUME IInv, NEW c \in Clients, NEW d \in Clients, c # d, ClientMoves(d)
  PROVE  /\ pc'[c] = pc[c] /\ call'[c] = call[c] /\ kind'[c] = kind[c] /\ gotResponse'[c] = gotResponse[c]
         /\ gotError'[c] = gotError[c] /\ completed'[c] = completed[c] /\ timedOut'[c] = timedOut[c]
         /\ errorEvents' = errorEvents
         /\ \A r \in Request : answer[r] \in {"completed", "failed"} => answer'[r] = answer[r]
<1>1. CASE Call(d)
  <2>1. PICK k \in Kinds, n \in Nat \ {0} : SetRequestID(d, k, n)
    BY <1>1 DEF Call
  <2> QED
    BY <2>1, FreshUnused DEF SetRequestID, IInv, TypeOK
<1>2. CASE SendRequest(d)
  <2>1. \A r \in call[d] : answer[r] = "created"
    BY <1>2 DEF SendRequest, Goto, IInv, RequestInv
  <2>2. \A r \in Request : answer'[r] = IF r \in call[d] THEN "sent" ELSE answer[r]
    BY <1>2 DEF SendRequest
  <2>3. pc'[c] = pc[c] /\ UNCHANGED <<calls, outcome, errorEvents>>
    BY <1>2 DEF SendRequest, Goto, IInv, TypeOK
  <2> QED
    BY <2>1, <2>2, <2>3 DEF calls, outcome
<1>3. CASE (ClientStep(d) /\ ~SendRequest(d)) \/ WaitTimesOut(d)
  <2> USE DEF Goto, IInv, TypeOK, calls, outcome, api
  <2>1. CASE ResetResponse(d) \/ ResetStatus(d) \/ ResetError(d) \/ ResetSignal(d) \/ ResetCount(d)
    BY <2>1 DEF ResetResponse, ResetStatus, ResetError, ResetSignal, ResetCount
  <2>2. CASE WaitPasses(d) \/ WaitBlocks(d) \/ WaitWakes(d) \/ WaitTimesOut(d) \/ TimeoutError(d)
    BY <2>2 DEF WaitPasses, WaitBlocks, WaitWakes, WaitTimesOut, TimeoutError
  <2>3. CASE ReadResponse(d) \/ ReadError(d) \/ ReadCompleted(d)
    BY <2>3 DEF ReadResponse, ReadError, ReadCompleted
  <2> QED
    BY <1>3, <2>1, <2>2, <2>3 DEF ClientStep
<1> QED
  BY <1>1, <1>2, <1>3 DEF ClientMoves

\* A client in a step of a call is in the call.
LEMMA Busy ==
  ASSUME NEW c \in Clients, ClientStep(c) \/ WaitTimesOut(c)
  PROVE  InCall(c) /\ UNCHANGED <<disturbed, crossed, call, kind, m_RequestIDs, apc, handled, errorEvents>>
<1> USE DEF Goto, InCall, history, listener, calls, api
<1>1. CASE ResetResponse(c) \/ ResetStatus(c) \/ ResetError(c) \/ ResetSignal(c) \/ ResetCount(c)
  BY <1>1 DEF ResetResponse, ResetStatus, ResetError, ResetSignal, ResetCount
<1>2. CASE WaitPasses(c) \/ WaitBlocks(c) \/ WaitWakes(c) \/ WaitTimesOut(c) \/ TimeoutError(c)
  BY <1>2 DEF WaitPasses, WaitBlocks, WaitWakes, WaitTimesOut, TimeoutError
<1>3. CASE ReadResponse(c) \/ ReadError(c) \/ ReadCompleted(c) \/ SendRequest(c)
  BY <1>3 DEF ReadResponse, ReadError, ReadCompleted, SendRequest
<1> QED
  BY <1>1, <1>2, <1>3 DEF ClientStep

\* A call that begins takes the listener from every other one.
LEMMA HeldOtherCall ==
  ASSUME IInv, NEW c \in Clients, NEW d \in Clients, c # d, Call(d)
  PROVE  HeldInv(c)'
<1>1. PICK k \in Kinds, n \in Nat \ {0} : SetRequestID(d, k, n)
  BY DEF Call
<1>2. PICK r \in Fresh(n) : r \in Unused
  BY <1>1, LeastFresh DEF SetRequestID, IInv
<1>3. r \notin call[c]
  BY <1>2 DEF Unused, IInv, RequestInv
<1>4. m_RequestIDs' = Fresh(n) /\ call'[c] = call[c]
  BY <1>1 DEF SetRequestID, IInv, TypeOK
<1>5. ~Held(c)'
  BY <1>2, <1>3, <1>4 DEF Held
<1> QED
  BY <1>5 DEF HeldInv

\* What a client that does not reset the listener leaves of it.
LEMMA ListenerKept ==
  ASSUME IInv, NEW c \in Clients, NEW d \in Clients, c # d, pc[d] \notin Resetting,
         ClientStep(d) \/ WaitTimesOut(d)
  PROVE  /\ UNCHANGED <<m_Status, m_CompletedCount, m_Response, m_Count>>
         /\ count'[c] = count[c]
         /\ m_Signaled' => m_Signaled
         /\ pc'[d] \notin Resetting
         /\ \A r \in call[c] : answer'[r] = answer[r]
<1> USE DEF Goto, IInv, TypeOK, Event!TypeOK, AfterWait, listener, event, api, Resetting
<1>1. CASE SendRequest(d)
  <2>1. call[c] \subseteq Request /\ call[c] \cap call[d] = {}
    BY DEF RequestInv
  <2> QED
    BY <1>1, <2>1 DEF SendRequest
<1>2. CASE WaitPasses(d)
  BY <1>2 DEF WaitPasses, Event!WaitPasses, Event!AfterWait
<1>3. CASE WaitBlocks(d)
  BY <1>3 DEF WaitBlocks, Event!WaitBlocks
<1>4. CASE WaitWakes(d) \/ WaitTimesOut(d)
  BY <1>4 DEF WaitWakes, WaitTimesOut, Event!WaitWakes, Event!WaitTimesOut, Event!AfterWait
<1>5. CASE TimeoutError(d)
  BY <1>5 DEF TimeoutError
<1>6. CASE ReadResponse(d) \/ ReadError(d) \/ ReadCompleted(d)
  BY <1>6 DEF ReadResponse, ReadError, ReadCompleted
<1>7. ~(ResetResponse(d) \/ ResetStatus(d) \/ ResetError(d) \/ ResetSignal(d) \/ ResetCount(d))
  BY DEF ResetResponse, ResetStatus, ResetError, ResetSignal, ResetCount
<1> QED
  BY <1>1, <1>2, <1>3, <1>4, <1>5, <1>6, <1>7 DEF ClientStep

\* A client that waits, times out or reads does not disturb the one that took over.
LEMMA HeldOtherStep ==
  ASSUME IInv, NEW c \in Clients, NEW d \in Clients, c # d, ClientStep(d) \/ WaitTimesOut(d)
  PROVE  HeldInv(c)'
<1>1. UNCHANGED <<crossed, m_RequestIDs, apc, handled, errorEvents>>
      /\ pc'[c] = pc[c] /\ call'[c] = call[c] /\ kind'[c] = kind[c] /\ timedOut'[c] = timedOut[c]
      /\ gotResponse'[c] = gotResponse[c] /\ completed'[c] = completed[c]
  BY Busy, OthersKept DEF ClientMoves
<1> SUFFICES ASSUME Held(c)' PROVE Sole(c)' /\ Cleared(c)' /\ Listens(c)' /\ Got(c)'
  BY DEF HeldInv
<1>2. Sole(c) /\ Cleared(c) /\ Listens(c) /\ Got(c)
  BY <1>1 DEF IInv, HeldInv, Held
<1>3. /\ UNCHANGED <<m_Status, m_CompletedCount, m_Response, m_Count>>
      /\ count'[c] = count[c]
      /\ m_Signaled' => m_Signaled
      /\ pc'[d] \notin Resetting
      /\ \A r \in call[c] : answer'[r] = answer[r]
  BY <1>2, ListenerKept DEF Sole
<1>4. Sole(c)'
  <2>1. \A e \in Clients \ {d} : pc'[e] = pc[e]
    BY OthersKept DEF ClientMoves
  <2> QED
    BY <1>2, <1>3, <2>1 DEF Sole
<1>5. Cleared(c)'
  BY <1>1, <1>2, <1>3 DEF Cleared
<1>6. Counted(c)' = Counted(c) /\ Refused(c)' = Refused(c)
  BY <1>1, <1>3 DEF Counted, Refused
<1>7. Listens(c)'
  BY <1>1, <1>2, <1>3, <1>6 DEF Listens, Counts, Responses, Wakes, Ended
<1>8. Got(c)'
  BY <1>1, <1>2, <1>3, <1>6 DEF Got
<1> QED
  BY <1>4, <1>5, <1>7, <1>8

\* A client is never disturbed by another one without being marked as such.
LEMMA AloneOther ==
  ASSUME IInv, NEW c \in Clients, NEW d \in Clients, c # d, ClientMoves(d)
  PROVE  AloneInv(c)'
<1> SUFFICES ASSUME ~disturbed'[c] PROVE Alone(c)' /\ Errors(c)' /\ HasRead(c)' /\ Results(c)'
  BY DEF AloneInv, Undisturbed
<1>1. ~disturbed[c] /\ ~InCall(c) /\ crossed'[c] = crossed[c]
  <2>1. CASE Call(d)
    <3>1. PICK k \in Kinds, n \in Nat \ {0} : SetRequestID(d, k, n)
      BY <2>1 DEF Call
    <3>2. disturbed'[c] = (disturbed[c] \/ InCall(c)) /\ crossed'[c] = crossed[c]
      BY <3>1 DEF SetRequestID, IInv, TypeOK
    <3> QED
      BY <3>2
  <2>2. CASE ClientStep(d) \/ WaitTimesOut(d)
    <3>1. InCall(d) /\ UNCHANGED <<disturbed, crossed>>
      BY <2>2, Busy
    <3>2. Alone(c)
      BY <3>1 DEF IInv, AloneInv, Undisturbed
    <3> QED
      BY <3>1, <3>2 DEF Alone
  <2> QED
    BY <2>1, <2>2 DEF ClientMoves
<1>2. Alone(c) /\ Results(c)
  BY <1>1 DEF IInv, AloneInv, Undisturbed
<1>3. pc'[c] = pc[c] /\ pc[c] \in {"idle", "done"}
  BY <1>1, OthersKept DEF InCall
<1>4. Alone(c)' /\ Errors(c)' /\ HasRead(c)'
  BY <1>1, <1>2, <1>3 DEF Alone, InCall, Errors, HasRead, Armed, Reading
<1>5. Results(c)'
  <2>1. call[c] \subseteq Request
    BY DEF IInv, TypeOK
  <2>2. Refused(c) \subseteq Refused(c)'
    BY <2>1, OthersKept DEF Refused
  <2> QED
    BY <1>2, <1>3, <2>1, <2>2, OthersKept DEF Results
<1> QED
  BY <1>4, <1>5

-----------------------------------------------------------------------------
(* A step of the client itself *)

LEMMA OwnCall ==
  ASSUME IInv, NEW c \in Clients, Call(c)
  PROVE  HeldInv(c)' /\ AloneInv(c)'
<1>1. PICK k \in Kinds, n \in Nat \ {0} : SetRequestID(c, k, n)
  BY DEF Call
<1> DEFINE F == Fresh(n)
<1>2. /\ pc' = [pc EXCEPT ![c] = "reset_response"]
      /\ call' = [call EXCEPT ![c] = F] /\ m_RequestIDs' = F
      /\ timedOut' = [timedOut EXCEPT ![c] = FALSE]
      /\ completed' = [completed EXCEPT ![c] = FALSE]
      /\ disturbed'[c] = (apc # "idle" \/ \E o \in Clients \ {c} : InCall(o))
      /\ crossed'[c] = (apc # "idle" \/ \E o \in Clients : pc[o] \in Resetting)
      /\ apc' = apc
      /\ pc[c] \in {"idle", "done"}
  BY <1>1 DEF SetRequestID, IInv, TypeOK
<1> HIDE DEF F
<1>3. pc'[c] = "reset_response" /\ call'[c] = F /\ ~timedOut'[c] /\ ~completed'[c]
      /\ \A d \in Clients \ {c} : pc'[d] = pc[d]
  BY <1>2 DEF IInv, TypeOK
<1>4. HeldInv(c)'
  <2> SUFFICES ASSUME ~crossed'[c] PROVE Sole(c)' /\ Cleared(c)' /\ Listens(c)' /\ Got(c)'
    BY DEF HeldInv, Held
  <2>1. Sole(c)' /\ Cleared(c)'
    BY <1>2, <1>3 DEF Sole, Cleared
  <2>2. Listens(c)' /\ Got(c)'
    BY <1>3 DEF Listens, Got, Armed, Reading
  <2> QED
    BY <2>1, <2>2
<1>5. AloneInv(c)'
  <2> SUFFICES ASSUME ~disturbed'[c] PROVE Alone(c)' /\ Errors(c)' /\ HasRead(c)' /\ Results(c)'
    BY DEF AloneInv, Undisturbed
  <2>1. Alone(c)'
    BY <1>2, <1>3 DEF Alone, InCall, Resetting
  <2>2. Errors(c)' /\ HasRead(c)' /\ Results(c)'
    BY <1>3 DEF Errors, Armed, Reading, HasRead, Results
  <2> QED
    BY <2>1, <2>2
<1> QED
  BY <1>4, <1>5

\* The steps of the client leave the others where they are.
LEMMA OwnSole ==
  ASSUME IInv, NEW c \in Clients, ClientStep(c) \/ WaitTimesOut(c)
  PROVE  /\ Held(c)' => Held(c) /\ Sole(c)' /\ Sole(c) /\ Cleared(c) /\ Listens(c) /\ Got(c)
         /\ ~disturbed'[c] => /\ ~disturbed[c] /\ Held(c) /\ Alone(c)' /\ Alone(c)
                              /\ Errors(c) /\ HasRead(c)
<1>1. InCall(c) /\ UNCHANGED <<disturbed, crossed, call, m_RequestIDs>>
  BY Busy
<1>2. \A d \in Clients : d # c => pc'[d] = pc[d]
  BY OthersKept DEF ClientMoves
<1>3. ASSUME Held(c)' PROVE Held(c) /\ Sole(c)' /\ Sole(c) /\ Cleared(c) /\ Listens(c) /\ Got(c)
  <2>1. Held(c)
    BY <1>1, <1>3 DEF Held
  <2>2. Sole(c) /\ Cleared(c) /\ Listens(c) /\ Got(c)
    BY <2>1 DEF IInv, HeldInv
  <2> QED
    BY <1>2, <2>1, <2>2 DEF Sole
<1>4. ASSUME ~disturbed'[c]
      PROVE  ~disturbed[c] /\ Held(c) /\ Alone(c)' /\ Alone(c) /\ Errors(c) /\ HasRead(c)
  <2>1. ~disturbed[c] /\ Alone(c) /\ Errors(c) /\ HasRead(c)
    BY <1>1, <1>4 DEF IInv, AloneInv, Undisturbed
  <2> QED
    BY <1>1, <1>2, <2>1 DEF Alone, InCall, Held
<1> QED
  BY <1>3, <1>4

\* reset(), member by member.
LEMMA OwnReset ==
  ASSUME IInv, NEW c \in Clients,
         ResetResponse(c) \/ ResetStatus(c) \/ ResetError(c) \/ ResetSignal(c)
  PROVE  HeldInv(c)' /\ AloneInv(c)'
<1>1. ClientStep(c)
  BY DEF ClientStep
<1>2. UNCHANGED <<calls, outcome, api>>
  BY DEF ResetResponse, ResetStatus, ResetError, ResetSignal
<1>3. pc[c] \in Resetting /\ pc'[c] \in Resetting \ {"reset_response"}
  BY DEF ResetResponse, ResetStatus, ResetError, ResetSignal, Goto, Resetting, IInv, TypeOK
<1>4. ASSUME Held(c)' PROVE Sole(c)' /\ Cleared(c)' /\ Listens(c)' /\ Got(c)'
  <2>1. Sole(c)' /\ Cleared(c) /\ Got(c)
    BY <1>1, <1>4, OwnSole
  <2>2. Cleared(c)'
    <3> USE <1>2, <1>3, <2>1 DEF Goto, Cleared, IInv, TypeOK, api, outcome
    <3>1. CASE ResetResponse(c)
      BY <3>1 DEF ResetResponse
    <3>2. CASE ResetStatus(c)
      BY <3>2 DEF ResetStatus, Resetting
    <3>3. CASE ResetError(c)
      BY <3>3 DEF ResetError, Resetting
    <3>4. CASE ResetSignal(c)
      BY <3>4 DEF ResetSignal, Event!Reset, Resetting, listener
    <3> QED
      BY <3>1, <3>2, <3>3, <3>4
  <2>3. Listens(c)' /\ Got(c)'
    BY <1>2, <1>3, <2>1 DEF Listens, Armed, Reading, Resetting, Got, outcome
  <2> QED
    BY <2>1, <2>2, <2>3
<1>5. ASSUME ~disturbed'[c] PROVE Alone(c)' /\ Errors(c)' /\ HasRead(c)' /\ Results(c)'
  <2>1. Alone(c)' /\ Errors(c)
    BY <1>1, <1>5, OwnSole
  <2>2. pc'[c] \in {"reset_event", "reset_count"} => m_Error' = None
    <3>1. CASE ResetResponse(c) \/ ResetStatus(c)
      BY <3>1 DEF ResetResponse, ResetStatus, Goto, IInv, TypeOK
    <3>2. CASE ResetError(c)
      BY <3>2 DEF ResetError
    <3>3. CASE ResetSignal(c)
      BY <2>1, <3>3 DEF ResetSignal, Goto, Errors, listener
    <3> QED
      BY <3>1, <3>2, <3>3
  <2>3. Errors(c)' /\ HasRead(c)' /\ Results(c)'
    BY <1>3, <2>2 DEF Errors, HasRead, Results, Armed, Reading, Resetting
  <2> QED
    BY <2>1, <2>3
<1> QED
  BY <1>4, <1>5 DEF HeldInv, AloneInv, Undisturbed

\* reset() is done: nothing is counted yet.
LEMMA OwnResetCount ==
  ASSUME IInv, NEW c \in Clients, ResetCount(c)
  PROVE  HeldInv(c)' /\ AloneInv(c)'
<1>1. ClientStep(c)
  BY DEF ClientStep
<1>2. pc[c] = "reset_count" /\ pc'[c] = "send"
  BY DEF ResetCount, Goto, IInv, TypeOK
<1>3. UNCHANGED <<m_Status, m_Error, m_Response, event, calls, outcome, api>> /\ m_CompletedCount' = 0
  BY DEF ResetCount
<1>4. Counted(c)' = {} /\ Refused(c)' = {}
  <2>1. \A r \in call[c] : answer[r] = "created"
    BY <1>2 DEF IInv, RequestInv, Resetting
  <2> QED
    BY <1>3, <2>1 DEF Counted, Refused, calls, api
<1>5. ASSUME Held(c)' PROVE Sole(c)' /\ Cleared(c)' /\ Listens(c)' /\ Got(c)'
  <2>1. Sole(c)' /\ Cleared(c) /\ Got(c)
    BY <1>1, <1>5, OwnSole
  <2>2. apc = "idle" /\ m_Response = None /\ m_Status = "UNAVAILABLE" /\ ~m_Signaled /\ ~timedOut[c]
    BY <1>2, <2>1 DEF Cleared, Resetting
  <2>3. Counts(c)'
    BY <1>3, <1>4, <2>2, FS_EmptySet DEF Counts, api
  <2>4. Responses(c)'
    BY <1>3, <1>4, <2>2 DEF Responses, api
  <2>5. Wakes(c)'
    BY <1>2, <1>3, <2>2 DEF Wakes, Reading, api, event, outcome
  <2>6. Cleared(c)' /\ Got(c)'
    BY <1>2, <1>3, <2>1 DEF Cleared, Resetting, Got, outcome
  <2> QED
    BY <2>1, <2>3, <2>4, <2>5, <2>6 DEF Listens
<1>6. ASSUME ~disturbed'[c] PROVE Alone(c)' /\ Errors(c)' /\ HasRead(c)' /\ Results(c)'
  <2>1. Alone(c)' /\ Errors(c)
    BY <1>1, <1>6, OwnSole
  <2>2. m_Error' = None
    BY <1>2, <1>3, <2>1 DEF Errors
  <2> QED
    BY <1>2, <1>4, <2>1, <2>2 DEF Errors, HasRead, Results
<1> QED
  BY <1>5, <1>6 DEF HeldInv, AloneInv, Undisturbed

LEMMA OwnSend ==
  ASSUME IInv, NEW c \in Clients, SendRequest(c)
  PROVE  HeldInv(c)' /\ AloneInv(c)'
<1>1. ClientStep(c)
  BY DEF ClientStep
<1>2. pc[c] = "send" /\ pc'[c] = "wait"
  BY DEF SendRequest, Goto, IInv, TypeOK
<1>3. UNCHANGED <<listener, event, calls, outcome, apc, handled, errorEvents>>
  BY DEF SendRequest
<1>4. call[c] \subseteq Request /\ \A r \in call[c] : answer[r] = "created" /\ answer'[r] = "sent"
  BY <1>2 DEF SendRequest, IInv, RequestInv, TypeOK
<1>5. Counted(c)' = Counted(c) /\ Refused(c)' = Refused(c)
  BY <1>3, <1>4 DEF Counted, Refused, calls
<1>6. ASSUME Held(c)' PROVE Sole(c)' /\ Cleared(c)' /\ Listens(c)' /\ Got(c)'
  <2>1. Sole(c)' /\ Listens(c) /\ Got(c)
    BY <1>1, <1>6, OwnSole
  <2>2. Counts(c) /\ Responses(c) /\ Wakes(c)
    BY <1>2, <2>1 DEF Listens, Armed
  <2>3. Counts(c)' /\ Responses(c)'
    BY <1>3, <1>5, <2>2 DEF Counts, Responses, listener, calls
  <2>4. Wakes(c)'
    BY <1>2, <1>3, <1>5, <2>2 DEF Wakes, Ended, Reading, listener, event, outcome
  <2>5. Cleared(c)' /\ Got(c)'
    BY <1>2, <1>3, <2>1 DEF Cleared, Resetting, Got, outcome
  <2> QED
    BY <2>1, <2>3, <2>4, <2>5 DEF Listens
<1>7. ASSUME ~disturbed'[c] PROVE Alone(c)' /\ Errors(c)' /\ HasRead(c)' /\ Results(c)'
  <2>1. Alone(c)' /\ Errors(c)
    BY <1>1, <1>7, OwnSole
  <2>2. Errors(c)'
    BY <1>2, <1>3, <1>5, <2>1 DEF Errors, Armed, listener, outcome
  <2> QED
    BY <1>2, <2>1, <2>2 DEF HasRead, Results
<1> QED
  BY <1>6, <1>7 DEF HeldInv, AloneInv, Undisturbed

\* Waiting leaves the listener as it is, but for the event.
LEMMA OwnWait ==
  ASSUME IInv, NEW c \in Clients,
         WaitPasses(c) \/ WaitBlocks(c) \/ WaitWakes(c) \/ WaitTimesOut(c)
  PROVE  HeldInv(c)' /\ AloneInv(c)'
<1>1. ClientStep(c) \/ WaitTimesOut(c)
  BY DEF ClientStep
<1>2. pc[c] \in {"wait", "blocked"} /\ pc'[c] \in {"blocked", "timed_out", "read_response", "read_error"}
      /\ (pc'[c] = "read_error" => kind[c] # "open")
  BY DEF WaitPasses, WaitBlocks, WaitWakes, WaitTimesOut, Goto, AfterWait, IInv, TypeOK
<1>3. UNCHANGED <<listener, calls, gotResponse, gotError, completed, api>>
  BY DEF WaitPasses, WaitBlocks, WaitWakes, WaitTimesOut, outcome
<1>4. Counted(c)' = Counted(c) /\ Refused(c)' = Refused(c) /\ Ended(c)' = Ended(c)
  BY <1>3 DEF Counted, Refused, Ended, calls, api, listener
<1>5. ASSUME Held(c)' PROVE Sole(c)' /\ Cleared(c)' /\ Listens(c)' /\ Got(c)'
  <2>1. Sole(c)' /\ Listens(c) /\ Got(c)
    BY <1>1, <1>5, OwnSole
  <2>2. Counts(c) /\ Responses(c) /\ Wakes(c)
    BY <1>2, <2>1 DEF Listens, Armed
  <2>3. Counts(c)' /\ Responses(c)'
    BY <1>3, <1>4, <2>2 DEF Counts, Responses, listener, calls, api
  <2>4. Wakes(c)'
    <3>1. CASE WaitPasses(c)
      <4>1. pc[c] = "wait" /\ pc'[c] \in Reading /\ m_Signaled /\ timedOut' = timedOut
        BY <3>1 DEF WaitPasses, Goto, AfterWait, Reading, Event!WaitPasses, outcome, IInv, TypeOK
      <4> QED
        BY <1>3, <1>4, <2>2, <4>1 DEF Wakes, Reading, api
    <3>2. CASE WaitBlocks(c)
      <4>1. pc[c] = "wait" /\ pc'[c] = "blocked" /\ timedOut' = timedOut /\ count'[c] = m_Count
            /\ UNCHANGED <<m_Signaled, m_Count>>
        BY <3>2 DEF WaitBlocks, Goto, Event!WaitBlocks, outcome, IInv, TypeOK, Event!TypeOK
      <4> QED
        BY <1>3, <1>4, <2>2, <4>1 DEF Wakes, Reading, api
    <3>3. CASE WaitWakes(c)
      <4>1. pc[c] = "blocked" /\ pc'[c] \in Reading /\ timedOut' = timedOut
            /\ (m_Signaled \/ m_Count # count[c])
        BY <3>3 DEF WaitWakes, Goto, AfterWait, Reading, Event!WaitWakes, Event!Released, outcome,
                    IInv, TypeOK
      <4> QED
        BY <1>3, <1>4, <2>2, <4>1 DEF Wakes, Reading, api
    <3>4. CASE WaitTimesOut(c)
      <4>1. pc'[c] = "timed_out" /\ timedOut'[c]
        BY <3>4 DEF WaitTimesOut, Goto, IInv, TypeOK
      <4> QED
        BY <1>3, <1>4, <2>2, <4>1 DEF Wakes, Reading, api
    <3> QED
      BY <3>1, <3>2, <3>3, <3>4
  <2>5. Cleared(c)' /\ Got(c)'
    BY <1>2, <1>3, <2>1 DEF Cleared, Resetting, Got, calls
  <2> QED
    BY <2>1, <2>3, <2>4, <2>5 DEF Listens
<1>6. ASSUME ~disturbed'[c] PROVE Alone(c)' /\ Errors(c)' /\ HasRead(c)' /\ Results(c)'
  <2>1. Alone(c)' /\ Errors(c) /\ Held(c)
    BY <1>1, <1>6, OwnSole
  <2>2. ~timedOut[c]
    BY <1>2, <2>1 DEF IInv, HeldInv, Listens, Armed, Wakes
  <2>3. Errors(c)'
    BY <1>2, <1>3, <1>4, <2>1, <2>2 DEF Errors, Armed, listener
  <2> QED
    BY <1>2, <2>1, <2>3 DEF HasRead, Results
<1> QED
  BY <1>5, <1>6 DEF HeldInv, AloneInv, Undisturbed

\* The error of a time-out replaces that of the call.
LEMMA OwnTimeout ==
  ASSUME IInv, NEW c \in Clients, TimeoutError(c)
  PROVE  HeldInv(c)' /\ AloneInv(c)'
<1>1. ClientStep(c)
  BY DEF ClientStep
<1>2. pc[c] = "timed_out" /\ pc'[c] \in {"read_response", "read_error"}
  BY DEF TimeoutError, Goto, AfterWait, IInv, TypeOK
<1>3. UNCHANGED <<m_Status, m_CompletedCount, m_Response, event, calls, outcome, api>> /\ m_Error' = Timeout
  BY DEF TimeoutError
<1>4. Counted(c)' = Counted(c)
  BY <1>3 DEF Counted, calls, api
<1>5. ASSUME Held(c) PROVE Counts(c) /\ Responses(c) /\ timedOut[c]
  BY <1>2, <1>5 DEF IInv, HeldInv, Listens, Armed, Wakes
<1>6. ASSUME Held(c)' PROVE Sole(c)' /\ Cleared(c)' /\ Listens(c)' /\ Got(c)'
  <2>1. Sole(c)' /\ Held(c) /\ Got(c)
    BY <1>1, <1>6, OwnSole
  <2>2. Counts(c)' /\ Responses(c)'
    BY <1>3, <1>4, <1>5, <2>1 DEF Counts, Responses, calls, api
  <2>3. apc # "signal" \/ Ended(c)
    BY <1>2, <2>1 DEF IInv, HeldInv, Listens, Armed, Wakes
  <2>4. Ended(c)' = Ended(c)
    BY <1>3 DEF Ended, Refused, calls, api
  <2>5. Wakes(c)'
    BY <1>2, <1>3, <1>5, <2>1, <2>3, <2>4 DEF Wakes, api, outcome
  <2>6. Cleared(c)' /\ Got(c)'
    BY <1>2, <1>3, <1>5, <2>1 DEF Cleared, Resetting, Got, outcome
  <2> QED
    BY <2>1, <2>2, <2>5, <2>6 DEF Listens
<1>7. ASSUME ~disturbed'[c] PROVE Alone(c)' /\ Errors(c)' /\ HasRead(c)' /\ Results(c)'
  <2>1. Alone(c)' /\ Held(c)
    BY <1>1, <1>7, OwnSole
  <2>2. Errors(c)'
    BY <1>2, <1>3, <1>5, <2>1 DEF Errors, outcome
  <2> QED
    BY <1>2, <2>1, <2>2 DEF HasRead, Results
<1> QED
  BY <1>6, <1>7 DEF HeldInv, AloneInv, Undisturbed

\* A completed call was not refused.
LEMMA CompletedCall ==
  ASSUME NEW c \in Clients, Counts(c), m_Status = "COMPLETED"
  PROVE  Refused(c) = {} /\ \A r \in call[c] : answer[r] = "completed"
BY DEF Counts, Counted, Refused

\* The response of a completed order or price request is there, and is its own.
LEMMA CompletedResponse ==
  ASSUME IInv, NEW c \in Clients, Held(c), pc[c] = "read_response", m_Status = "COMPLETED"
  PROVE  m_Response \in call[c]
<1>1. Counts(c) /\ Responses(c)
  BY DEF IInv, HeldInv, Listens, Armed, Reading
<1>2. Cardinality(call[c]) = 1
  BY DEF IInv, RequestInv
<1>3. call[c] # {}
  BY <1>2, FS_EmptySet
<1> QED
  BY <1>1, <1>2, <1>3 DEF Counts, Responses

LEMMA OwnRead ==
  ASSUME IInv, NEW c \in Clients, ReadResponse(c) \/ ReadError(c) \/ ReadCompleted(c)
  PROVE  HeldInv(c)' /\ AloneInv(c)'
<1>1. ClientStep(c)
  BY DEF ClientStep
<1>2. pc[c] \in Reading /\ pc'[c] \in {"read_error", "read_completed", "done"}
  BY DEF ReadResponse, ReadError, ReadCompleted, Goto, Reading, IInv, TypeOK
<1>3. UNCHANGED <<listener, event, calls, timedOut, api>>
  BY DEF ReadResponse, ReadError, ReadCompleted
<1>4. Counted(c)' = Counted(c) /\ Refused(c)' = Refused(c) /\ Ended(c)' = Ended(c)
  BY <1>3 DEF Counted, Refused, Ended, calls, api, listener
<1>5. ASSUME Held(c) PROVE Counts(c) /\ Responses(c) /\ Wakes(c)
  BY <1>2, <1>5 DEF IInv, HeldInv, Listens, Armed
<1>6. ReadError(c) => /\ pc[c] = "read_error" /\ pc'[c] = (IF c = Main THEN "read_completed" ELSE "done")
                      /\ gotError'[c] = m_Error /\ UNCHANGED <<gotResponse, completed>>
  BY DEF ReadError, Goto, IInv, TypeOK
<1>7. ReadCompleted(c) =>
        /\ pc[c] = "read_completed" /\ pc'[c] = "done" /\ completed'[c] = (m_Status = "COMPLETED")
        /\ UNCHANGED <<gotError, gotResponse>>
  BY DEF ReadCompleted, Goto, IInv, TypeOK
<1>8. ReadResponse(c) =>
        /\ pc[c] = "read_response" /\ pc'[c] = "read_error" /\ completed' = completed
        /\ m_Status = "COMPLETED" => gotResponse'[c] = m_Response
  BY DEF ReadResponse, Goto, IInv, TypeOK
<1>9. ASSUME Held(c)' PROVE Sole(c)' /\ Cleared(c)' /\ Listens(c)' /\ Got(c)'
  <2>1. Sole(c)' /\ Held(c) /\ Got(c)
    BY <1>1, <1>9, OwnSole
  <2>2. Counts(c)' /\ Responses(c)'
    BY <1>3, <1>4, <1>5, <2>1 DEF Counts, Responses, listener, calls, api
  <2>3. Wakes(c)'
    BY <1>2, <1>3, <1>4, <1>5, <2>1 DEF Wakes, Reading, api, event
  <2>4. Cleared(c)'
    BY <1>2 DEF Cleared, Resetting
  <2>5. Got(c)'
    <3>1. CASE ReadResponse(c)
      <4>1. m_Status = "COMPLETED" => gotResponse'[c] \in call[c]
        BY <1>8, <2>1, <3>1, CompletedResponse
      <4>2. ~timedOut[c] => Ended(c)
        BY <1>2, <1>5, <2>1 DEF Wakes
      <4> QED
        BY <1>3, <1>4, <1>8, <2>1, <3>1, <4>1, <4>2 DEF Got, Ended, calls
    <3>2. CASE ReadError(c)
      BY <1>3, <1>4, <1>6, <2>1, <3>2 DEF Got, calls
    <3>3. CASE ReadCompleted(c)
      <4>1. m_Status = "COMPLETED" => Refused(c) = {} /\ \A r \in call[c] : answer[r] = "completed"
        BY <1>5, <2>1, CompletedCall
      <4> QED
        BY <1>3, <1>7, <2>1, <3>3, <4>1 DEF Got, calls, api
    <3> QED
      BY <3>1, <3>2, <3>3
  <2> QED
    BY <2>1, <2>2, <2>3, <2>4, <2>5 DEF Listens
<1>10. ASSUME ~disturbed'[c] PROVE Alone(c)' /\ Errors(c)' /\ HasRead(c)' /\ Results(c)'
  <2>1. Alone(c)' /\ Held(c) /\ Errors(c) /\ HasRead(c)
    BY <1>1, <1>10, OwnSole
  <2>2. Counts(c) /\ Wakes(c)
    BY <1>5, <2>1
  <2>3. Errors(c)'
    BY <1>2, <1>3, <1>4, <2>1 DEF Errors, Armed, Reading, listener
  <2>4. HasRead(c)' /\ Results(c)'
    <3>1. CASE ReadResponse(c)
      BY <1>8, <3>1 DEF HasRead, Results
    <3>2. CASE ReadError(c)
      <4>1. ~timedOut[c] => (m_Status = "COMPLETED" /\ m_Error = None) \/ m_Error \in Refused(c)
        BY <1>2, <2>1, <2>2, CompletedCall DEF Wakes, Ended, Errors, Armed
      <4> QED
        BY <1>3, <1>4, <1>6, <3>2, <4>1 DEF HasRead, Results, listener
    <3>3. CASE ReadCompleted(c)
      <4>1. ~timedOut[c] => (m_Status = "COMPLETED" /\ gotError[c] = None) \/ gotError[c] \in Refused(c)
        BY <1>7, <2>1, <3>3 DEF HasRead
      <4> QED
        BY <1>3, <1>4, <1>7, <2>2, <3>3, <4>1, CompletedCall DEF HasRead, Results, calls, api
    <3> QED
      BY <3>1, <3>2, <3>3
  <2> QED
    BY <2>1, <2>3, <2>4
<1> QED
  BY <1>9, <1>10 DEF HeldInv, AloneInv, Undisturbed

LEMMA OwnClient ==
  ASSUME IInv, NEW c \in Clients, ClientStep(c) \/ WaitTimesOut(c)
  PROVE  HeldInv(c)' /\ AloneInv(c)'
BY OwnReset, OwnResetCount, OwnSend, OwnWait, OwnTimeout, OwnRead DEF ClientStep

-----------------------------------------------------------------------------
(* A step of the API thread *)

\* A callback during reset() crosses the call; at any other time the members mean
\* what they meant.
LEMMA ApiKeeps ==
  ASSUME IInv, NEW c \in Clients,
         ApiStep \/ \E r \in Request, a \in {"completed", "empty", "failed"} : Deliver(r, a)
  PROVE  /\ UNCHANGED <<pc, call, kind, outcome, m_RequestIDs>>
         /\ Held(c)' => Held(c) /\ pc[c] \notin Resetting
         /\ ~disturbed'[c] => ~disturbed[c] /\ ~crossed'[c] /\ pc[c] \notin Resetting
         /\ Refused(c) \subseteq Refused(c)'
         /\ \A r \in call[c] : answer[r] = "completed" => answer'[r] = "completed"
<1>1. ~disturbed[c] => ~crossed[c] /\ (pc[c] \in Resetting => Held(c))
  BY DEF IInv, AloneInv, Undisturbed, Alone, Held, InCall, Resetting
<1>2. CASE ApiStep
  <2>1. UNCHANGED <<pc, call, kind, outcome, m_RequestIDs, disturbed, crossed, answer>>
        /\ errorEvents \subseteq errorEvents' /\ apc # "idle"
    BY <1>2 DEF ApiStep, Find, CountCompleted, StoreResponse, Compare, Complete, SignalEvent,
                FindFailed, Fail, FailError, ClientsUnchanged, calls, history, listener, ApiGoto
  <2>2. Held(c) => pc[c] \notin Resetting
    BY <2>1 DEF IInv, HeldInv, Cleared
  <2> QED
    BY <1>1, <2>1, <2>2 DEF Held, Refused
<1>3. CASE \E r \in Request, a \in {"completed", "empty", "failed"} : Deliver(r, a)
  <2>1. PICK r \in Request, a \in {"completed", "empty", "failed"} : Deliver(r, a)
    BY <1>3
  <2>2. UNCHANGED <<pc, call, kind, outcome, m_RequestIDs, errorEvents>> /\ answer[r] = "sent"
        /\ disturbed'[c] = (disturbed[c] \/ pc[c] \in Resetting)
        /\ crossed'[c] = (crossed[c] \/ pc[c] \in Resetting)
    BY <2>1 DEF Deliver, calls, listener
  <2>3. call[c] \subseteq Request /\ \A q \in Request : q # r => answer'[q] = answer[q]
    BY <2>1 DEF Deliver, IInv, TypeOK
  <2> QED
    BY <1>1, <2>2, <2>3 DEF Held, Refused
<1> QED
  BY <1>2, <1>3

\* The server's answer arrives.
LEMMA DeliverListens ==
  ASSUME IInv, NEW c \in Clients, Counts(c), Responses(c), Wakes(c),
         NEW r \in Request, NEW a \in {"completed", "empty", "failed"}, Deliver(r, a)
  PROVE  Counts(c)' /\ Responses(c)' /\ Wakes(c)'
<1>1. UNCHANGED <<listener, event, pc, calls, outcome, errorEvents>> /\ handled' = r
      /\ apc = "idle" /\ apc' = (IF a = "failed" THEN "find_failed" ELSE "find")
      /\ answer[r] = "sent" /\ answer' = [answer EXCEPT ![r] = a]
  BY DEF Deliver, ApiGoto
<1>2. \A s \in Request : answer'[s] = IF s = r THEN a ELSE answer[s]
  BY <1>1 DEF IInv, TypeOK
<1>3. call[c] \subseteq Request
  BY DEF IInv, TypeOK
<1>4. Counted(c)' = Counted(c)
  BY <1>1, <1>2, <1>3 DEF Counted, calls
<1>5. Refused(c) \subseteq Refused(c)'
  BY <1>1, <1>2, <1>3 DEF Refused, calls
<1>6. Counts(c)' /\ Responses(c)'
  BY <1>1, <1>4 DEF Counts, Responses, listener, calls
<1>7. Wakes(c)'
  BY <1>1, <1>5 DEF Wakes, Ended, listener, event, outcome
<1> QED
  BY <1>6, <1>7

\* The callbacks, up to where they change the count.
LEMMA FindListens ==
  ASSUME IInv, NEW c \in Clients, Held(c), Counts(c), Responses(c), Wakes(c),
         Find \/ Compare \/ FindFailed
  PROVE  Counts(c)' /\ Responses(c)' /\ Wakes(c)'
<1>1. UNCHANGED <<listener, event, pc, calls, outcome, errorEvents, handled, answer>>
  BY DEF Find, Compare, FindFailed, ClientsUnchanged
<1>2. m_RequestIDs = call[c] /\ IsFiniteSet(call[c])
  BY RequestFinite, FS_Subset DEF Held, IInv, TypeOK
<1>3. Refused(c)' = Refused(c)
  BY <1>1 DEF Refused, calls
<1>4. Counted(c)' = Counted(c)
  <2>1. CASE Find
    <3>1. apc = "find" /\ apc' \in {"count", "compare"}
          /\ (apc' = "compare" => answer[handled] # "completed" \/ handled \notin call[c])
      BY <1>2, <2>1 DEF Find, ApiGoto
    <3> QED
      BY <1>1, <3>1 DEF Counted, calls
  <2>2. CASE Compare \/ FindFailed
    <3>1. apc \notin {"find", "count"} /\ apc' \notin {"find", "count"}
      BY <2>2 DEF Compare, FindFailed, ApiGoto
    <3> QED
      BY <1>1, <3>1 DEF Counted, calls
  <2> QED
    BY <2>1, <2>2
<1>5. Counts(c)'
  <2>1. CASE Find
    <3>1. apc' \in {"count", "compare"} /\ (apc' = "count" => handled \in call[c])
      BY <1>2, <2>1 DEF Find, ApiGoto
    <3> QED
      BY <1>1, <1>4, <3>1 DEF Counts, listener, calls
  <2>2. CASE Compare
    <3>1. apc' \in {"complete", "idle"}
          /\ (apc' = "complete" => m_CompletedCount = Cardinality(call[c]))
      BY <1>2, <2>2 DEF Compare, ApiGoto
    <3>2. Cardinality(Counted(c)) = Cardinality(call[c]) => Counted(c) = call[c]
      BY <1>2, FS_Subset DEF Counted
    <3> QED
      BY <1>1, <1>4, <3>1, <3>2 DEF Counts, listener, calls
  <2>3. CASE FindFailed
    <3>1. apc' \in {"fail", "idle"} /\ (apc' = "fail" => handled \in call[c])
      BY <1>2, <2>3 DEF FindFailed, ApiGoto
    <3> QED
      BY <1>1, <1>4, <3>1 DEF Counts, listener, calls
  <2> QED
    BY <2>1, <2>2, <2>3
<1>6. apc # "store" /\ apc' \notin {"store", "signal"}
  BY DEF Find, Compare, FindFailed, ApiGoto
<1>7. Responses(c)' /\ Wakes(c)'
  BY <1>1, <1>3, <1>4, <1>6 DEF Responses, Wakes, Ended, listener, event, calls, outcome
<1> QED
  BY <1>5, <1>7

\* A completed request of the call is counted, once.
LEMMA CountListens ==
  ASSUME IInv, NEW c \in Clients, Counts(c), Responses(c), Wakes(c), CountCompleted
  PROVE  Counts(c)' /\ Responses(c)' /\ Wakes(c)'
<1>1. UNCHANGED <<m_Status, m_Error, m_Response, event, pc, calls, outcome, errorEvents, handled, answer>>
      /\ m_CompletedCount' = m_CompletedCount + 1 /\ apc = "count" /\ apc' = "store"
  BY DEF CountCompleted, ApiGoto, ClientsUnchanged
<1>2. handled \in call[c] /\ answer[handled] = "completed" /\ handled \notin Counted(c)
  BY <1>1 DEF Counts, Counted, IInv, ApiInv
<1>3. Counted(c)' = Counted(c) \cup {handled}
  BY <1>1, <1>2 DEF Counted, calls
<1>4. Refused(c)' = Refused(c)
  BY <1>1 DEF Refused, calls
<1>5. IsFiniteSet(Counted(c))
  BY RequestFinite, FS_Subset DEF Counted, IInv, TypeOK
<1>6. Cardinality(Counted(c)') = Cardinality(Counted(c)) + 1
  BY <1>2, <1>3, <1>5, FS_AddElement
<1>7. m_Status # "COMPLETED"
  BY <1>2 DEF Counts
<1>8. Counts(c)'
  BY <1>1, <1>2, <1>6, <1>7 DEF Counts, calls
<1>9. Responses(c)' /\ Wakes(c)'
  BY <1>1, <1>4 DEF Responses, Wakes, Ended, event, calls, outcome
<1> QED
  BY <1>8, <1>9

\* A response is kept only if it is that of the only request of the call.
LEMMA StoreListens ==
  ASSUME IInv, NEW c \in Clients, Held(c), Counts(c), Responses(c), Wakes(c), StoreResponse
  PROVE  Counts(c)' /\ Responses(c)' /\ Wakes(c)'
<1>1. UNCHANGED <<m_Status, m_Error, m_CompletedCount, event, pc, calls, outcome, errorEvents, handled, answer>>
      /\ apc = "store" /\ apc' = "compare"
      /\ m_Response' = (IF Cardinality(m_RequestIDs) = 1 THEN handled ELSE m_Response)
  BY DEF StoreResponse, ApiGoto, ClientsUnchanged
<1>2. m_RequestIDs = call[c] /\ handled \in call[c]
  BY <1>1 DEF Held, Counts
<1>3. Counted(c)' = Counted(c) /\ Refused(c)' = Refused(c)
  BY <1>1 DEF Counted, Refused, calls
<1>4. Counts(c)'
  BY <1>1, <1>3 DEF Counts, calls
<1>5. Responses(c)' /\ Wakes(c)'
  BY <1>1, <1>2, <1>3 DEF Responses, Wakes, Ended, event, calls, outcome
<1> QED
  BY <1>4, <1>5

\* The call becomes complete, and its client is woken.
LEMMA CompleteListens ==
  ASSUME IInv, NEW c \in Clients, Counts(c), Responses(c), Wakes(c), Complete \/ SignalEvent
  PROVE  Counts(c)' /\ Responses(c)' /\ Wakes(c)'
<1>1. UNCHANGED <<m_Error, m_CompletedCount, m_Response, pc, calls, outcome, errorEvents, handled, answer>>
      /\ apc \in {"complete", "signal"} /\ apc' \in {"signal", "idle"}
  BY DEF Complete, SignalEvent, ApiGoto, ClientsUnchanged, listener
<1>2. Counted(c)' = Counted(c) /\ Refused(c)' = Refused(c)
  BY <1>1 DEF Counted, Refused, calls
<1>3. Responses(c)'
  BY <1>1, <1>2 DEF Responses, calls
<1>4. CASE Complete
  <2>1. m_Status' = "COMPLETED" /\ apc = "complete" /\ apc' = "signal"
    BY <1>4 DEF Complete, ApiGoto
  <2>2. Counts(c)'
    BY <1>1, <1>2, <2>1 DEF Counts, calls
  <2>3. Wakes(c)'
    BY <1>1, <2>1 DEF Wakes, Ended, outcome
  <2> QED
    BY <1>3, <2>2, <2>3
<1>5. CASE SignalEvent
  <2>1. m_Status' = m_Status /\ apc = "signal" /\ apc' = "idle"
    BY <1>5 DEF SignalEvent, ApiGoto, listener
  <2>2. Counts(c)'
    BY <1>1, <1>2, <2>1 DEF Counts, calls
  <2>3. Ended(c)'
    BY <1>2, <2>1 DEF Wakes, Ended
  <2>4. Wakes(c)'
    BY <1>1, <2>3 DEF Wakes, outcome
  <2> QED
    BY <1>3, <2>2, <2>4
<1> QED
  BY <1>4, <1>5

\* A request of the call is refused: the call cannot have been completed.
LEMMA FailListens ==
  ASSUME IInv, NEW c \in Clients, Counts(c), Responses(c), Wakes(c), Fail \/ FailError
  PROVE  /\ Counts(c)' /\ Responses(c)' /\ Wakes(c)'
         /\ m_Status # "COMPLETED" /\ m_Status' # "COMPLETED"
<1>1. UNCHANGED <<m_CompletedCount, m_Response, event, pc, calls, outcome, handled, answer>>
      /\ apc \in {"fail", "fail_error"} /\ apc' \in {"fail_error", "signal"}
      /\ errorEvents \subseteq errorEvents'
  BY DEF Fail, FailError, ApiGoto, ClientsUnchanged
<1>2. handled \in call[c] /\ answer[handled] = "failed"
  BY <1>1 DEF Counts, IInv, ApiInv
<1>3. m_Status # "COMPLETED"
  BY <1>2 DEF Counts, Counted
<1>4. Counted(c)' = Counted(c) /\ Refused(c) \subseteq Refused(c)'
  BY <1>1 DEF Counted, Refused, calls
<1>5. m_Status' # "COMPLETED"
  BY <1>3 DEF Fail, FailError
<1>6. Counts(c)' /\ Responses(c)'
  BY <1>1, <1>2, <1>4, <1>5 DEF Counts, Responses, calls
<1>7. apc' = "signal" => Refused(c)' # {}
  <2>1. CASE Fail
    BY <2>1 DEF Fail, ApiGoto
  <2>2. CASE FailError
    BY <1>1, <1>2, <2>2 DEF FailError, Refused, calls
  <2> QED
    BY <2>1, <2>2
<1>8. Wakes(c)'
  BY <1>1, <1>3, <1>4, <1>7 DEF Wakes, Ended, event, outcome
<1> QED
  BY <1>3, <1>5, <1>6, <1>8

LEMMA HeldApi ==
  ASSUME IInv, NEW c \in Clients,
         ApiStep \/ \E r \in Request, a \in {"completed", "empty", "failed"} : Deliver(r, a)
  PROVE  HeldInv(c)'
<1> SUFFICES ASSUME Held(c)' PROVE Sole(c)' /\ Cleared(c)' /\ Listens(c)' /\ Got(c)'
  BY DEF HeldInv
<1>1. /\ UNCHANGED <<pc, call, kind, outcome>>
      /\ Held(c) /\ pc[c] \notin Resetting
      /\ Refused(c) \subseteq Refused(c)'
      /\ \A r \in call[c] : answer[r] = "completed" => answer'[r] = "completed"
  BY ApiKeeps
<1>2. Sole(c) /\ Listens(c) /\ Got(c)
  BY <1>1 DEF IInv, HeldInv
<1>3. Sole(c)' /\ Cleared(c)'
  BY <1>1, <1>2 DEF Sole, Cleared, Resetting
<1>4. ASSUME pc[c] \in Armed PROVE Counts(c)' /\ Responses(c)' /\ Wakes(c)'
  <2>1. Counts(c) /\ Responses(c) /\ Wakes(c)
    BY <1>2, <1>4 DEF Listens
  <2> QED
    BY <1>1, <2>1, DeliverListens, FindListens, CountListens, StoreListens, CompleteListens, FailListens
       DEF ApiStep
<1>5. Listens(c)'
  BY <1>1, <1>4 DEF Listens
<1>6. Got(c)'
  BY <1>1, <1>2 DEF Got, outcome
<1> QED
  BY <1>3, <1>5, <1>6

\* Only a refusal changes the error, to that of a request of the call.
LEMMA ApiErrors ==
  ASSUME IInv, NEW c \in Clients, Held(c), pc[c] \in Armed,
         ApiStep \/ \E r \in Request, a \in {"completed", "empty", "failed"} : Deliver(r, a)
  PROVE  \/ m_Error' = m_Error /\ Refused(c)' = Refused(c)
         \/ m_Error' \in Refused(c)'
<1>1. Counts(c)
  BY DEF IInv, HeldInv, Listens
<1>2. CASE FailError
  <2>1. handled \in call[c] /\ answer[handled] = "failed"
    BY <1>1, <1>2 DEF FailError, ApiGoto, Counts, IInv, ApiInv
  <2> QED
    BY <1>2, <2>1 DEF FailError, Refused, ClientsUnchanged, calls
<1>3. CASE ApiStep /\ ~FailError
  BY <1>3 DEF ApiStep, Find, CountCompleted, StoreResponse, Compare, Complete, SignalEvent,
              FindFailed, Fail, ClientsUnchanged, calls, listener, Refused
<1>4. CASE \E r \in Request, a \in {"completed", "empty", "failed"} : Deliver(r, a)
  <2>1. PICK r \in Request, a \in {"completed", "empty", "failed"} : Deliver(r, a)
    BY <1>4
  <2>2. UNCHANGED <<m_Error, call, errorEvents>> /\ r \notin errorEvents
    BY <2>1 DEF Deliver, listener, calls, IInv, ApiInv
  <2>3. call[c] \subseteq Request /\ \A q \in Request : q # r => answer'[q] = answer[q]
    BY <2>1 DEF Deliver, IInv, TypeOK
  <2> QED
    BY <2>2, <2>3 DEF Refused
<1> QED
  BY <1>2, <1>3, <1>4

LEMMA AloneApi ==
  ASSUME IInv, NEW c \in Clients,
         ApiStep \/ \E r \in Request, a \in {"completed", "empty", "failed"} : Deliver(r, a)
  PROVE  AloneInv(c)'
<1> SUFFICES ASSUME ~disturbed'[c] PROVE Alone(c)' /\ Errors(c)' /\ HasRead(c)' /\ Results(c)'
  BY DEF AloneInv, Undisturbed
<1>1. /\ UNCHANGED <<pc, call, kind, outcome, m_RequestIDs>>
      /\ ~disturbed[c] /\ ~crossed'[c] /\ pc[c] \notin Resetting
      /\ Refused(c) \subseteq Refused(c)'
      /\ \A r \in call[c] : answer[r] = "completed" => answer'[r] = "completed"
  BY ApiKeeps
<1>2. Alone(c) /\ Errors(c) /\ HasRead(c) /\ Results(c)
  BY <1>1 DEF IInv, AloneInv, Undisturbed
<1>3. Alone(c)'
  BY <1>1, <1>2 DEF Alone, InCall
<1>4. pc[c] \in Armed => Held(c)
  BY <1>2 DEF Alone, InCall, Held, Armed, Reading
<1>5. Errors(c)'
  <2>1. pc[c] \in Armed => \/ m_Error' = m_Error /\ Refused(c)' = Refused(c)
                           \/ m_Error' \in Refused(c)'
    BY <1>4, ApiErrors
  <2> QED
    BY <1>1, <1>2, <2>1 DEF Errors, Resetting, outcome
<1>6. HasRead(c)'
  <2>1. ASSUME pc[c] \in Armed, m_Status = "COMPLETED" PROVE m_Status' = "COMPLETED"
    <3>1. Counts(c) /\ Responses(c) /\ Wakes(c)
      BY <1>4, <2>1 DEF IInv, HeldInv, Listens
    <3>2. ~(Fail \/ FailError)
      BY <2>1, <3>1, FailListens
    <3> QED
      BY <2>1, <3>2 DEF ApiStep, Find, CountCompleted, StoreResponse, Compare, Complete, SignalEvent,
                        FindFailed, Deliver, listener
  <2> QED
    BY <1>1, <1>2, <2>1 DEF HasRead, Armed, Reading, outcome
<1>7. Results(c)'
  BY <1>1, <1>2 DEF Results, outcome
<1> QED
  BY <1>3, <1>5, <1>6, <1>7

-----------------------------------------------------------------------------
(* The invariant and what it shows *)

LEMMA NextIInv == IInv /\ [Next]_vars => IInv'
<1> SUFFICES ASSUME IInv, [Next]_vars PROVE IInv'
  OBVIOUS
<1>1. ASSUME NEW d \in Clients, ClientMoves(d) PROVE IInv'
  <2>1. TypeOK' /\ Event!TypeOK' /\ RequestInv' /\ ApiInv'
    BY <1>1, CallTypes, CallRequests, ClientTypes, ClientRequests DEF ClientMoves
  <2>2. \A c \in Clients : HeldInv(c)' /\ AloneInv(c)'
    BY <1>1, OwnCall, OwnClient, HeldOtherCall, HeldOtherStep, AloneOther DEF ClientMoves
  <2> QED
    BY <2>1, <2>2 DEF IInv
<1>2. CASE ApiStep \/ \E r \in Request, a \in {"completed", "empty", "failed"} : Deliver(r, a)
  <2>1. TypeOK' /\ Event!TypeOK' /\ RequestInv' /\ ApiInv'
    BY <1>2, ApiTypes, ApiRequests
  <2>2. \A c \in Clients : HeldInv(c)' /\ AloneInv(c)'
    BY <1>2, HeldApi, AloneApi
  <2> QED
    BY <2>1, <2>2 DEF IInv
<1>3. CASE UNCHANGED vars
  <2> USE <1>3 DEF vars, listener, event, calls, outcome, history, api
  <2>1. TypeOK' /\ Event!TypeOK' /\ RequestInv' /\ ApiInv'
    BY DEF IInv, TypeOK, Event!TypeOK, RequestInv, ApiInv
  <2>2. ASSUME NEW c \in Clients PROVE HeldInv(c)' /\ AloneInv(c)'
    <3>1. Counted(c)' = Counted(c) /\ Refused(c)' = Refused(c)
      BY DEF Counted, Refused
    <3>2. Held(c)' = Held(c) /\ Sole(c)' = Sole(c) /\ Cleared(c)' = Cleared(c)
      BY DEF Held, Sole, Cleared
    <3>3. Listens(c)' = Listens(c) /\ Got(c)' = Got(c)
      BY <3>1 DEF Listens, Counts, Responses, Wakes, Ended, Got
    <3>4. Alone(c)' = Alone(c) /\ Errors(c)' = Errors(c)
      BY <3>1 DEF Alone, InCall, Errors
    <3>5. HasRead(c)' = HasRead(c) /\ Results(c)' = Results(c)
      BY <3>1 DEF HasRead, Results
    <3> QED
      BY <3>2, <3>3, <3>4, <3>5 DEF IInv, HeldInv, AloneInv, Undisturbed
  <2> QED
    BY <2>1, <2>2 DEF IInv
<1> QED
  BY <1>1, <1>2, <1>3, CallCases DEF Next, ClientMoves

\* The types of the members, of the calls and of the answers; a change or a close of
\* an order returns no response (ResponseListener.cpp, Order2Go.cpp).
THEOREM Types == Spec => []TypeOK
<1>1. IInv => TypeOK
  BY DEF IInv
<1> QED
  BY <1>1, InitIInv, NextIInv, PTL DEF Spec

\* What an order call reports is true: completion only if the server completed every
\* request of the call, however many requests there are and whatever late answers
\* arrive (ResponseListener::onRequestCompleted, isCompleted).
THEOREM CompletionIsTrue == Spec => []CompletedIsTrue
<1>1. IInv => CompletedIsTrue
  BY DEF IInv, AloneInv, Results, CompletedIsTrue, Returned, Clients
<1> QED
  BY <1>1, InitIInv, NextIInv, PTL DEF Spec

\* The error an order call returns agrees with its outcome: that of its own refused
\* request, or none (ResponseListener::onRequestFailed, getError).
THEOREM ErrorsAgree == Spec => []ErrorAgrees
<1>1. IInv => ErrorAgrees
  <2> SUFFICES ASSUME IInv, Undisturbed(Main), Returned(Main), ~timedOut[Main]
               PROVE  /\ ~completed[Main] => \E r \in call[Main] : answer[r] = "failed" /\ gotError[Main] = r /\ r \in errorEvents
                      /\ completed[Main] => gotError[Main] = None
    BY DEF ErrorAgrees, FailureIsReported, CompletedHasNoError
  <2>1. Results(Main)
    BY DEF IInv, AloneInv, Clients
  <2> QED
    BY <2>1 DEF Results, Returned, Refused
<1> QED
  BY <1>1, InitIInv, NextIInv, PTL DEF Spec

\* The response a client dereferences is there and is that of its own request
\* (getMarketDataSnapshot, getOrderID).
THEOREM ResponsesAreOwn == Spec => []ResponseIsOwn
<1>1. IInv => ResponseIsOwn
  <2> SUFFICES ASSUME IInv, NEW c \in Clients, Undisturbed(c), pc[c] = "read_response",
                      m_Status = "COMPLETED"
               PROVE  m_Response \in call[c]
    BY DEF ResponseIsOwn
  <2>1. Held(c)
    BY DEF IInv, AloneInv, Alone, InCall, Held
  <2> QED
    BY <2>1, CompletedResponse
<1> QED
  BY <1>1, InitIInv, NextIInv, PTL DEF Spec

\* A client that took the listener over from others is served although these still
\* wait, time out and read: its response is there, its completion is the truth and
\* its order id is its own, for any number of clients (ResponseListener::setRequestID,
\* waitEvents, getOrderID, getMarketDataSnapshot, isCompleted).
THEOREM LastCallersAreServed == Spec => []LastCallerIsServed
<1>1. IInv => LastCallerIsServed
  <2> SUFFICES ASSUME IInv, NEW c \in Clients, Held(c)
               PROVE  /\ pc[c] = "read_response" /\ m_Status = "COMPLETED" => m_Response \in call[c]
                      /\ Returned(c) /\ completed[c] =>
                           /\ \A r \in call[c] : answer[r] = "completed"
                           /\ kind[c] = "open" /\ ~timedOut[c] => gotResponse[c] \in call[c]
    BY DEF LastCallerIsServed, Held
  <2>1. Got(c)
    BY DEF IInv, HeldInv
  <2> QED
    BY <2>1, CompletedResponse DEF Got, Returned
<1> QED
  BY <1>1, InitIInv, NextIInv, PTL DEF Spec
=============================================================================
