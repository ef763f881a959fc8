-------------------------- MODULE ResponseListener --------------------------
(***************************************************************************)
(* The rendezvous between the threads that send a request to the trading   *)
(* server and the ForexConnect thread that delivers the answer             *)
(* (ResponseListener.cpp, with its callers in Order2Go.cpp).               *)
(*                                                                         *)
(* There is ONE listener.  Its clients are the Node thread, which places,  *)
(* changes and closes orders (openPosition ... closeAllPositions), and a   *)
(* libuv worker, which pages through historical prices                     *)
(* (getHistoricalPrices).  A client names its requests (setRequestID,      *)
(* which also resets the listener), sends them, waits at most 30 seconds   *)
(* and reads the outcome.  The API thread runs onRequestCompleted and      *)
(* onRequestFailed, for whatever request was answered.  None of them locks *)
(* anything, so every access to a member is a step of its own.             *)
(***************************************************************************)
EXTENDS Naturals, FiniteSets

CONSTANTS
  Main,          \* the Node thread: order requests
  Workers,       \* the libuv threads that retrieve historical prices
  BatchSizes,    \* how many requests closeAllPositions may make at once
  MaxRequests,   \* bound: requests sent altogether
  None,          \* NULL, no error
  Timeout        \* the error "Response waiting timeout."

ASSUME ResponseListenerAssumption ==
  /\ Main \notin Workers
  /\ BatchSizes \subseteq Nat \ {0}
  /\ MaxRequests \in Nat
  /\ None # Timeout /\ {None, Timeout} \cap Nat = {}

Clients == {Main} \cup Workers
Request == 1..MaxRequests

VARIABLES
  \* the members of ResponseListener
  m_RequestIDs, m_Status, m_CompletedCount, m_Error, m_Response,
  \* m_Event (module WinEvent)
  m_Signaled, m_Count, blocked, count, wakeups,
  \* the clients
  pc,           \* where each client is
  kind,         \* which function of Order2Go its current call is
  call,         \* the requests of its current call
  gotResponse,  \* the response its call used (order id, prices)
  gotError,     \* the error its call returned
  completed,    \* what its call returned for "completed"
  timedOut,     \* history: its wait timed out
  disturbed,    \* history: somebody else used the listener during its call
  crossed,      \* history: a callback or another setRequestID ran during its setRequestID
  \* the API thread and the server
  apc,          \* where the API thread is
  handled,      \* the request whose answer it handles
  answer,       \* state of each request at the server
  errorEvents   \* the failed requests for which an ERR event was pushed

listener == <<m_RequestIDs, m_Status, m_CompletedCount, m_Error, m_Response>>
event == <<m_Signaled, m_Count, blocked, count, wakeups>>
outcome == <<gotResponse, gotError, completed, timedOut>>
history == <<disturbed, crossed>>
api == <<apc, handled, answer, errorEvents>>
calls == <<kind, call>>
vars == <<listener, event, pc, calls, outcome, history, api>>

Resetting == {"reset_response", "reset_status", "reset_error", "reset_event", "reset_count"}
Reading == {"read_response", "read_error", "read_completed"}

\* openPosition; changeStopLoss, changeTakeProfit and closePosition;
\* closeAllPositions; getHistoricalPrices
Kinds == {"open", "change", "close_all", "prices"}

\* Besides the types: changes and closes have no response of their own to return.
TypeOK ==
  /\ m_RequestIDs \subseteq Request
  /\ m_Status \in {"UNAVAILABLE", "COMPLETED", "FAILED"}
  /\ m_CompletedCount \in Nat
  /\ m_Error \in Request \cup {None, Timeout}
  /\ m_Response \in Request \cup {None}
  /\ pc \in [Clients -> {"idle", "send", "wait", "blocked", "timed_out", "done"}
                          \cup Resetting \cup Reading]
  /\ kind \in [Clients -> Kinds \cup {None}]
  /\ call \in [Clients -> SUBSET Request]
  /\ gotResponse \in [Clients -> Request \cup {None}]
  /\ \A c \in Clients : kind[c] \in {"change", "close_all"} => gotResponse[c] = None
  /\ gotError \in [Clients -> Request \cup {None, Timeout}]
  /\ completed \in [Clients -> BOOLEAN]
  /\ timedOut \in [Clients -> BOOLEAN]
  /\ disturbed \in [Clients -> BOOLEAN]
  /\ crossed \in [Clients -> BOOLEAN]
  /\ apc \in {"idle", "find", "count", "store", "compare", "complete", "signal",
              "find_failed", "fail", "fail_error"}
  /\ handled \in Request \cup {None}
  /\ answer \in [Request -> {"unused", "created", "sent", "completed", "empty", "failed"}]
  /\ errorEvents \subseteq Request

Event == INSTANCE WinEvent
           WITH Waiters <- Clients, ManualReset <- FALSE, MaxSignals <- MaxRequests

Init ==
  /\ m_RequestIDs = {} /\ m_Status = "UNAVAILABLE" /\ m_CompletedCount = 0
  /\ m_Error = None /\ m_Response = None
  /\ Event!Init
  /\ pc = [c \in Clients |-> "idle"]
  /\ kind = [c \in Clients |-> None]
  /\ call = [c \in Clients |-> {}]
  /\ gotResponse = [c \in Clients |-> None]
  /\ gotError = [c \in Clients |-> None]
  /\ completed = [c \in Clients |-> FALSE]
  /\ timedOut = [c \in Clients |-> FALSE]
  /\ disturbed = [c \in Clients |-> FALSE]
  /\ crossed = [c \in Clients |-> FALSE]
  /\ apc = "idle" /\ handled = None
  /\ answer = [r \in Request |-> "unused"]
  /\ errorEvents = {}

-----------------------------------------------------------------------------
(* The clients: setRequestID *)

Goto(c, from, to) == pc[c] = from /\ pc' = [pc EXCEPT ![c] = to]

InCall(c) == pc[c] \notin {"idle", "done"}

Unused == {r \in Request : answer[r] = "unused"}

\* n fresh request ids; the smallest ones, for they are interchangeable.
Fresh(n) == {r \in Unused : Cardinality({s \in Unused : s <= r}) <= n}

\* The factory creates n requests; setRequestID stores their ids.
SetRequestID(c, k, n) ==
  /\ pc[c] \in {"idle", "done"}
  /\ pc' = [pc EXCEPT ![c] = "reset_response"]
  /\ Cardinality(Unused) >= n
  /\ kind' = [kind EXCEPT ![c] = k]
  /\ call' = [call EXCEPT ![c] = Fresh(n)]
  /\ m_RequestIDs' = Fresh(n)
  /\ answer' = [r \in Request |-> IF r \in Fresh(n) THEN "created" ELSE answer[r]]
  /\ gotResponse' = [gotResponse EXCEPT ![c] = None]
  /\ gotError' = [gotError EXCEPT ![c] = None]
  /\ completed' = [completed EXCEPT ![c] = FALSE]
  /\ timedOut' = [timedOut EXCEPT ![c] = FALSE]
  /\ disturbed' = [d \in Clients |->
                     IF d = c THEN apc # "idle" \/ \E o \in Clients \ {c} : InCall(o)
                     ELSE disturbed[d] \/ InCall(d)]
  /\ crossed' = [crossed EXCEPT ![c] = apc # "idle" \/ \E o \in Clients : pc[o] \in Resetting]
  /\ UNCHANGED <<m_Status, m_CompletedCount, m_Error, m_Response, event, apc, handled, errorEvents>>

ResetResponse(c) ==
  /\ Goto(c, "reset_response", "reset_status")
  /\ m_Response' = None
  /\ UNCHANGED <<m_RequestIDs, m_Status, m_CompletedCount, m_Error, event,
                 calls, outcome, history, api>>

ResetStatus(c) ==
  /\ Goto(c, "reset_status", "reset_error")
  /\ m_Status' = "UNAVAILABLE"
  /\ UNCHANGED <<m_RequestIDs, m_CompletedCount, m_Error, m_Response, event,
                 calls, outcome, history, api>>

\* reset() without m_Error.clear().
ResetErrorKept(c) ==
  /\ Goto(c, "reset_error", "reset_event")
  /\ UNCHANGED <<listener, event, calls, outcome, history, api>>

ResetError(c) ==
  /\ Goto(c, "reset_error", "reset_event")
  /\ m_Error' = None
  /\ UNCHANGED <<m_RequestIDs, m_Status, m_CompletedCount, m_Response, event,
                 calls, outcome, history, api>>

ResetSignal(c) ==
  /\ Goto(c, "reset_event", "reset_count")
  /\ Event!Reset
  /\ UNCHANGED <<listener, calls, outcome, history, api>>

\* reset() without m_CompletedCount = 0.
ResetCountKept(c) ==
  /\ Goto(c, "reset_count", "send")
  /\ UNCHANGED <<listener, event, calls, outcome, history, api>>

ResetCount(c) ==
  /\ Goto(c, "reset_count", "send")
  /\ m_CompletedCount' = 0
  /\ UNCHANGED <<m_RequestIDs, m_Status, m_Error, m_Response, event,
                 calls, outcome, history, api>>

-----------------------------------------------------------------------------
(* The clients: sendRequest, waitEvents and the outcome *)

SendRequest(c) ==
  /\ Goto(c, "send", "wait")
  /\ answer' = [r \in Request |-> IF r \in call[c] THEN "sent" ELSE answer[r]]
  /\ UNCHANGED <<listener, event, calls, outcome, history, apc, handled, errorEvents>>

\* Only a new order (its id) and a price request look at the response.
AfterWait(c) ==
  IF kind[c] \in {"open", "prices"} THEN "read_response" ELSE "read_error"

WaitPasses(c) ==
  /\ Goto(c, "wait", AfterWait(c))
  /\ Event!WaitPasses(c)
  /\ UNCHANGED <<listener, calls, outcome, history, api>>

WaitBlocks(c) ==
  /\ Goto(c, "wait", "blocked")
  /\ Event!WaitBlocks(c)
  /\ UNCHANGED <<listener, calls, outcome, history, api>>

WaitWakes(c) ==
  /\ Goto(c, "blocked", AfterWait(c))
  /\ Event!WaitWakes(c)
  /\ UNCHANGED <<listener, calls, outcome, history, api>>

WaitTimesOut(c) ==
  /\ Goto(c, "blocked", "timed_out")
  /\ Event!WaitTimesOut(c)
  /\ timedOut' = [timedOut EXCEPT ![c] = TRUE]
  /\ UNCHANGED <<listener, calls, gotResponse, gotError, completed, history, api>>

\* After a time-out an order call goes on as if it had been answered; the price
\* worker breaks out of its loop.
TimeoutError(c) ==
  /\ Goto(c, "timed_out", IF c = Main THEN AfterWait(c) ELSE "read_error")
  /\ m_Error' = Timeout
  /\ UNCHANGED <<m_RequestIDs, m_Status, m_CompletedCount, m_Response, event,
                 calls, outcome, history, api>>

\* The response is released by the client that has read it.
ReadResponseReleases(c) ==
  /\ Goto(c, "read_response", "read_error")
  /\ gotResponse' = [gotResponse EXCEPT ![c] = IF m_Status = "COMPLETED" THEN m_Response ELSE None]
  /\ m_Response' = IF m_Status = "COMPLETED" THEN None ELSE m_Response
  /\ UNCHANGED <<m_RequestIDs, m_Status, m_CompletedCount, m_Error, event, calls, gotError,
                 completed, timedOut, history, api>>

\* getOrderID, getMarketDataSnapshot
ReadResponse(c) ==
  /\ Goto(c, "read_response", "read_error")
  /\ gotResponse' = [gotResponse EXCEPT ![c] = IF m_Status = "COMPLETED" THEN m_Response ELSE None]
  /\ UNCHANGED <<listener, event, calls, gotError, completed, timedOut, history, api>>

ReadError(c) ==
  /\ Goto(c, "read_error", IF c = Main THEN "read_completed" ELSE "done")
  /\ gotError' = [gotError EXCEPT ![c] = m_Error]
  /\ UNCHANGED <<listener, event, calls, gotResponse, completed, timedOut, history, api>>

\* An order call returns isCompleted().
ReadCompleted(c) ==
  /\ Goto(c, "read_completed", "done")
  /\ completed' = [completed EXCEPT ![c] = (m_Status = "COMPLETED")]
  /\ UNCHANGED <<listener, event, calls, gotResponse, gotError, timedOut, history, api>>

-----------------------------------------------------------------------------
(* The API thread *)

ApiGoto(from, to) == apc = from /\ apc' = to
ClientsUnchanged == UNCHANGED <<pc, calls, outcome, history>>

\* The server answers a request, with a response, with no response object, or
\* with a failure, and ForexConnect calls the listener.
Deliver(r, a) ==
  /\ answer[r] = "sent"
  /\ answer' = [answer EXCEPT ![r] = a]
  /\ handled' = r
  /\ ApiGoto("idle", IF a = "failed" THEN "find_failed" ELSE "find")
  /\ disturbed' = [c \in Clients |-> disturbed[c] \/ pc[c] \in Resetting]
  /\ crossed' = [c \in Clients |-> crossed[c] \/ pc[c] \in Resetting]
  /\ UNCHANGED <<listener, event, pc, calls, outcome, errorEvents>>

Find ==
  /\ ApiGoto("find", IF answer[handled] = "completed" /\ handled \in m_RequestIDs
                     THEN "count" ELSE "compare")
  /\ UNCHANGED <<listener, event, handled, answer, errorEvents>> /\ ClientsUnchanged

CountCompleted ==
  /\ ApiGoto("count", "store")
  /\ m_CompletedCount' = m_CompletedCount + 1
  /\ UNCHANGED <<m_RequestIDs, m_Status, m_Error, m_Response, event, handled, answer, errorEvents>>
  /\ ClientsUnchanged

StoreResponse ==
  /\ ApiGoto("store", "compare")
  /\ m_Response' = IF Cardinality(m_RequestIDs) = 1 THEN handled ELSE m_Response
  /\ UNCHANGED <<m_RequestIDs, m_Status, m_CompletedCount, m_Error, event, handled, answer, errorEvents>>
  /\ ClientsUnchanged

\* "At least one" instead of "all".
CompareAny ==
  /\ ApiGoto("compare", IF m_CompletedCount > 0 THEN "complete" ELSE "idle")
  /\ UNCHANGED <<listener, event, handled, answer, errorEvents>> /\ ClientsUnchanged

Compare ==
  /\ ApiGoto("compare", IF m_CompletedCount = Cardinality(m_RequestIDs) THEN "complete" ELSE "idle")
  /\ UNCHANGED <<listener, event, handled, answer, errorEvents>> /\ ClientsUnchanged

Complete ==
  /\ ApiGoto("complete", "signal")
  /\ m_Status' = "COMPLETED"
  /\ UNCHANGED <<m_RequestIDs, m_CompletedCount, m_Error, m_Response, event, handled, answer, errorEvents>>
  /\ ClientsUnchanged

\* The event is not set.
SignalMissing ==
  /\ ApiGoto("signal", "idle")
  /\ UNCHANGED <<listener, event, handled, answer, errorEvents>> /\ ClientsUnchanged

SignalEvent ==
  /\ ApiGoto("signal", "idle")
  /\ Event!Signal
  /\ UNCHANGED <<listener, handled, answer, errorEvents>> /\ ClientsUnchanged

FindFailed ==
  /\ ApiGoto("find_failed", IF handled \in m_RequestIDs THEN "fail" ELSE "idle")
  /\ UNCHANGED <<listener, event, handled, answer, errorEvents>> /\ ClientsUnchanged

Fail ==
  /\ ApiGoto("fail", "fail_error")
  /\ m_Status' = "FAILED"
  /\ UNCHANGED <<m_RequestIDs, m_CompletedCount, m_Error, m_Response, event, handled, answer, errorEvents>>
  /\ ClientsUnchanged

FailError ==
  /\ ApiGoto("fail_error", "signal")
  /\ m_Error' = handled
  /\ errorEvents' = errorEvents \cup {handled}
  /\ UNCHANGED <<m_RequestIDs, m_Status, m_CompletedCount, m_Response, event, handled, answer>>
  /\ ClientsUnchanged

-----------------------------------------------------------------------------
(* The calls, as far as their request is created.  A call that stops before *)
(* that, for an unknown account, symbol or position, touches nothing here.   *)

OpenPosition == SetRequestID(Main, "open", 1)
ChangeOrder == SetRequestID(Main, "change", 1)
CloseAllPositions == \E n \in BatchSizes : SetRequestID(Main, "close_all", n)
GetHistoricalPrices(c) == SetRequestID(c, "prices", 1)

\* The steps a client takes by itself once its call began.
ClientStep(c) ==
  \/ ResetResponse(c) \/ ResetStatus(c) \/ ResetError(c) \/ ResetSignal(c) \/ ResetCount(c)
  \/ SendRequest(c)
  \/ WaitPasses(c) \/ WaitBlocks(c) \/ WaitWakes(c) \/ TimeoutError(c)
  \/ ReadResponse(c) \/ ReadError(c) \/ ReadCompleted(c)

ApiStep ==
  \/ Find \/ CountCompleted \/ StoreResponse \/ Compare \/ Complete \/ SignalEvent
  \/ FindFailed \/ Fail \/ FailError

Next ==
  \/ OpenPosition \/ ChangeOrder \/ CloseAllPositions
  \/ \E c \in Workers : GetHistoricalPrices(c)
  \/ \E c \in Clients : ClientStep(c) \/ WaitTimesOut(c)
  \/ \E r \in Request, a \in {"completed", "empty", "failed"} : Deliver(r, a)
  \/ ApiStep

Spec == Init /\ [][Next]_vars

\* A running thread runs on.  The server need not answer, and no wait need time
\* out: a call must end because it was answered.
FairSpec == Spec /\ WF_vars(ApiStep) /\ \A c \in Clients : WF_vars(ClientStep(c))

-----------------------------------------------------------------------------
(* Properties.  A call is undisturbed if no other client was in a call at any *)
(* time during it, and the API thread was in no callback while setRequestID   *)
(* ran.  Answers to earlier requests, whose wait had timed out, may still     *)
(* arrive at any later moment of the call.  A call is not crossed if only the *)
(* latter holds: no callback, and no other setRequestID, ran during its own.  *)

Undisturbed(c) == ~disturbed[c]
Returned(c) == pc[c] = "done"

\* An undisturbed order call that reports completion tells the truth: the server
\* completed every one of its requests, be it one order or a batch of
\* closeAllPositions, whatever late answers arrived in between.
CompletedIsTrue ==
  Undisturbed(Main) /\ Returned(Main) /\ completed[Main] =>
    \A r \in call[Main] : answer[r] = "completed"

\* A client that is about to use the response of an undisturbed call finds the
\* response of its own request, never NULL (getMarketDataSnapshot dereferences
\* it) and never the response of an earlier request.
ResponseIsOwn ==
  \A c \in Clients :
    Undisturbed(c) /\ pc[c] = "read_response" /\ m_Status = "COMPLETED" =>
      m_Response \in call[c]

\* An undisturbed order call that is not completed and did not time out returns
\* the error of one of its own requests, which the server refused and for which
\* an ERR event was pushed.
FailureIsReported ==
  Undisturbed(Main) /\ Returned(Main) /\ ~completed[Main] /\ ~timedOut[Main] =>
    \E r \in call[Main] : answer[r] = "failed" /\ gotError[Main] = r /\ r \in errorEvents

\* An undisturbed order call never returns a completed order together with an
\* error, unless its wait timed out.
CompletedHasNoError ==
  Undisturbed(Main) /\ Returned(Main) /\ completed[Main] /\ ~timedOut[Main] =>
    gotError[Main] = None

\* The error of an undisturbed order call agrees with its outcome: its own refusal if
\* it was refused, and none, be it of an earlier call, if it was completed.
ErrorAgrees == FailureIsReported /\ CompletedHasNoError

\* The client that took the listener over from others, which still wait, time out and
\* read in their own calls, is served as if it were alone, as long as no later call
\* takes it over in turn: the response is not taken away before it is used and is that
\* of its own request, completion is the truth, and a completed order that did not
\* time out comes with its own order id.
LastCallerIsServed ==
  \A c \in Clients : disturbed[c] /\ ~crossed[c] /\ m_RequestIDs = call[c] =>
    /\ pc[c] = "read_response" /\ m_Status = "COMPLETED" => m_Response \in call[c]
    /\ Returned(c) /\ completed[c] =>
         /\ \A r \in call[c] : answer[r] = "completed"
         /\ kind[c] = "open" /\ ~timedOut[c] => gotResponse[c] \in call[c]

\* An undisturbed call whose requests are all completed, or one of them refused,
\* returns without the help of a time-out.
Answered(c) ==
  \/ \A r \in call[c] : answer[r] = "completed"
  \/ \E r \in call[c] : answer[r] = "failed"

AnsweredCallReturns ==
  \A c \in Clients :
    (pc[c] = "blocked" /\ Answered(c)) ~> (pc[c] # "blocked" \/ disturbed[c])

-----------------------------------------------------------------------------
(* What the README says of a call, for every call.                            *)

\* README.md: "completed" is about the request of the call, also while
\* historical prices are retrieved asynchronously.
CompletedIsOwnAnswer ==
  Returned(Main) /\ completed[Main] => \A r \in call[Main] : answer[r] = "completed"
=============================================================================
