-------------------------- MODULE LifecycleProofs --------------------------
(***************************************************************************)
(* That no thread of the application uses an object that is not there      *)
(* while the process is asked to exit once, neither before start() is done *)
(* nor while a history is loaded (UsedWhileAlive), that logout waits for   *)
(* the end of the session (LogoutWaits) and that the connection to the     *)
(* database outlives the last statement of stop() (SavedBeforeClose), for  *)
(* every number of symbols, rows, losses of the session and exits.         *)
(*                                                                         *)
(* While things are calm, one save() follows the other: that of stop()     *)
(* ends only after start() is done and with it the worker that loads the   *)
(* data, and only then is the timer of close() set, once (CalmInv).        *)
(***************************************************************************)
EXTENDS Lifecycle, SequenceTheorems, TLAPS

Pointers == {"null", "subscribed", "unsubscribed"}

SessionTypes ==
  session \in [state : {"off", "connecting", "joining", "refused", "connected",
                        "disconnected", "reconnecting", "leaving"},
               connected : BOOLEAN, signal : BOOLEAN, lost : Nat]

NativeTypes ==
  native \in [objects : {"none", "alive", "deleted"}, tables : Pointers, responses : Pointers,
              communicator : {"null", "garbage", "listening", "removed"}]

WorkTypes ==
  /\ pc \in {"open", "init", "login", "status", "loop", "logout", "ended"}
  /\ loader \in {"none", "tables", "prices", "request", "wait", "answered", "subscribe",
                 "loaded", "done"}
  /\ asked \in Nat
  /\ history \in {"none", "running", "done"}
  /\ queue \in BOOLEAN /\ pump \in BOOLEAN /\ runnable \in BOOLEAN /\ inited \in BOOLEAN

StoreTypes ==
  /\ save \in [Saves -> {"idle", "running", "stuck", "done", "leaving", "over"}]
  /\ left \in [Saves -> 0 .. Rows]
  /\ sent \in Seq(Saves)

EndTypes ==
  /\ timers \in Nat /\ exits \in Saves
  /\ db \in [driver : {"none", "sqlite", "server"},
             state : {"off", "up", "waiting", "connecting"}, ended : BOOLEAN]

PastTypes ==
  /\ broken \subseteq {"update", "tables", "prices", "communicator", "history", "snapshot", "init",
                       "event", "logout", "close"}
  /\ faults \subseteq {"query", "connection", "communicator", "early", "worker"}

Types == SessionTypes /\ NativeTypes /\ WorkTypes /\ StoreTypes /\ EndTypes /\ PastTypes

\* Each save() has one statement under way, until it is done or stuck; that of start
\* begins when the worker is done, those of stop() when they are asked for.
SaveInv ==
  /\ \A k \in DOMAIN sent : save[sent[k]] = "running"
  /\ \A j, k \in DOMAIN sent : sent[j] = sent[k] => j = k
  /\ \A i \in Saves : save[i] = "running" => left[i] # 0
  /\ \A i \in Saves : i > exits => save[i] = "idle"
  /\ save[0] # "leaving"
  /\ save[0] # "idle" => loader = "done"

\* Before the login is over nothing else runs.
BootInv ==
  /\ pc \in {"open", "init", "login", "status"} =>
       loader = "none" /\ history = "none" /\ exits = 0 /\ timers = 0 /\ ~pump
  /\ pc \in {"open", "init"} => native.objects = "none" /\ session.state = "off"
  /\ pc \in {"login", "status"} => native.objects = "alive"
  /\ native.objects = "none" => pc \in {"open", "init", "ended"}

\* A session that was not lost is connected until it is told to leave.
SessionInv ==
  session.lost = 0 =>
    /\ session.state # "reconnecting"
    /\ session.connected => session.state \in {"connected", "leaving"}
    /\ pc \in {"status", "loop", "logout"} =>
         /\ session.state \in {"connected", "leaving", "disconnected"}
         /\ session.signal => session.state = "disconnected"

Calm == exits <= 1 /\ faults \cap {"early", "worker", "communicator"} = {}

\* stop() has come to its end.
Stopped == \E i \in Saves \ {0} : save[i] = "over"

CalmInv ==
  /\ broken = {}
  /\ pc \in {"loop", "logout"} /\ native.objects = "deleted" => Stopped
  /\ timers > 0 => timers = 1 /\ native.objects = "alive" /\ Stopped
  /\ (\E i \in Saves \ {0} : save[i] \in {"leaving", "over"}) => save[0] = "over"
  /\ "subscribed" \in {native.tables, native.responses} \/ queue => native.objects = "alive"
  /\ loader \notin {"none", "done"} =>
       pc = "loop" /\ native.objects = "alive" /\ native.communicator = "listening"
  /\ loader \in {"loaded", "done"} /\ native.objects = "alive" => native.tables # "null"
  /\ pc \in {"loop", "logout"} => native.communicator \in {"listening", "null"} /\ loader # "none"
  /\ history = "running" => native.objects = "alive"

IInv == Types /\ SaveInv /\ BootInv /\ SessionInv /\ (Calm => CalmInv)

USE DriversAssumption, BoundAssumption

-----------------------------------------------------------------------------
(* Sequences of statements *)

\* RemoveAt takes one element out and keeps the others in order.
LEMMA RemoveAtProperties ==
  ASSUME NEW S, NEW s \in Seq(S), NEW n \in 1 .. Len(s)
  PROVE  /\ RemoveAt(s, n) \in Seq(S)
         /\ Len(RemoveAt(s, n)) = Len(s) - 1
         /\ \A m \in 1 .. Len(s) - 1 :
              RemoveAt(s, n)[m] = IF m < n THEN s[m] ELSE s[m + 1]
<1> DEFINE a == SubSeq(s, 1, n - 1)
           b == SubSeq(s, n + 1, Len(s))
<1>0. Len(s) \in Nat /\ n \in Nat
  OBVIOUS
<1>1. /\ a \in Seq(S) /\ Len(a) = n - 1
      /\ \A i \in 1 .. n - 1 : a[i] = s[i]
  <2>1. \A i \in 1 .. n - 1 : s[i] \in S
    OBVIOUS
  <2> QED BY <1>0, <2>1, SubSeqProperties
<1>2. /\ b \in Seq(S) /\ Len(b) = Len(s) - n
      /\ \A i \in 1 .. Len(s) - n : b[i] = s[n + i]
  <2>1. \A i \in n + 1 .. Len(s) : s[i] \in S
    OBVIOUS
  <2>2. /\ b \in Seq(S)
        /\ Len(b) = IF n + 1 <= Len(s) THEN Len(s) - (n + 1) + 1 ELSE 0
        /\ \A i \in 1 .. Len(s) - (n + 1) + 1 : b[i] = s[n + 1 + i - 1]
    BY <1>0, <2>1, SubSeqProperties
  <2> QED BY <1>0, <2>2
<1>3. /\ a \o b \in Seq(S) /\ Len(a \o b) = Len(a) + Len(b)
      /\ \A i \in 1 .. Len(a) + Len(b) :
           (a \o b)[i] = IF i <= Len(a) THEN a[i] ELSE b[i - Len(a)]
  <2> HIDE DEF a, b
  <2> QED BY <1>1, <1>2, ConcatProperties
<1>4. RemoveAt(s, n) = a \o b
  BY DEF RemoveAt
<1>5. ASSUME NEW m \in 1 .. Len(s) - 1
      PROVE  (a \o b)[m] = IF m < n THEN s[m] ELSE s[m + 1]
  <2> HIDE DEF a, b
  <2>1. CASE m < n
    BY <1>0, <1>1, <1>2, <1>3, <2>1
  <2>2. CASE ~(m < n)
    <3>1. (a \o b)[m] = b[m - (n - 1)]
      BY <1>0, <1>1, <1>2, <1>3, <2>2
    <3>2. b[m - (n - 1)] = s[n + (m - (n - 1))]
      BY <1>0, <1>2, <2>2
    <3>3. n + (m - (n - 1)) = m + 1
      BY <1>0
    <3> QED BY <2>2, <3>1, <3>2, <3>3
  <2> QED BY <2>1, <2>2
<1>6. Len(a) + Len(b) = Len(s) - 1
  <2> HIDE DEF a, b
  <2> QED BY <1>0, <1>1, <1>2
<1>7. Len(a \o b) = Len(s) - 1
  <2> HIDE DEF a, b
  <2> QED BY <1>3, <1>6
<1> HIDE DEF a, b
<1> QED BY <1>3, <1>4, <1>5, <1>7

-----------------------------------------------------------------------------
(* Initially *)

LEMMA InitIInv == Init => IInv
<1> SUFFICES ASSUME Init PROVE IInv
  OBVIOUS
<1>1. Types
  BY DEF Init, Types, SessionTypes, NativeTypes, WorkTypes, StoreTypes, EndTypes, PastTypes, Pointers, Saves
<1>2. SaveInv
  BY DEF Init, SaveInv, Saves
<1>3. BootInv /\ SessionInv
  BY DEF Init, BootInv, SessionInv
<1>4. CalmInv
  BY DEF Init, CalmInv, Saves
<1> QED
  BY <1>1, <1>2, <1>3, <1>4 DEF IInv

-----------------------------------------------------------------------------
(* Types *)

LEMMA ServerTypes ==
  ASSUME Types, Server
  PROVE  Types'
<1> USE DEF Server, SessionRequested, Keeps, onLoginFailed, Connected, Disconnected, Disconnecting,
            SessionLost, Update, onSessionStatusChanged
<1>1. SessionTypes'
  <2>1. CASE SessionRequested \/ Disconnecting
    BY <2>1 DEF Types, SessionTypes
  <2>2. CASE Connected
    BY <2>2 DEF Types, SessionTypes
  <2>4. CASE Disconnected
    BY <2>4 DEF Types, SessionTypes
  <2>3. CASE SessionLost
    <3>1. session' = [session EXCEPT !.state = "reconnecting", !.lost = session.lost + 1]
      BY <2>3
    <3>2. session.lost + 1 \in Nat
      BY DEF Types, SessionTypes
    <3> QED
      BY <3>1, <3>2, Zenon DEF Types, SessionTypes
  <2>5. CASE Update
    BY <2>5 DEF Types, SessionTypes
  <2> QED
    BY <2>1, <2>2, <2>3, <2>4, <2>5
<1>2. NativeTypes'
  BY DEF Types, NativeTypes
<1>3. WorkTypes'
  <2>1. UNCHANGED <<pc, loader, asked, history, pump, runnable, inited>> /\ queue' = TRUE
    BY DEF works
  <2> QED
    BY <2>1 DEF Types, WorkTypes
<1>4. StoreTypes' /\ EndTypes'
  BY DEF Types, StoreTypes, EndTypes, store, ends
<1>5. PastTypes'
  BY DEF Types, PastTypes, Use
<1> QED
  BY <1>1, <1>2, <1>3, <1>4, <1>5 DEF Types

LEMMA BootNative ==
  ASSUME Types, Boot
  PROVE  NativeTypes'
<1>1. CASE InitFails
  BY <1>1 DEF InitFails, Types, NativeTypes
<1>2. CASE InitApi
  BY <1>2 DEF InitApi, Types, NativeTypes
<1>3. CASE LoginFails
  BY <1>3 DEF LoginFails, release, Released, Types, NativeTypes, Pointers
<1>4. CASE LoginEnds
  <2>1. \A status \in Statuses, ready \in BOOLEAN :
          addCommunicatorListener(status, ready) \in {native.communicator, "listening", "removed"}
    BY DEF addCommunicatorListener
  <2> QED
    BY <1>4, <2>1 DEF LoginEnds, Types, NativeTypes, Pointers
<1>5. CASE OpenNothing \/ OpenSqlite \/ OpenMysql \/ OpenPgsql \/ LoginSucceeds
  <2>1. UNCHANGED native
    BY <1>5 DEF OpenNothing, OpenSqlite, OpenMysql, OpenPgsql, Opens, LoginSucceeds, works
  <2> QED
    BY <2>1 DEF Types, NativeTypes
<1> QED
  BY <1>1, <1>2, <1>3, <1>4, <1>5 DEF Boot, init, login

LEMMA BootTypes ==
  ASSUME Types, Boot
  PROVE  Types'
<1> USE DEF Boot, init, login, OpenNothing, OpenSqlite, OpenMysql, OpenPgsql, Opens, InitFails, InitApi,
            LoginFails, release, clearData, LoginSucceeds, LoginEnds, loadDataAsync
<1>1. SessionTypes'
  BY DEF Types, SessionTypes
<1>2. NativeTypes'
  BY BootNative
<1>3. WorkTypes'
  BY DEF Types, WorkTypes, works, script
<1>4. StoreTypes'
  <2>1. UNCHANGED <<save, left, sent>>
    BY DEF store
  <2> QED
    BY <2>1 DEF Types, StoreTypes
<1>5. EndTypes'
  BY DEF Types, EndTypes, ends, store
<1>6. PastTypes'
  BY DEF Types, PastTypes
<1> QED
  BY <1>1, <1>2, <1>3, <1>4, <1>5, <1>6 DEF Types

LEMMA WorkerTypes ==
  ASSUME Types, Worker \/ HistoryBegins
  PROVE  Types'
<1> USE DEF Worker, LoadDataWorker, LoadTables, RenderLivePrices, RequestPrices, PricesAnswered, NextPrices,
            SubscribeTables, HistoryEnds, HistoryBegins, Use
<1>1. SessionTypes'
  BY DEF Types, SessionTypes
<1>2. NativeTypes'
  BY DEF Types, NativeTypes, Pointers
<1>3. WorkTypes'
  BY DEF Types, WorkTypes, script
<1>4. StoreTypes' /\ EndTypes'
  BY DEF Types, StoreTypes, EndTypes, store, ends
<1>5. PastTypes'
  BY DEF Types, PastTypes
<1> QED
  BY <1>1, <1>2, <1>3, <1>4, <1>5 DEF Types

LEMMA SaveBeginsTypes ==
  ASSUME Types, NEW i \in Saves, SaveBegins(i)
  PROVE  StoreTypes'
<1> USE DEF Types, StoreTypes
<1>1. CASE db.driver = "none" \/ Unreachable
  BY <1>1 DEF SaveBegins
<1>2. CASE ~(db.driver = "none" \/ Unreachable)
  <2>1. Append(sent, i) \in Seq(Saves)
    OBVIOUS
  <2>2. 1 .. Rows \subseteq 0 .. Rows
    OBVIOUS
  <2> QED
    BY <1>2, <2>1, <2>2 DEF SaveBegins
<1> QED
  BY <1>1, <1>2

LEMMA DatabaseTypes ==
  ASSUME Types, SaveInv, Database \/ StatementFails \/ ConnectionBreaks \/ ReconnectFails
  PROVE  Types'
<1> USE DEF Database, StorageEnds, Reconnects, ReconnectTimer, StatementFails, ConnectionBreaks,
            ReconnectFails, AllFail
<1>1. SessionTypes' /\ NativeTypes'
  BY DEF Types, SessionTypes, NativeTypes, StatementSettled
<1>2. WorkTypes'
  BY DEF Types, WorkTypes, works, script, StatementSettled
<1>3. PastTypes'
  BY DEF Types, PastTypes, StatementSettled
<1>4. EndTypes'
  BY DEF Types, EndTypes, ends, store, StatementSettled
<1>5. StoreTypes'
  <2>1. CASE StatementSettled
    <3>1. PICK k \in DOMAIN sent :
            LET i == sent[k]
                last == left[i] = 1 \/ (Unreachable /\ Settles)
            IN /\ save' = [save EXCEPT ![i] = IF last THEN "done" ELSE IF Unreachable THEN "stuck" ELSE @]
               /\ left' = [left EXCEPT ![i] = IF last THEN 0 ELSE @ - 1]
               /\ sent' = IF last \/ Unreachable THEN RemoveAt(sent, k) ELSE Append(RemoveAt(sent, k), i)
      BY <2>1 DEF StatementSettled
    <3>2. sent \in Seq(Saves) /\ k \in 1 .. Len(sent) /\ sent[k] \in Saves
      BY DEF Types, StoreTypes
    <3>3. RemoveAt(sent, k) \in Seq(Saves)
      BY <3>2, RemoveAtProperties
    <3>4. Append(RemoveAt(sent, k), sent[k]) \in Seq(Saves)
      BY <3>2, <3>3, AppendProperties
    <3>5. sent' \in Seq(Saves)
      BY <3>1, <3>3, <3>4
    <3>6. left' \in [Saves -> 0 .. Rows]
      <4>1. left[sent[k]] \in 0 .. Rows /\ left[sent[k]] # 0
        BY <3>2 DEF Types, StoreTypes, SaveInv
      <4> QED
        BY <3>1, <3>2, <4>1 DEF Types, StoreTypes
    <3>7. save' \in [Saves -> {"idle", "running", "stuck", "done", "leaving", "over"}]
      BY <3>1, <3>2 DEF Types, StoreTypes
    <3> QED
      BY <3>5, <3>6, <3>7 DEF StoreTypes
  <2>2. CASE ~StatementSettled
    <3>1. sent' = sent \/ (sent # <<>> /\ sent' = Tail(sent)) \/ sent' = <<>>
      BY <2>2 DEF store
    <3>3. sent \in Seq(Saves) /\ <<>> \in Seq(Saves)
      BY DEF Types, StoreTypes
    <3>5. sent # <<>> => Tail(sent) \in Seq(Saves)
      BY <3>3, HeadTailProperties
    <3>4. sent' \in Seq(Saves)
      BY <3>1, <3>3, <3>5
    <3>2. save' \in [Saves -> {"idle", "running", "stuck", "done", "leaving", "over"}]
      BY <2>2 DEF Types, StoreTypes
    <3> QED
      BY <2>2, <3>2, <3>4 DEF Types, StoreTypes, store
  <2> QED
    BY <2>1, <2>2
<1> QED
  BY <1>1, <1>2, <1>3, <1>4, <1>5 DEF Types

LEMMA TurnTypes ==
  ASSUME Types, Turns \/ PumpTurn \/ Exit
  PROVE  Types'
<1> USE DEF Turns, Stop, StrategyInit, StopDisconnected, StopConnected, LogoutReturns, Close, release, clearData, ProcessEnds,
            PumpTurn, Leave, CloseStorage
<1>1. SessionTypes'
  BY DEF Types, SessionTypes, DataLoaded, Exit
<1>2. NativeTypes'
  <2>1. CASE \E i \in Saves : StopConnected(i)
    BY <2>1 DEF Types, NativeTypes, Pointers, unsubscribeEvents, removeCommunicatorListener
  <2>2. CASE Close
    BY <2>2 DEF Types, NativeTypes, Pointers, Released
  <2>3. CASE ~(\E i \in Saves : StopConnected(i)) /\ ~Close
    BY <2>3 DEF Types, NativeTypes, DataLoaded, Exit
  <2> QED
    BY <2>1, <2>2, <2>3
<1>3. WorkTypes'
  <2>1. pc' \in {pc, "logout", "loop", "ended"} /\ (loader' = loader \/ loader' = "done")
        /\ UNCHANGED <<asked, history>>
    BY DEF works, script, DataLoaded, Exit
  <2>2. /\ queue' = queue \/ queue' = FALSE
        /\ pump' = pump \/ pump' = runnable
        /\ runnable' = runnable \/ runnable' = FALSE
        /\ inited' = inited \/ inited' = TRUE
    BY DEF works, script, DataLoaded, Exit
  <2>3. queue' \in BOOLEAN /\ pump' \in BOOLEAN /\ runnable' \in BOOLEAN /\ inited' \in BOOLEAN
    BY <2>2 DEF Types, WorkTypes
  <2> QED
    BY <2>1, <2>3 DEF Types, WorkTypes
<1>4. EndTypes'
  <2>1. timers' = timers \/ timers' = timers + 1 \/ (timers > 0 /\ timers' = timers - 1)
    BY DEF ends, DataLoaded, Exit
  <2>2. exits' = exits \/ (exits' = exits + 1 /\ exits < MaxExits)
    BY DEF ends, DataLoaded, Exit
  <2>3. db' = db \/ CloseStorage
    BY DEF store, DataLoaded, Exit
  <2>4. timers' \in Nat /\ exits' \in Saves
    BY <2>1, <2>2 DEF Types, EndTypes, Saves
  <2> QED
    BY <2>3, <2>4 DEF Types, EndTypes
<1>5. PastTypes'
  BY DEF Types, PastTypes, Use, Early, DataLoaded, Exit
<1>6. StoreTypes'
  <2>1. CASE DataLoaded \/ Exit
    <3>1. 0 \in Saves /\ (Exit => exits + 1 \in Saves)
      BY DEF Types, EndTypes, Exit, Saves
    <3> QED
      BY <2>1, <3>1, SaveBeginsTypes DEF DataLoaded, Exit
  <2>2. CASE ~(DataLoaded \/ Exit)
    BY <2>2 DEF Types, StoreTypes, store, Saves
  <2> QED
    BY <2>1, <2>2
<1> QED
  BY <1>1, <1>2, <1>3, <1>4, <1>5, <1>6 DEF Types

-----------------------------------------------------------------------------
(* The calls of save() *)

\* The conjuncts of SaveInv that are about the statements under way.
Sending ==
  /\ \A k \in DOMAIN sent : save[sent[k]] = "running"
  /\ \A j, k \in DOMAIN sent : sent[j] = sent[k] => j = k
  /\ \A i \in Saves : save[i] = "running" => left[i] # 0

\* A save() that begins has no statement under way yet.
LEMMA SaveBeginsSending ==
  ASSUME Types, Sending, NEW i \in Saves, save[i] = "idle", SaveBegins(i)
  PROVE  /\ Sending'
         /\ save'[i] \in {"done", "stuck", "running"}
         /\ \A j \in Saves \ {i} : save'[j] = save[j]
<1>1. sent \in Seq(Saves) /\ DOMAIN sent = 1 .. Len(sent) /\ Len(sent) \in Nat
  BY DEF Types, StoreTypes
<1>2. \A k \in DOMAIN sent : sent[k] \in Saves /\ sent[k] # i
  BY <1>1 DEF Sending
<1>3. CASE db.driver = "none" \/ Unreachable
  <2>1. save'[i] \in {"done", "stuck"} /\ (\A j \in Saves \ {i} : save'[j] = save[j])
        /\ UNCHANGED <<left, sent>>
    BY <1>3 DEF SaveBegins, Types, StoreTypes
  <2> QED
    BY <1>2, <2>1 DEF Sending
<1>4. CASE ~(db.driver = "none" \/ Unreachable)
  <2>1. save' = [save EXCEPT ![i] = "running"] /\ sent' = Append(sent, i)
        /\ \E n \in 1 .. Rows : left' = [left EXCEPT ![i] = n]
    BY <1>4 DEF SaveBegins
  <2>2. /\ \A j \in Saves : save'[j] = IF j = i THEN "running" ELSE save[j]
        /\ left'[i] # 0 /\ \A j \in Saves \ {i} : left'[j] = left[j]
    BY <2>1 DEF Types, StoreTypes
  <2>3. /\ DOMAIN sent' = 1 .. Len(sent) + 1 /\ sent'[Len(sent) + 1] = i
        /\ \A k \in 1 .. Len(sent) : sent'[k] = sent[k]
    BY <1>1, <2>1, AppendProperties
  <2>4. \A k \in DOMAIN sent' : k = Len(sent) + 1 \/ k \in 1 .. Len(sent)
    BY <1>1, <2>3
  <2>5. \A k \in DOMAIN sent' : save'[sent'[k]] = "running"
    BY <1>1, <1>2, <2>2, <2>3, <2>4 DEF Sending
  <2>6. \A j, k \in DOMAIN sent' : sent'[j] = sent'[k] => j = k
    BY <1>1, <1>2, <2>3, <2>4 DEF Sending
  <2> QED
    BY <2>2, <2>5, <2>6 DEF Sending
<1> QED
  BY <1>3, <1>4

\* A statement is settled: it is the only one of its save().
LEMMA SettledSending ==
  ASSUME Types, Sending, StatementSettled
  PROVE  /\ Sending'
         /\ \A j \in Saves : save'[j] = save[j] \/ (save[j] = "running" /\ save'[j] \in {"done", "stuck"})
<1>1. PICK k \in DOMAIN sent :
        LET i == sent[k]
            last == left[i] = 1 \/ (Unreachable /\ Settles)
        IN /\ save' = [save EXCEPT ![i] = IF last THEN "done" ELSE IF Unreachable THEN "stuck" ELSE @]
           /\ left' = [left EXCEPT ![i] = IF last THEN 0 ELSE @ - 1]
           /\ sent' = IF last \/ Unreachable THEN RemoveAt(sent, k) ELSE Append(RemoveAt(sent, k), i)
  BY DEF StatementSettled
<1> DEFINE i == sent[k]
           last == left[i] = 1 \/ (Unreachable /\ Settles)
           r == RemoveAt(sent, k)
<1>2. sent \in Seq(Saves) /\ k \in 1 .. Len(sent) /\ i \in Saves /\ Len(sent) \in Nat
      /\ DOMAIN sent = 1 .. Len(sent)
  BY DEF Types, StoreTypes
<1>3. save[i] = "running" /\ left[i] # 0 /\ left[i] \in Nat
  BY <1>2 DEF Sending, Types, StoreTypes
<1>4. r \in Seq(Saves) /\ Len(r) = Len(sent) - 1 /\ DOMAIN r = 1 .. Len(sent) - 1
      /\ \A m \in 1 .. Len(sent) - 1 : r[m] = IF m < k THEN sent[m] ELSE sent[m + 1]
  <2>1. r \in Seq(Saves) /\ Len(r) = Len(sent) - 1
        /\ \A m \in 1 .. Len(sent) - 1 : r[m] = IF m < k THEN sent[m] ELSE sent[m + 1]
    BY <1>2, RemoveAtProperties
  <2> HIDE DEF r
  <2> QED
    BY <2>1
<1>5. /\ \A j \in Saves \ {i} : save'[j] = save[j] /\ left'[j] = left[j]
      /\ save'[i] = IF last THEN "done" ELSE IF Unreachable THEN "stuck" ELSE "running"
      /\ left'[i] = IF last THEN 0 ELSE left[i] - 1
  <2>1. save' = [save EXCEPT ![i] = IF last THEN "done" ELSE IF Unreachable THEN "stuck" ELSE @]
        /\ left' = [left EXCEPT ![i] = IF last THEN 0 ELSE @ - 1]
    BY <1>1
  <2>2. i \in DOMAIN save /\ i \in DOMAIN left /\ Saves = DOMAIN save /\ Saves = DOMAIN left
    BY <1>2 DEF Types, StoreTypes
  <2> HIDE DEF i, last
  <2> QED
    BY <1>3, <2>1, <2>2
<1>6. sent' = IF last \/ Unreachable THEN r ELSE Append(r, i)
  BY <1>1
<1>7. left[i] = 1 => last
  OBVIOUS
<1> HIDE DEF i, last, r
<1>8. \A m \in DOMAIN r : r[m] # i /\ r[m] \in Saves /\ save[r[m]] = "running"
  <2>1. ASSUME NEW m \in DOMAIN r PROVE \E n \in DOMAIN sent : n # k /\ r[m] = sent[n]
    <3>1. m \in 1 .. Len(sent) /\ m + 1 \in 1 .. Len(sent)
      BY <1>2, <1>4
    <3> QED
      BY <1>2, <1>4, <3>1
  <2>2. \A n \in DOMAIN sent : n # k => sent[n] # i
    BY <1>2 DEF Sending, i
  <2> QED
    BY <1>2, <2>1, <2>2 DEF Sending
<1>9. \A m, n \in DOMAIN r : r[m] = r[n] => m = n
  <2> SUFFICES ASSUME NEW m \in DOMAIN r, NEW n \in DOMAIN r, r[m] = r[n] PROVE m = n
    OBVIOUS
  <2> DEFINE mm == IF m < k THEN m ELSE m + 1
             nn == IF n < k THEN n ELSE n + 1
  <2>1. mm \in DOMAIN sent /\ nn \in DOMAIN sent /\ sent[mm] = sent[nn] /\ (mm = nn => m = n)
    BY <1>2, <1>4
  <2> QED
    BY <2>1 DEF Sending
<1>10. CASE last \/ Unreachable
  <2>1. sent' = r /\ save'[i] # "running"
    BY <1>5, <1>6, <1>10
  <2>2. \A m \in DOMAIN sent' : save'[sent'[m]] = "running"
    BY <1>5, <1>8, <2>1
  <2>3. \A j \in Saves : save'[j] = "running" => left'[j] # 0
    BY <1>5, <2>1 DEF Sending
  <2>4. save'[i] \in {"done", "stuck"}
    BY <1>5, <1>10
  <2>5. Sending'
    BY <1>9, <2>1, <2>2, <2>3 DEF Sending
  <2> QED
    BY <1>3, <1>5, <2>4, <2>5
<1>11. CASE ~(last \/ Unreachable)
  <2>1. sent' = Append(r, i) /\ save'[i] = "running" /\ left'[i] # 0
    BY <1>3, <1>5, <1>6, <1>7, <1>11
  <2>2. DOMAIN sent' = 1 .. Len(sent) /\ sent'[Len(sent)] = i /\ \A m \in 1 .. Len(sent) - 1 : sent'[m] = r[m]
    <3> DEFINE a == Append(r, i)
    <3>0. /\ a \in Seq(Saves) /\ Len(a) = Len(r) + 1
          /\ \A m \in 1 .. Len(r) : a[m] = r[m]
          /\ a[Len(r) + 1] = i
      <4>1. i \in Saves /\ r \in Seq(Saves)
        BY <1>2, <1>4
      <4> QED
        BY <4>1, AppendProperties
    <3> HIDE DEF a
    <3>1. /\ sent' \in Seq(Saves) /\ Len(sent') = Len(r) + 1
          /\ \A m \in 1 .. Len(r) : sent'[m] = r[m]
          /\ sent'[Len(r) + 1] = i
      BY <2>1, <3>0 DEF a
    <3>2. Len(sent') = Len(sent) /\ Len(r) + 1 = Len(sent)
      BY <1>2, <1>4, <3>1
    <3>3. DOMAIN sent' = 1 .. Len(sent')
      BY <3>1
    <3>4. Len(r) = Len(sent) - 1
      BY <1>4
    <3> QED
      BY <3>1, <3>2, <3>3, <3>4
  <2>3. \A m \in DOMAIN sent' : m = Len(sent) \/ m \in DOMAIN r
    BY <1>2, <1>4, <2>2
  <2>4. \A m \in DOMAIN sent' : save'[sent'[m]] = "running"
    BY <1>4, <1>5, <1>8, <2>1, <2>2, <2>3
  <2>5. \A m, n \in DOMAIN sent' : sent'[m] = sent'[n] => m = n
    BY <1>4, <1>8, <1>9, <2>2, <2>3
  <2>6. \A j \in Saves : save'[j] = "running" => left'[j] # 0
    BY <1>5, <2>1 DEF Sending
  <2> QED
    BY <1>3, <1>5, <2>1, <2>4, <2>5, <2>6 DEF Sending
<1> QED
  BY <1>10, <1>11

\* A statement fails, or all of them: their save() is stuck.
LEMMA FailedSending ==
  ASSUME Types, Sending, StatementFails \/ ConnectionBreaks \/ ReconnectFails
  PROVE  /\ Sending'
         /\ \A j \in Saves : save'[j] = save[j] \/ (save[j] = "running" /\ save'[j] = "stuck")
<1>1. sent \in Seq(Saves) /\ Len(sent) \in Nat /\ DOMAIN sent = 1 .. Len(sent)
  BY DEF Types, StoreTypes
<1>2. CASE StatementFails
  <2>1. sent # <<>> /\ sent' = Tail(sent) /\ left' = left /\ save' = [save EXCEPT ![sent[1]] = "stuck"]
    BY <1>2 DEF StatementFails
  <2>2. 1 \in DOMAIN sent /\ sent[1] \in Saves
    BY <1>1, <2>1
  <2>3. \A j \in Saves : save'[j] = IF j = sent[1] THEN "stuck" ELSE save[j]
    BY <2>1 DEF Types, StoreTypes
  <2>4. Len(sent') = Len(sent) - 1 /\ DOMAIN sent' = 1 .. Len(sent) - 1
        /\ \A m \in 1 .. Len(sent) - 1 : sent'[m] = sent[m + 1]
    <3>1. sent' \in Seq(Saves) /\ Len(sent') = Len(sent) - 1
          /\ \A m \in 1 .. Len(sent') : sent'[m] = sent[m + 1]
      BY <1>1, <2>1, HeadTailProperties
    <3> QED
      BY <3>1
  <2>5. \A m \in DOMAIN sent' : m + 1 \in DOMAIN sent /\ m + 1 # 1 /\ sent'[m] = sent[m + 1]
    BY <1>1, <2>4
  <2>6. \A m \in DOMAIN sent' : sent'[m] # sent[1] /\ sent'[m] \in Saves
    BY <1>1, <2>2, <2>5 DEF Sending
  <2>7. \A m \in DOMAIN sent' : save'[sent'[m]] = "running"
    BY <2>3, <2>5, <2>6 DEF Sending
  <2>8. \A m, n \in DOMAIN sent' : sent'[m] = sent'[n] => m = n
    <3> SUFFICES ASSUME NEW m \in DOMAIN sent', NEW n \in DOMAIN sent', sent'[m] = sent'[n] PROVE m = n
      OBVIOUS
    <3>1. m + 1 = n + 1
      BY <2>5 DEF Sending
    <3> QED
      BY <2>4, <3>1
  <2> QED
    BY <2>1, <2>2, <2>3, <2>7, <2>8 DEF Sending
<1>3. CASE ConnectionBreaks \/ ReconnectFails
  <2>1. sent' = <<>> /\ left' = left
        /\ save' = [i \in Saves |-> IF \E k \in DOMAIN sent : sent[k] = i THEN "stuck" ELSE save[i]]
    BY <1>3 DEF ConnectionBreaks, ReconnectFails, AllFail
  <2> QED
    BY <2>1 DEF Sending
<1> QED
  BY <1>2, <1>3

\* The steps that leave every save() alone; the worker runs only before the first.
LEMMA IdleSaves ==
  ASSUME IInv, Server \/ Boot \/ Worker \/ HistoryBegins \/ PumpTurn \/ Close \/ ProcessEnds
               \/ StorageEnds \/ Reconnects \/ ReconnectTimer
  PROVE  SaveInv'
<1>1. CASE Server
  <2>1. UNCHANGED <<save, left, sent, exits, loader>>
    BY <1>1 DEF Server, SessionRequested, Keeps, onLoginFailed, Connected, Disconnected, Disconnecting,
                SessionLost, Update, onSessionStatusChanged, works, store, ends
  <2> QED
    BY <2>1 DEF IInv, SaveInv
<1>2. CASE Boot
  <2>1. UNCHANGED <<save, left, sent, exits>> /\ save[0] = "idle"
    BY <1>2 DEF Boot, init, login, OpenNothing, OpenSqlite, OpenMysql, OpenPgsql, Opens, InitFails, InitApi,
                LoginFails, release, clearData, LoginSucceeds, LoginEnds, loadDataAsync, store, ends, IInv, SaveInv, BootInv
  <2> QED
    BY <2>1 DEF IInv, SaveInv
<1>3. CASE Worker \/ HistoryBegins
  <2>1. UNCHANGED <<save, left, sent, exits>> /\ (loader # "done" \/ loader' = loader)
    BY <1>3 DEF Worker, LoadDataWorker, LoadTables, RenderLivePrices, RequestPrices, PricesAnswered, NextPrices,
                SubscribeTables, HistoryEnds, HistoryBegins, store, ends
  <2> QED
    BY <2>1 DEF IInv, SaveInv
<1>4. CASE PumpTurn \/ Close \/ ProcessEnds \/ StorageEnds \/ Reconnects \/ ReconnectTimer
  <2>1. UNCHANGED <<save, left, sent, exits, loader>>
    BY <1>4 DEF PumpTurn, Close, release, clearData, ProcessEnds, StorageEnds, Reconnects, ReconnectTimer, works, store, ends
  <2> QED
    BY <2>1 DEF IInv, SaveInv
<1> QED
  BY <1>1, <1>2, <1>3, <1>4

LEMMA BusySaves ==
  ASSUME IInv, StatementSettled \/ StatementFails \/ ConnectionBreaks \/ ReconnectFails
  PROVE  SaveInv'
<1>1. UNCHANGED <<exits, loader>>
  BY DEF StatementSettled, StatementFails, ConnectionBreaks, ReconnectFails, ends, works
<1>2. Types /\ Sending
  BY DEF IInv, SaveInv, Sending
<1>3. Sending' /\ \A j \in Saves : save'[j] = save[j] \/ (save[j] = "running" /\ save'[j] \in {"done", "stuck"})
  BY <1>2, SettledSending, FailedSending
<1>4. 0 \in Saves
  BY DEF Saves, IInv, Types, EndTypes
<1> QED
  BY <1>1, <1>3, <1>4 DEF IInv, SaveInv, Sending

LEMMA TurnSaves ==
  ASSUME IInv, DataLoaded \/ Exit \/ StrategyInit \/ Stop
  PROVE  SaveInv'
<1>1. Types /\ Sending /\ 0 \in Saves /\ exits \in Nat /\ \A i \in Saves : i \in Nat
  BY DEF IInv, SaveInv, Sending, Saves, Types, EndTypes
<1>2. CASE DataLoaded
  <2>1. SaveBegins(0) /\ loader' = "done" /\ exits' = exits /\ save[0] = "idle"
    BY <1>2 DEF DataLoaded, ends, IInv, SaveInv
  <2>2. Sending' /\ save'[0] \in {"done", "stuck", "running"} /\ \A j \in Saves \ {0} : save'[j] = save[j]
    BY <1>1, <2>1, SaveBeginsSending
  <2>3. ~(0 > exits)
    BY <1>1
  <2> QED
    BY <2>1, <2>2, <2>3 DEF IInv, SaveInv, Sending
<1>3. CASE Exit
  <2>1. SaveBegins(exits + 1) /\ exits' = exits + 1 /\ exits < MaxExits /\ loader' = loader
    BY <1>3 DEF Exit, works
  <2>2. exits + 1 \in Saves /\ exits + 1 > exits /\ exits + 1 # 0
    BY <1>1, <2>1 DEF Saves
  <2>3. save[exits + 1] = "idle"
    BY <2>2 DEF IInv, SaveInv
  <2>4. Sending' /\ \A j \in Saves \ {exits + 1} : save'[j] = save[j]
    BY <1>1, <2>1, <2>2, <2>3, SaveBeginsSending
  <2>5. \A j \in Saves : j > exits + 1 => j > exits /\ j # exits + 1
    BY <1>1
  <2>6. \A j \in Saves : j > exits' => save'[j] = "idle"
    BY <2>1, <2>4, <2>5 DEF IInv, SaveInv
  <2>7. save'[0] = save[0]
    BY <1>1, <2>2, <2>4
  <2> QED
    BY <2>1, <2>4, <2>6, <2>7 DEF IInv, SaveInv, Sending
<1>4. CASE StrategyInit \/ Stop
  <2>1. UNCHANGED <<left, sent, exits, loader>>
        /\ \E i \in Saves : /\ save[i] \in {"done", "leaving"}
                            /\ \/ save' = [save EXCEPT ![i] = "over"]
                               \/ save' = [save EXCEPT ![i] = "leaving"] /\ i # 0
    <3>1. CASE StrategyInit
      BY <1>1, <3>1 DEF StrategyInit, ends, works
    <3>2. CASE Stop
      BY <3>2 DEF Stop, StopDisconnected, StopConnected, LogoutReturns, ends, works
    <3> QED
      BY <1>4, <3>1, <3>2
  <2>2. PICK i \in Saves : /\ save[i] \in {"done", "leaving"}
                           /\ \/ save' = [save EXCEPT ![i] = "over"]
                              \/ save' = [save EXCEPT ![i] = "leaving"] /\ i # 0
    BY <2>1
  <2>3. /\ \A j \in Saves \ {i} : save'[j] = save[j]
        /\ save'[i] \in {"over", "leaving"} /\ (i = 0 => save'[i] = "over")
    BY <2>2 DEF Types, StoreTypes, IInv
  <2>4. \A k \in DOMAIN sent : sent[k] \in Saves /\ sent[k] # i
    BY <1>1, <2>2 DEF Types, StoreTypes, Sending
  <2>5. Sending'
    BY <1>1, <2>1, <2>3, <2>4 DEF Sending
  <2>6. ~(i > exits) /\ (i = 0 => loader = "done")
    BY <2>2 DEF IInv, SaveInv
  <2> QED
    BY <1>1, <2>1, <2>3, <2>5, <2>6 DEF IInv, SaveInv, Sending
<1> QED
  BY <1>2, <1>3, <1>4

-----------------------------------------------------------------------------
(* The login and the session *)

LEMMA BootKept ==
  ASSUME IInv, Next
  PROVE  BootInv'
<1> USE DEF IInv, BootInv
<1>1. CASE Server
  <2>1. UNCHANGED <<pc, native, loader, history, exits, timers, pump>>
        /\ (session' = session \/ session.state # "off")
    BY <1>1 DEF Server, SessionRequested, Keeps, onLoginFailed, Connected, Disconnected, Disconnecting,
                SessionLost, Update, onSessionStatusChanged, works, ends
  <2> QED
    BY <2>1
<1>2. CASE Boot
  <2>1. UNCHANGED <<history, exits, timers>>
    BY <1>2 DEF Boot, init, login, OpenNothing, OpenSqlite, OpenMysql, OpenPgsql, Opens, InitFails, InitApi,
                LoginFails, release, clearData, LoginSucceeds, LoginEnds, loadDataAsync, works, ends
  <2>2. CASE OpenNothing \/ OpenSqlite \/ OpenMysql \/ OpenPgsql
    BY <2>1, <2>2 DEF OpenNothing, OpenSqlite, OpenMysql, OpenPgsql, Opens, works, script
  <2>3. CASE InitFails \/ InitApi
    <3>1. pc = "init" /\ pc' \in {"login", "ended"} /\ UNCHANGED <<loader, pump>>
      BY <2>3 DEF InitFails, InitApi, works, script
    <3>2. native'.objects = "alive"
      BY <2>3 DEF InitFails, InitApi, Types, NativeTypes
    <3> QED
      BY <2>1, <3>1, <3>2
  <2>4. CASE LoginFails
    BY <2>1, <2>4 DEF LoginFails, release, clearData, Released
  <2>5. CASE LoginSucceeds
    BY <2>1, <2>5 DEF LoginSucceeds, works, script
  <2>6. CASE LoginEnds
    BY <2>1, <2>6 DEF LoginEnds, loadDataAsync, Types, NativeTypes
  <2> QED
    BY <1>2, <2>2, <2>3, <2>4, <2>5, <2>6 DEF Boot, init, login
<1>3. CASE Worker
  <2>1. loader # "none" \/ history # "none"
    BY <1>3 DEF Worker, LoadDataWorker, LoadTables, RenderLivePrices, RequestPrices, PricesAnswered, NextPrices,
                SubscribeTables, HistoryEnds
  <2>2. pc' = pc /\ native'.objects = native.objects
    BY <1>3 DEF Worker, LoadDataWorker, LoadTables, RenderLivePrices, RequestPrices, PricesAnswered, NextPrices,
                SubscribeTables, HistoryEnds, Types, NativeTypes
  <2> QED
    BY <2>1, <2>2
<1>4. CASE Database \/ StatementFails \/ ConnectionBreaks \/ ReconnectFails
  <2>1. UNCHANGED <<pc, session, native, loader, history, exits, timers, pump>>
    BY <1>4 DEF Database, StatementSettled, StorageEnds, Reconnects, ReconnectTimer, StatementFails,
                ConnectionBreaks, ReconnectFails, works, script, ends
  <2> QED
    BY <2>1
<1>5. CASE Turns \/ PumpTurn \/ HistoryBegins \/ Exit
  <2>1. pc \in {"loop", "logout"}
    BY <1>5 DEF Turns, Stop, DataLoaded, StrategyInit, StopDisconnected, StopConnected, LogoutReturns,
                Close, release, clearData, ProcessEnds, PumpTurn, HistoryBegins, Exit, Idle
  <2>2. pc' \in {"loop", "logout", "ended"}
    BY <1>5, <2>1 DEF Turns, Stop, DataLoaded, StrategyInit, StopDisconnected, StopConnected,
                LogoutReturns, Close, release, clearData, ProcessEnds, PumpTurn, HistoryBegins, Exit
  <2>3. native'.objects \in {native.objects, "deleted"}
    <3>1. CASE Close
      BY <3>1 DEF Close, release, clearData, Released
    <3>2. CASE \E i \in Saves : StopConnected(i)
      BY <3>2 DEF StopConnected, Leave, Types, NativeTypes
    <3>3. CASE ~Close /\ ~(\E i \in Saves : StopConnected(i))
      BY <1>5, <3>3 DEF Turns, Stop, DataLoaded, StrategyInit, StopDisconnected, LogoutReturns,
                        ProcessEnds, PumpTurn, HistoryBegins, Exit
    <3> QED
      BY <3>1, <3>2, <3>3
  <2> QED
    BY <2>1, <2>2, <2>3
<1> QED
  BY <1>1, <1>2, <1>3, <1>4, <1>5 DEF Next

LEMMA SessionKept ==
  ASSUME IInv, Next
  PROVE  SessionInv'
<1> USE DEF IInv, SessionInv, Types, SessionTypes
<1>1. CASE Server
  <2>1. pc' = pc
    BY <1>1 DEF Server, SessionRequested, Keeps, onLoginFailed, Connected, Disconnected, Disconnecting,
                SessionLost, Update, onSessionStatusChanged
  <2>2. CASE SessionRequested
    BY <2>1, <2>2 DEF SessionRequested, Keeps, onLoginFailed, onSessionStatusChanged
  <2>3. CASE Connected
    BY <2>1, <2>3 DEF Connected, onSessionStatusChanged
  <2>4. CASE Disconnected
    BY <2>1, <2>4 DEF Disconnected, onSessionStatusChanged
  <2>5. CASE Disconnecting
    BY <2>1, <2>5 DEF Disconnecting, Keeps, onSessionStatusChanged
  <2>6. CASE SessionLost
    <3>1. session'.lost = session.lost + 1
      BY <2>6 DEF SessionLost
    <3> QED
      BY <3>1
  <2>7. CASE Update
    BY <2>1, <2>7 DEF Update
  <2> QED
    BY <1>1, <2>2, <2>3, <2>4, <2>5, <2>6, <2>7 DEF Server
<1>2. CASE Boot
  <2>1. CASE OpenNothing \/ OpenSqlite \/ OpenMysql \/ OpenPgsql
    BY <2>1 DEF OpenNothing, OpenSqlite, OpenMysql, OpenPgsql, Opens
  <2>2. CASE InitFails
    BY <2>2 DEF InitFails
  <2>3. CASE InitApi
    BY <2>3 DEF InitApi, BootInv
  <2>4. CASE LoginFails
    BY <2>4 DEF LoginFails, release, clearData
  <2>5. CASE LoginSucceeds
    BY <2>5 DEF LoginSucceeds
  <2>6. CASE LoginEnds
    BY <2>6 DEF LoginEnds, loadDataAsync
  <2> QED
    BY <1>2, <2>1, <2>2, <2>3, <2>4, <2>5, <2>6 DEF Boot, init, login
<1>3. CASE Worker \/ Database \/ StatementFails \/ ConnectionBreaks \/ ReconnectFails \/ HistoryBegins
           \/ Exit \/ PumpTurn \/ DataLoaded \/ StrategyInit \/ Close
  <2>1. UNCHANGED <<pc, session>>
    BY <1>3 DEF Worker, LoadDataWorker, LoadTables, RenderLivePrices, RequestPrices, PricesAnswered, NextPrices,
                SubscribeTables, HistoryEnds, Database, StatementSettled, StorageEnds, Reconnects,
                ReconnectTimer, StatementFails, ConnectionBreaks, ReconnectFails, HistoryBegins, Exit,
                PumpTurn, DataLoaded, StrategyInit, Close, release, clearData
  <2> QED
    BY <2>1
<1>4. CASE Stop
  <2>1. CASE \E i \in Saves : StopDisconnected(i)
    BY <2>1 DEF StopDisconnected
  <2>2. CASE \E i \in Saves : StopConnected(i)
    BY <2>2 DEF StopConnected, Leave
  <2>3. CASE \E i \in Saves : LogoutReturns(i)
    BY <2>3 DEF LogoutReturns
  <2> QED
    BY <1>4, <2>1, <2>2, <2>3 DEF Stop
<1>5. CASE ProcessEnds
  BY <1>5 DEF ProcessEnds
<1> QED
  BY <1>1, <1>2, <1>3, <1>4, <1>5 DEF Next, Turns

-----------------------------------------------------------------------------
(* Calm *)

\* What went wrong is not forgotten, and requests to exit are not taken back.
LEMMA CalmBefore ==
  ASSUME IInv, Next, Calm'
  PROVE  Calm /\ CalmInv
<1>1. exits \in Nat
  BY DEF IInv, Types, EndTypes, Saves
<1>2. faults \subseteq faults' /\ (exits' = exits \/ exits' = exits + 1)
  <2>1. CASE Server
    BY <2>1 DEF Server, SessionRequested, Keeps, onLoginFailed, Connected, Disconnected, Disconnecting,
                SessionLost, Update, onSessionStatusChanged, ends
  <2>2. CASE Boot
    BY <2>2 DEF Boot, init, login, OpenNothing, OpenSqlite, OpenMysql, OpenPgsql, Opens, InitFails, InitApi,
                LoginFails, release, clearData, LoginSucceeds, LoginEnds, loadDataAsync, ends
  <2>3. CASE Worker
    BY <2>3 DEF Worker, LoadDataWorker, LoadTables, RenderLivePrices, RequestPrices, PricesAnswered, NextPrices,
                SubscribeTables, HistoryEnds, ends
  <2>4. CASE Database \/ StatementFails \/ ConnectionBreaks \/ ReconnectFails
    BY <2>4 DEF Database, StatementSettled, StorageEnds, Reconnects, ReconnectTimer, StatementFails,
                ConnectionBreaks, ReconnectFails, AllFail, ends
  <2>5. CASE Turns \/ PumpTurn \/ HistoryBegins \/ Exit
    BY <2>5 DEF Turns, Stop, DataLoaded, StrategyInit, StopDisconnected, StopConnected, LogoutReturns,
                Close, release, clearData, ProcessEnds, PumpTurn, HistoryBegins, Exit, ends
  <2> QED
    BY <2>1, <2>2, <2>3, <2>4, <2>5 DEF Next
<1>3. Calm
  BY <1>1, <1>2 DEF Calm
<1> QED
  BY <1>3 DEF IInv

\* The listener of the session puts events into a queue that is there.
LEMMA ServerCalm ==
  ASSUME IInv, CalmInv, Server
  PROVE  CalmInv'
<1>1. UNCHANGED <<pc, native, loader, history, timers, save>> /\ native.objects = "alive" /\ broken' = {}
  <2>1. CASE Update
    BY <2>1 DEF Update, Use, CalmInv, works, store, ends
  <2>2. CASE ~Update
    BY <2>2 DEF Server, SessionRequested, Keeps, onLoginFailed, Connected, Disconnected, Disconnecting,
                SessionLost, onSessionStatusChanged, Listening, CalmInv, works, store, ends
  <2> QED
    BY <2>1, <2>2
<1> QED
  BY <1>1 DEF CalmInv, Stopped

LEMMA BootCalm ==
  ASSUME IInv, CalmInv, Calm', Boot
  PROVE  CalmInv'
<1>1. UNCHANGED <<history, timers, save, broken>>
  BY DEF Boot, init, login, OpenNothing, OpenSqlite, OpenMysql, OpenPgsql, Opens, InitFails, InitApi,
         LoginFails, release, clearData, LoginSucceeds, LoginEnds, loadDataAsync, works, store, ends
<1>2. loader = "none" /\ history = "none" /\ timers = 0
  BY DEF Boot, init, login, OpenNothing, OpenSqlite, OpenMysql, OpenPgsql, Opens, InitFails, InitApi,
         LoginFails, release, clearData, LoginSucceeds, LoginEnds, loadDataAsync, IInv, BootInv
<1> USE DEF CalmInv
<1>3. CASE OpenNothing \/ OpenSqlite \/ OpenMysql \/ OpenPgsql
  <2>1. UNCHANGED <<native, queue, loader>> /\ pc' \in {"init", "ended"}
    BY <1>3 DEF OpenNothing, OpenSqlite, OpenMysql, OpenPgsql, Opens, works, script
  <2> QED
    BY <1>1, <1>2, <2>1
<1>4. CASE InitFails \/ InitApi
  <2>1. native'.objects = "alive" /\ pc' \in {"login", "ended"} /\ UNCHANGED loader
    BY <1>4 DEF InitFails, InitApi, IInv, Types, NativeTypes, works
  <2> QED
    BY <1>1, <1>2, <2>1
<1>5. CASE LoginFails
  BY <1>1, <1>2, <1>5 DEF LoginFails, release, clearData, Released, works
<1>6. CASE LoginSucceeds
  BY <1>1, <1>2, <1>6 DEF LoginSucceeds, works, script
<1>7. CASE LoginEnds
  <2>1. native.objects = "alive"
    BY <1>7 DEF LoginEnds, loadDataAsync, IInv, BootInv
  <2>2. native'.objects = "alive" /\ native'.communicator = "listening" /\ pc' = "loop" /\ loader' = "tables"
    BY <1>7, <2>1 DEF LoginEnds, loadDataAsync, IInv, Types, NativeTypes, Calm
  <2> QED
    BY <1>1, <1>2, <2>2
<1> QED
  BY <1>3, <1>4, <1>5, <1>6, <1>7 DEF Boot, init, login

LEMMA WorkerCalm ==
  ASSUME IInv, CalmInv, Worker \/ HistoryBegins
  PROVE  CalmInv'
<1>1. UNCHANGED <<pc, timers, save, queue>>
  BY DEF Worker, LoadDataWorker, LoadTables, RenderLivePrices, RequestPrices, PricesAnswered, NextPrices,
         SubscribeTables, HistoryEnds, HistoryBegins, script, ends, store
<1>2. CASE LoadTables \/ RenderLivePrices \/ RequestPrices \/ PricesAnswered \/ NextPrices
  <2>1. loader \notin {"none", "done"} /\ loader' \notin {"none", "done", "loaded"} /\ UNCHANGED <<native, history>>
    BY <1>2 DEF LoadTables, RenderLivePrices, RequestPrices, PricesAnswered, NextPrices
  <2>2. native.objects = "alive" /\ native.communicator = "listening"
    BY <2>1 DEF CalmInv
  <2>3. broken' = {}
    BY <1>2, <2>2 DEF LoadTables, RenderLivePrices, RequestPrices, PricesAnswered, NextPrices, Use, CalmInv
  <2> QED
    BY <1>1, <2>1, <2>2, <2>3 DEF CalmInv, Stopped
<1>3. CASE SubscribeTables
  <2>1. native.objects = "alive" /\ UNCHANGED <<history, broken>> /\ loader = "subscribe" /\ loader' = "loaded"
    BY <1>3 DEF SubscribeTables, CalmInv
  <2>2. native'.objects = native.objects /\ native'.communicator = native.communicator
    BY <1>3 DEF SubscribeTables, IInv, Types, NativeTypes
  <2>3. native'.tables = "subscribed"
    BY <1>3 DEF SubscribeTables, IInv, Types, NativeTypes
  <2> QED
    BY <1>1, <2>1, <2>2, <2>3 DEF CalmInv, Stopped
<1>4. CASE HistoryEnds \/ HistoryBegins
  <2>1. UNCHANGED <<native, loader>> /\ native.objects = "alive" /\ broken' = {}
    BY <1>4 DEF HistoryEnds, HistoryBegins, CalmInv, Use
  <2> QED
    BY <1>1, <2>1 DEF CalmInv, Stopped
<1> QED
  BY <1>2, <1>3, <1>4 DEF Worker, LoadDataWorker

\* The database: a statement that is settled or fails is neither of a save() that
\* is over nor of one that waits for the logout.
LEMMA DatabaseCalm ==
  ASSUME IInv, CalmInv, Database \/ StatementFails \/ ConnectionBreaks \/ ReconnectFails
  PROVE  CalmInv'
<1>1. UNCHANGED <<pc, native, loader, history, timers, queue, broken>>
  BY DEF Database, StatementSettled, StorageEnds, Reconnects, ReconnectTimer, StatementFails,
         ConnectionBreaks, ReconnectFails, works, script, ends
<1>2. \A i \in Saves : save[i] # save'[i] => save[i] = "running" /\ save'[i] \in {"done", "stuck"}
  <2>1. Types /\ Sending
    BY DEF IInv, SaveInv, Sending
  <2>2. CASE StorageEnds \/ Reconnects \/ ReconnectTimer
    BY <2>2 DEF StorageEnds, Reconnects, ReconnectTimer
  <2> QED
    BY <2>1, <2>2, SettledSending, FailedSending DEF Database
<1>3. \A i \in Saves : (save[i] = "over" => save'[i] = "over")
                       /\ (save'[i] \in {"leaving", "over"} => save[i] = save'[i])
  BY <1>2
<1>4. 0 \in Saves
  BY DEF Saves, IInv, Types, EndTypes
<1> QED
  BY <1>1, <1>3, <1>4 DEF CalmInv, Stopped

\* start(): the data is loaded, the first save() is done.
LEMMA StartCalm ==
  ASSUME IInv, CalmInv, DataLoaded \/ StrategyInit \/ PumpTurn \/ ProcessEnds
  PROVE  CalmInv'
<1>1. 0 \in Saves
  BY DEF Saves, IInv, Types, EndTypes
<1>2. CASE DataLoaded
  <2>1. SaveBegins(0) /\ UNCHANGED <<pc, native, history, timers, queue>> /\ save[0] = "idle"
        /\ loader = "loaded" /\ loader' = "done" /\ native.objects = "alive" /\ pc = "loop"
    BY <1>2 DEF DataLoaded, ends, script, IInv, SaveInv, CalmInv
  <2>2. broken' = {} /\ native.tables # "null"
    BY <1>2, <2>1 DEF DataLoaded, Use, CalmInv
  <2>3. \A j \in Saves \ {0} : save'[j] = save[j]
    BY <1>1, <2>1, SaveBeginsSending DEF IInv, SaveInv, Sending
  <2>4. ~Stopped /\ ~(\E i \in Saves \ {0} : save[i] \in {"leaving", "over"})
    BY <2>1 DEF CalmInv, Stopped
  <2> QED
    BY <2>1, <2>2, <2>3, <2>4 DEF CalmInv, Stopped
<1>3. CASE StrategyInit
  <2>1. UNCHANGED <<pc, native, loader, history, timers, queue>> /\ save[0] = "done" /\ pc = "loop"
        /\ save' = [save EXCEPT ![0] = "over"]
    BY <1>3 DEF StrategyInit, works, ends
  <2>2. ~Stopped
    BY <2>1 DEF CalmInv, Stopped
  <2>3. native.objects = "alive"
    BY <2>1, <2>2 DEF CalmInv, IInv, BootInv, Types, NativeTypes
  <2>4. broken' = {}
    BY <1>3, <2>3 DEF StrategyInit, Use, CalmInv
  <2>5. save'[0] = "over" /\ \A j \in Saves \ {0} : save'[j] = save[j]
    BY <1>1, <2>1 DEF IInv, Types, StoreTypes
  <2> QED
    BY <2>1, <2>4, <2>5 DEF CalmInv, Stopped
<1>4. CASE PumpTurn \/ ProcessEnds
  <2>1. UNCHANGED <<native, loader, history, timers, save>> /\ (queue' = queue \/ queue' = FALSE) /\ pc = "loop"
        /\ pc' \in {"loop", "ended"} /\ (pc' = "ended" => loader = "done") /\ broken' = {}
    BY <1>4 DEF PumpTurn, ProcessEnds, Idle, works, ends, store, CalmInv, script, IInv, Types, WorkTypes
  <2>2. Stopped' = Stopped
    BY <2>1 DEF Stopped
  <2>3. queue' => queue
    BY <2>1
  <2> QED
    BY <2>1, <2>2, <2>3 DEF CalmInv
<1> QED
  BY <1>2, <1>3, <1>4

\* The save() of the only exit.
LEMMA OnlyExit ==
  ASSUME IInv, Calm, NEW i \in Saves \ {0}, save[i] # "idle"
  PROVE  i = 1 /\ exits = 1 /\ \A j \in Saves \ {0} : j # i => save[j] = "idle"
<1>1. i \in Nat /\ exits \in Nat /\ \A j \in Saves : j \in Nat
  BY DEF IInv, Types, EndTypes, Saves
<1>2. ~(i > exits)
  BY DEF IInv, SaveInv
<1>3. i = 1 /\ exits = 1
  BY <1>1, <1>2 DEF Calm
<1>4. \A j \in Saves \ {0} : j # i => j > exits
  BY <1>1, <1>3
<1> QED
  BY <1>3, <1>4 DEF IInv, SaveInv

LEMMA StopCalm ==
  ASSUME IInv, CalmInv, Calm, Calm', Stop
  PROVE  CalmInv'
<1>1. 0 \in Saves
  BY DEF Saves, IInv, Types, EndTypes
<1>2. PICK i \in Saves : StopDisconnected(i) \/ StopConnected(i) \/ LogoutReturns(i)
  BY DEF Stop
<1>3. i # 0 /\ save[i] \in {"done", "leaving"} /\ UNCHANGED <<loader, history, queue>>
      /\ pc \in {"loop", "logout"}
  BY <1>2 DEF StopDisconnected, StopConnected, LogoutReturns, works, script, IInv, SaveInv
<1>4. \A j \in Saves \ {0} : j # i => save[j] = "idle"
  BY <1>3, OnlyExit
<1>5. ~Stopped
  BY <1>3, <1>4 DEF Stopped
<1>6. timers = 0 /\ native.objects = "alive"
  BY <1>3, <1>5 DEF CalmInv, IInv, BootInv, Types, EndTypes, NativeTypes
<1>7. save[0] = "over"
  <2>1. CASE StopDisconnected(i) \/ StopConnected(i)
    <3>1. "early" \notin faults' /\ faults' = faults \cup Early
      BY <2>1 DEF StopDisconnected, StopConnected, Calm
    <3> QED
      BY <3>1 DEF Early
  <2>2. CASE LogoutReturns(i)
    BY <1>3, <2>2 DEF LogoutReturns, CalmInv
  <2> QED
    BY <1>2, <2>1, <2>2
<1>8. loader = "done"
  BY <1>7 DEF IInv, SaveInv
<1>9. native.communicator \in {"listening", "null"} /\ native.tables # "null"
  BY <1>3, <1>6, <1>8 DEF CalmInv
<1>10. CASE StopDisconnected(i) \/ LogoutReturns(i)
  <2>1. UNCHANGED native /\ timers' = timers + 1 /\ save' = [save EXCEPT ![i] = "over"] /\ pc' = "loop"
    BY <1>10 DEF StopDisconnected, LogoutReturns
  <2>2. save'[i] = "over" /\ save'[0] = "over"
    BY <1>1, <1>3, <1>7, <2>1 DEF IInv, Types, StoreTypes
  <2>3. broken' = {} /\ timers' = 1
    BY <1>6, <1>10, <2>1 DEF StopDisconnected, LogoutReturns, Use, CalmInv
  <2> QED
    BY <1>3, <1>6, <1>8, <1>9, <2>1, <2>2, <2>3 DEF CalmInv, Stopped
<1>11. CASE StopConnected(i)
  <2>1. timers' = timers /\ save' = [save EXCEPT ![i] = "leaving"] /\ pc' = "logout" /\ Leave
    BY <1>11 DEF StopConnected, ends
  <2>2. save'[0] = "over"
    BY <1>1, <1>3, <1>7, <2>1 DEF IInv, Types, StoreTypes
  <2>3. broken' = {}
    BY <1>9, <2>1 DEF Leave, CalmInv
  <2>4. native'.objects = "alive" /\ native'.tables # "null" /\ native'.communicator = "null"
    BY <1>6, <1>9, <2>1 DEF Leave, unsubscribeEvents, removeCommunicatorListener, IInv, Types, NativeTypes
  <2> QED
    BY <1>3, <1>6, <1>8, <2>1, <2>2, <2>3, <2>4 DEF CalmInv
<1> QED
  BY <1>2, <1>10, <1>11

LEMMA CloseCalm ==
  ASSUME IInv, CalmInv, Calm', Close
  PROVE  CalmInv'
<1>1. timers > 0 /\ timers' = timers - 1 /\ pc' = pc /\ pc = "loop" /\ queue' = FALSE /\ native' = Released
      /\ UNCHANGED <<loader, history, save>>
  BY DEF Close, release, clearData, Idle, works, store
<1>2. native.objects = "alive" /\ timers = 1 /\ Stopped
  BY <1>1 DEF CalmInv
<1>3. broken' = {}
  BY <1>2 DEF Close, release, clearData, Use, CalmInv
<1>4. history # "running"
  <2>1. "worker" \notin faults' /\ faults' = IF history = "running" THEN faults \cup {"worker"} ELSE faults
    BY DEF Close, release, clearData, Calm
  <2> QED
    BY <2>1
<1>5. save[0] = "over" /\ loader = "done"
  BY <1>2 DEF CalmInv, Stopped, IInv, SaveInv
<1>6. Stopped'
  BY <1>1, <1>2 DEF Stopped
<1> QED
  BY <1>1, <1>2, <1>3, <1>4, <1>5, <1>6 DEF CalmInv, Released

LEMMA ExitCalm ==
  ASSUME IInv, CalmInv, Calm', Exit
  PROVE  CalmInv'
<1>1. exits \in Nat /\ exits' = exits + 1 /\ SaveBegins(exits + 1) /\ exits < MaxExits
      /\ UNCHANGED <<pc, native, loader, history, timers, queue, broken>>
  BY DEF Exit, IInv, Types, EndTypes, Saves, works, script
<1>2. exits = 0 /\ 0 \in Saves /\ 1 \in Saves
  BY <1>1 DEF Calm, Saves
<1>3. \A i \in Saves \ {0} : save[i] = "idle"
  <2>1. \A i \in Saves \ {0} : i > exits
    BY <1>2 DEF Saves
  <2> QED
    BY <2>1 DEF IInv, SaveInv
<1>4. save'[1] \in {"done", "stuck", "running"} /\ \A j \in Saves \ {1} : save'[j] = save[j]
  BY <1>1, <1>2, <1>3, SaveBeginsSending DEF IInv, SaveInv, Sending
<1>5. ~Stopped
  BY <1>3 DEF Stopped
<1>6. \A i \in Saves \ {0} : save'[i] \notin {"leaving", "over"}
  BY <1>3, <1>4
<1> QED
  BY <1>1, <1>5, <1>6 DEF CalmInv

-----------------------------------------------------------------------------
(* The invariant and what it shows *)

LEMMA NextIInv == IInv /\ [Next]_vars => IInv'
<1> SUFFICES ASSUME IInv, [Next]_vars PROVE IInv'
  OBVIOUS
<1>1. CASE Next
  <2>1. Types'
    BY <1>1, ServerTypes, BootTypes, WorkerTypes, DatabaseTypes, TurnTypes DEF Next, IInv
  <2>2. SaveInv'
    BY <1>1, IdleSaves, BusySaves, TurnSaves DEF Next, Turns, Database
  <2>3. BootInv' /\ SessionInv'
    BY <1>1, BootKept, SessionKept
  <2>4. Calm' => CalmInv'
    <3> SUFFICES ASSUME Calm' PROVE CalmInv'
      OBVIOUS
    <3>1. Calm /\ CalmInv
      BY <1>1, CalmBefore
    <3> QED
      BY <1>1, <3>1, ServerCalm, BootCalm, WorkerCalm, DatabaseCalm, StartCalm, StopCalm, CloseCalm,
         ExitCalm DEF Next, Turns
  <2> QED
    BY <2>1, <2>2, <2>3, <2>4 DEF IInv
<1>2. CASE UNCHANGED vars
  <2> USE <1>2 DEF vars, works, script, ends, store
  <2>1. Types'
    BY DEF IInv, Types, SessionTypes, NativeTypes, WorkTypes, StoreTypes, EndTypes, PastTypes
  <2>2. SaveInv' /\ BootInv' /\ SessionInv'
    BY DEF IInv, SaveInv, BootInv, SessionInv
  <2>3. Calm' => CalmInv'
    BY DEF IInv, Calm, CalmInv, Stopped
  <2> QED
    BY <2>1, <2>2, <2>3 DEF IInv
<1> QED
  BY <1>1, <1>2

\* The types of the state, however often the session is lost or the process is asked
\* to exit.
THEOREM TypeCorrectness == Spec => []Types
<1>1. IInv => Types
  BY DEF IInv
<1> QED
  BY <1>1, InitIInv, NextIInv, PTL DEF Spec

\* No thread uses an object that is not there, from the login to the last turn of the
\* pump, for any number of symbols, periods and rows, if the process is asked to exit
\* once, after start() is done, while no history is loaded and the communicator was
\* there (main of app.js, index.js, Order2Go::logout, ForexApi's close).
THEOREM UsesAreAlive == Spec => []UsedWhileAlive
<1>1. IInv => UsedWhileAlive
  <2> SUFFICES ASSUME IInv, broken # {}, ~(exits > 1),
                      faults \cap {"early", "worker", "communicator"} = {}
               PROVE  FALSE
    BY DEF UsedWhileAlive
  <2>1. exits \in Nat
    BY DEF IInv, Types, EndTypes, Saves
  <2>2. Calm
    BY <2>1 DEF Calm
  <2> QED
    BY <2>2 DEF IInv, CalmInv
<1> QED
  BY <1>1, InitIInv, NextIInv, PTL DEF Spec

\* logout() that was signalled has waited for the end of the session, unless it was
\* lost and connected again since the login (SessionStatusListener::waitEvents).
THEOREM LogoutHasWaited == Spec => LogoutWaits
<1>1. ASSUME IInv, [Next]_vars
      PROVE  [pc = "logout" /\ pc' = "loop" /\ session.signal =>
                session.state = "disconnected" \/ session.lost > 0]_vars
  <2>1. session.lost \in Nat
    BY <1>1 DEF IInv, Types, SessionTypes
  <2>2. session.lost = 0 \/ session.lost > 0
    BY <2>1
  <2> QED
    BY <1>1, <2>2 DEF IInv, SessionInv
<1> QED
  BY <1>1, InitIInv, NextIInv, PTL DEF Spec, LogoutWaits

\* The end of the database connection waits for the save() of a single stop(): no
\* statement of it is under way (main of app.js, serialize.js).
THEOREM SavesBeforeClose == Spec => SavedBeforeClose
<1>1. ASSUME IInv, [Next]_vars
      PROVE  [db'.ended /\ ~db.ended => (\A k \in DOMAIN sent : sent[k] = 0) \/ exits > 1]_vars
  <2> SUFFICES ASSUME Next, db'.ended, ~db.ended, ~(exits > 1), NEW k \in DOMAIN sent, sent[k] # 0
               PROVE  FALSE
    BY <1>1
  <2>1. exits \in Nat /\ \A i \in Saves : i \in Nat
    BY <1>1 DEF IInv, Types, EndTypes, Saves
  <2>2. sent[k] \in Saves /\ save[sent[k]] = "running"
    BY <1>1 DEF IInv, SaveInv, Types, StoreTypes
  <2>3. \E i \in Saves \ {0} : save[i] \in {"done", "leaving"}
    <3>1. CASE Server \/ Worker \/ HistoryBegins \/ Exit \/ PumpTurn
      BY <3>1 DEF Server, SessionRequested, Keeps, onLoginFailed, Connected, Disconnected, Disconnecting,
                SessionLost, Update, onSessionStatusChanged, Worker, LoadDataWorker, LoadTables, RenderLivePrices,
                RequestPrices, PricesAnswered, NextPrices, SubscribeTables, HistoryEnds, HistoryBegins,
                Exit, PumpTurn, store
    <3>2. CASE Boot
      BY <1>1, <3>2 DEF Boot, init, login, OpenNothing, OpenSqlite, OpenMysql, OpenPgsql, Opens, InitFails, InitApi,
                LoginFails, release, clearData, LoginSucceeds, LoginEnds, loadDataAsync, store, IInv, Types, EndTypes
    <3>3. CASE Database \/ StatementFails \/ ConnectionBreaks \/ ReconnectFails
      BY <1>1, <3>3 DEF Database, StatementSettled, StorageEnds, Reconnects, ReconnectTimer, StatementFails,
                ConnectionBreaks, ReconnectFails, IInv, Types, EndTypes
    <3>4. CASE DataLoaded \/ StrategyInit \/ Close \/ ProcessEnds
      BY <3>4 DEF DataLoaded, StrategyInit, Close, release, clearData, ProcessEnds, store
    <3>5. CASE Stop
      BY <1>1, <3>5 DEF Stop, StopDisconnected, StopConnected, LogoutReturns, IInv, SaveInv
    <3> QED
      BY <3>1, <3>2, <3>3, <3>4, <3>5 DEF Next, Turns
  <2>4. PICK i \in Saves \ {0} : save[i] \in {"done", "leaving"}
    BY <2>3
  <2>5. ~(i > exits) /\ ~(sent[k] > exits)
    BY <1>1, <2>2, <2>4 DEF IInv, SaveInv
  <2>6. i = 1 /\ sent[k] = 1
    BY <2>1, <2>2, <2>5
  <2> QED
    BY <2>2, <2>4, <2>6
<1> QED
  BY <1>1, InitIInv, NextIInv, PTL DEF Spec, SavedBeforeClose
=============================================================================
