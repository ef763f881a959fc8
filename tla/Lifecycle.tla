----------------------------- MODULE Lifecycle -----------------------------
(***************************************************************************)
(* The life of the application: app.js opens the storage and starts the    *)
(* runner; ForexApi.start creates the session and logs in while the Node   *)
(* thread waits; a worker loads the tables and the price history; the      *)
(* first save() ends with the strategy's init; and each SIGINT, SIGQUIT or *)
(* "exit" of the emitter runs stop(): exit of the strategy, save(),        *)
(* logout, the end of the database connection, and one second later the    *)
(* end of the pump and the release of the native objects.                  *)
(*                                                                         *)
(* Threads: the Node thread (pc tells where it is blocked), the workers    *)
(* that load data and histories, and the API thread that calls the         *)
(* listeners.  Using an object that is not there is recorded in "broken":  *)
(* what the program does after that is undefined, and the model stops.     *)
(***************************************************************************)
EXTENDS Integers, Sequences, FiniteSets, SequencesExt

CONSTANTS
  Drivers,      \* the storages a user may configure: "none", "sqlite", "mysql", "pgsql"
  MaxExits,     \* bound on the requests to exit
  MaxLost,      \* bound on the losses of the trading session
  MaxRequests,  \* bound on the histories that are asked for: symbols times periods
  Rows          \* bound on the statements of one save()

ASSUME DriversAssumption == Drivers \subseteq {"none", "sqlite", "mysql", "pgsql"} /\ Drivers # {}
ASSUME BoundAssumption ==
  MaxExits \in Nat /\ MaxLost \in Nat /\ MaxRequests \in Nat \ {0} /\ Rows \in Nat \ {0}

VARIABLES
  pc,       \* the Node thread: "open", "init", "login", "status", "loop", "logout" or "ended"
  session,  \* the trading session, and m_Connected and m_Event of its listener
  native,   \* Order2Go: its objects, its listeners
  loader,   \* the worker of loadDataAsync
  asked,    \* how many histories it has asked for
  history,  \* the worker of getHistoricalPrices
  queue,    \* is there an event in the queue?
  pump,     \* is the pump scheduled?
  runnable, \* ForexApi.runnable
  timers,   \* the pending calls of close()
  exits,    \* the requests to exit
  save,     \* the calls of save(): number 0 belongs to start, number n to the n-th exit
  left,     \* the statements each one has still to send
  sent,     \* the statements under way, by the save() that waits for them
  db,       \* the connection to the database
  inited,   \* has init of the strategy been called?
  broken,   \* history: uses of objects that are not there
  faults    \* history: what went wrong outside

works == <<loader, asked, history>>
script == <<queue, pump, runnable, inited>>
store == <<save, left, sent, db>>
ends == <<timers, exits>>
vars == <<pc, session, native, works, script, ends, store, broken, faults>>

Saves == 0 .. MaxExits

Init ==
  /\ pc = "open"
  /\ session = [state |-> "off", connected |-> FALSE, signal |-> FALSE, lost |-> 0]
  /\ native = [objects |-> "none", tables |-> "null", responses |-> "null", communicator |-> "null"]
  /\ loader = "none" /\ asked = 0 /\ history = "none"
  /\ queue = FALSE /\ pump = FALSE /\ runnable = TRUE /\ inited = FALSE
  /\ timers = 0 /\ exits = 0
  /\ save = [i \in Saves |-> "idle"] /\ left = [i \in Saves |-> 0] /\ sent = <<>>
  /\ db = [driver |-> "none", state |-> "off", ended |-> FALSE]
  /\ broken = {} /\ faults = {}

\* What happens after the use of an object that is not there is not modelled.
Sound == broken = {}

\* The Node thread takes the next callback when it is not blocked and the promises
\* that are resolved have been dealt with.
Idle == Sound /\ pc = "loop" /\ \A i \in Saves : save[i] # "done"

\* A step that needs the native objects, for what they are worth now.
Use(what) == broken' = IF native.objects = "alive" THEN broken ELSE broken \cup {what}

-----------------------------------------------------------------------------
(* The database: serialize.js and the drivers                              *)

\* serializer.open: app.js leaves the process if it fails.
Opens(driver, opened) ==
  /\ pc = "open"
  /\ db' = IF opened THEN [db EXCEPT !.driver = driver, !.state = "up"] ELSE db
  /\ pc' = IF opened THEN "init" ELSE "ended"
  /\ UNCHANGED <<session, native, works, script, ends, save, left, sent, broken, faults>>

OpenNothing ==
  /\ pc = "open" /\ "none" \in Drivers
  /\ pc' = "init"
  /\ UNCHANGED <<session, native, works, script, ends, store, broken, faults>>

\* The tables are created, statement by statement, until one fails.
OpenSqlite == "sqlite" \in Drivers /\ \E opened \in BOOLEAN : Opens("sqlite", opened)

\* Connect, find or create the database, find or create the tables.  An error of these
\* steps is caught and open returns FALSE; only that of the look for the database is
\* thrown out of the callback, "reject" being no name there (mysql.js:89), and ends
\* the process itself.  The servers behave alike from then on.
OpenMysql == "mysql" \in Drivers /\ \E opened \in BOOLEAN : Opens("server", opened)

\* The same, on a connection without database first and on a second one with it.
OpenPgsql == "pgsql" \in Drivers /\ \E opened \in BOOLEAN : Opens("server", opened)

\* The statement cannot reach the database.
Unreachable == db.ended \/ db.state = "waiting"

\* The drivers of mysql and pgsql never settle the promise of a query that
\* fails; the one of sqlite resolves it.
Settles == db.driver = "sqlite"

\* A mutant: without a storage the promise of a statement is never settled.
SaveNeedsStorage(i) ==
  IF db.driver = "none" \/ Unreachable
  THEN save' = [save EXCEPT ![i] = "stuck"] /\ UNCHANGED <<left, sent>>
  ELSE /\ save' = [save EXCEPT ![i] = "running"]
       /\ \E n \in 1 .. Rows : left' = [left EXCEPT ![i] = n]
       /\ sent' = Append(sent, i)

\* save() number i sends its first statement, if there is a database.
SaveBegins(i) ==
  IF db.driver = "none" \/ (Unreachable /\ Settles)
  THEN save' = [save EXCEPT ![i] = "done"] /\ UNCHANGED <<left, sent>>
  ELSE IF Unreachable
  THEN save' = [save EXCEPT ![i] = "stuck"] /\ UNCHANGED <<left, sent>>
  ELSE /\ save' = [save EXCEPT ![i] = "running"]
       /\ \E n \in 1 .. Rows : left' = [left EXCEPT ![i] = n]
       /\ sent' = Append(sent, i)

\* The promise of a statement is resolved, and save() sends the next.  Sqlite runs
\* statements in any order, the servers in the order they are sent in.
StatementSettled ==
  /\ Idle /\ db.state = "up"
  /\ \E k \in DOMAIN sent :
       /\ Settles \/ k = 1
       /\ LET i == sent[k]
              last == left[i] = 1 \/ (Unreachable /\ Settles)
          IN /\ save' = [save EXCEPT ![i] = IF last THEN "done" ELSE IF Unreachable THEN "stuck" ELSE @]
             /\ left' = [left EXCEPT ![i] = IF last THEN 0 ELSE @ - 1]
             /\ sent' = IF last \/ Unreachable THEN RemoveAt(sent, k) ELSE Append(RemoveAt(sent, k), i)
  /\ UNCHANGED <<pc, session, native, works, script, ends, db, broken, faults>>

\* The query callback gets an error.
StatementFails ==
  /\ Idle /\ sent # <<>> /\ db.state = "up" /\ ~Settles
  /\ save' = [save EXCEPT ![Head(sent)] = "stuck"]
  /\ sent' = Tail(sent)
  /\ faults' = faults \cup {"query"}
  /\ UNCHANGED <<pc, session, native, works, script, ends, left, db, broken>>

\* All statements of a broken connection fail.
AllFail ==
  /\ save' = [i \in Saves |-> IF \E k \in DOMAIN sent : sent[k] = i THEN "stuck" ELSE save[i]]
  /\ sent' = <<>>
  /\ faults' = faults \cup {"connection"}

\* A fatal error: the handler creates a new connection at once.
ConnectionBreaks ==
  /\ Idle /\ db.driver = "server" /\ db.state = "up" /\ "connection" \notin faults
  /\ AllFail
  /\ db' = [db EXCEPT !.state = "connecting"]
  /\ UNCHANGED <<pc, session, native, works, script, ends, left, broken>>

\* The new connection is up; if end() has been called meanwhile, it ends.
Reconnects ==
  /\ Idle /\ db.state = "connecting"
  /\ db' = [db EXCEPT !.state = IF @ = "connecting" /\ db.ended THEN "off" ELSE "up"]
  /\ UNCHANGED <<pc, session, native, works, script, ends, save, left, sent, broken, faults>>

\* The next attempt follows in three seconds.
ReconnectFails ==
  /\ Idle /\ db.state = "connecting"
  /\ AllFail
  /\ db' = [db EXCEPT !.state = "waiting"]
  /\ UNCHANGED <<pc, session, native, works, script, ends, left, broken>>

ReconnectTimer ==
  /\ Idle /\ db.state = "waiting"
  /\ db' = [db EXCEPT !.state = "connecting", !.ended = FALSE]
  /\ UNCHANGED <<pc, session, native, works, script, ends, save, left, sent, broken, faults>>

\* serializer.close: ends the connection there is after the statements already sent.
CloseStorage ==
  /\ db' = [db EXCEPT !.state = IF @ = "up" /\ sent = <<>> THEN "off" ELSE @,
                      !.ended = db.driver # "none"]

\* The last statement before end() has been answered.
StorageEnds ==
  /\ Idle /\ db.state = "up" /\ db.ended /\ sent = <<>>
  /\ db' = [db EXCEPT !.state = "off"]
  /\ UNCHANGED <<pc, session, native, works, script, ends, save, left, sent, broken, faults>>

-----------------------------------------------------------------------------
(* The API thread: SessionStatusListener                                   *)

\* The listener of the session is subscribed until close().
Listening == Sound /\ native.objects = "alive"

onSessionStatusChanged(state, connected, signal) ==
  /\ Listening
  /\ session' = [session EXCEPT !.state = state, !.connected = connected,
                                !.signal = @ \/ signal]
  /\ queue' = TRUE
  /\ UNCHANGED <<pc, native, works, pump, runnable, inited, ends, store, broken, faults>>

Keeps(state) == onSessionStatusChanged(state, session.connected, FALSE)

onLoginFailed == onSessionStatusChanged("refused", FALSE, TRUE)

\* Connecting, then perhaps TradingSessionRequested: the session id is sent, or
\* the login fails because it is not found; the server connects or refuses.
SessionRequested ==
  /\ session.state = "connecting"
  /\ \/ Keeps("joining")
     \/ onLoginFailed

Connected ==
  /\ session.state \in {"connecting", "joining", "reconnecting"}
  /\ onSessionStatusChanged("connected", TRUE, TRUE)

Disconnected ==
  /\ session.state \in {"connecting", "joining", "reconnecting", "leaving"}
  /\ onSessionStatusChanged("disconnected", FALSE, TRUE)

\* SessionLost, Reconnecting: nothing but an event.
SessionLost ==
  /\ session.state = "connected" /\ session.lost < MaxLost
  /\ Listening
  /\ session' = [session EXCEPT !.state = "reconnecting", !.lost = @ + 1]
  /\ queue' = TRUE
  /\ UNCHANGED <<pc, native, works, pump, runnable, inited, ends, store, broken, faults>>

\* A mutant: Disconnecting ends the wait as well.
DisconnectingSignals ==
  /\ session.state = "leaving"
  /\ onSessionStatusChanged("leaving", FALSE, TRUE)

Disconnecting == session.state = "leaving" /\ Keeps("leaving")

\* Rows and prices arrive while somebody listens.
Update ==
  /\ Sound /\ session.state = "connected" /\ ~queue
  /\ "subscribed" \in {native.tables, native.responses}
  /\ queue' = TRUE
  /\ Use("update")
  /\ UNCHANGED <<pc, session, native, works, pump, runnable, inited, ends, store, faults>>

-----------------------------------------------------------------------------
(* The Node thread: ForexApi.start, init and login                         *)

\* createCommunicator fails: start rejects, and the process exits.
InitFails ==
  /\ pc = "init"
  /\ native' = [native EXCEPT !.objects = "alive"]
  /\ pc' = "ended"
  /\ UNCHANGED <<session, works, script, ends, store, broken, faults>>

\* The constructor of the collector leaves m_CommunicatorListener as it finds it.
InitApi ==
  /\ pc = "init"
  /\ \E pointer \in {"null", "garbage"} :
       native' = [native EXCEPT !.objects = "alive", !.communicator = pointer]
  /\ session' = [session EXCEPT !.state = "connecting"]
  /\ pc' = "login"
  /\ UNCHANGED <<works, script, ends, store, broken, faults>>

Released == [objects |-> "deleted", tables |-> "null", responses |-> "null",
             communicator |-> native.communicator]

\* Order2Go::clearData and PriceCollector::clearData, as far as others see it.
clearData == queue' = FALSE

release == clearData /\ native' = Released

loadDataAsync == loader' = "tables"

\* A mutant: start goes on after a login that failed.
LoginFailsAndGoesOn ==
  /\ pc = "login" /\ ~(session.signal /\ session.connected)
  /\ session' = [session EXCEPT !.signal = FALSE]
  /\ release
  /\ loadDataAsync /\ pump' = TRUE
  /\ pc' = "loop"
  /\ UNCHANGED <<asked, history, runnable, inited, ends, store, broken, faults>>

\* Not connected, or no answer for TIMEOUT: close(), start rejects, process.exit.
LoginFails ==
  /\ pc = "login" /\ ~(session.signal /\ session.connected)
  /\ session' = [session EXCEPT !.signal = FALSE]
  /\ release
  /\ pc' = "ended"
  /\ UNCHANGED <<works, pump, runnable, inited, ends, store, broken, faults>>

LoginSucceeds ==
  /\ pc = "login" /\ session.signal /\ session.connected
  /\ session' = [session EXCEPT !.signal = FALSE]
  /\ pc' = "status"
  /\ UNCHANGED <<native, works, script, ends, store, broken, faults>>

\* CommunicatorStatusListener: what its wait ends with, and isReady.
Statuses == {"ready", "not ready", "failed", "time-out"}

\* addCommunicatorListener: the pointer is not set without the status; it is set and
\* the listener removed again when the communicator is not ready any more.
addCommunicatorListener(status, ready) ==
  IF status # "ready" THEN native.communicator ELSE IF ready THEN "listening" ELSE "removed"

\* The rest of login, after a result that nobody looks at: onConnected logs the
\* settings, the responses are subscribed; then the worker and the pump start.
LoginEnds ==
  /\ pc = "status"
  /\ \E status \in Statuses, ready \in BOOLEAN :
       LET c == addCommunicatorListener(status, ready)
       IN /\ native' = [native EXCEPT !.communicator = c, !.responses = "subscribed"]
          /\ faults' = IF c = "listening" THEN faults ELSE faults \cup {"communicator"}
  /\ queue' = TRUE
  /\ loadDataAsync /\ pump' = TRUE
  /\ pc' = "loop"
  /\ UNCHANGED <<session, asked, history, runnable, inited, ends, store, broken>>

-----------------------------------------------------------------------------
(* The workers: Order2Go::loadData and getHistoricalPrices                 *)

LoadTables ==
  /\ Sound /\ loader = "tables"
  /\ loader' = "prices"
  /\ Use("tables")
  /\ UNCHANGED <<pc, session, native, asked, history, script, ends, store, faults>>

\* renderLivePrices tests the pointer once.
RenderLivePrices ==
  /\ Sound /\ loader = "prices"
  /\ Use("prices")
  /\ loader' = IF native.communicator = "null" THEN "subscribe" ELSE "request"
  /\ UNCHANGED <<pc, session, native, asked, history, script, ends, store, faults>>

\* setRequest and sendRequest.  Nobody answers to a listener that is not there, and
\* logout takes the communicator away.
RequestPrices ==
  /\ Sound /\ loader = "request"
  /\ broken' = IF native.communicator \in {"listening", "removed"} /\ native.objects = "alive"
               THEN broken ELSE broken \cup {"communicator"}
  /\ asked' = asked + 1
  /\ loader' \in {"wait", "answered"}
  /\ UNCHANGED <<pc, session, native, history, script, ends, store, faults>>

\* onRequestCompleted, onRequestFailed or onRequestCancelled: each sets the event.
PricesAnswered ==
  /\ Sound /\ loader = "wait" /\ native.communicator = "listening"
  /\ loader' = "answered"
  /\ UNCHANGED <<pc, session, native, asked, history, script, ends, store, broken, faults>>

NextPrices ==
  /\ Sound /\ loader = "answered"
  /\ Use("prices")
  /\ loader' \in IF asked < MaxRequests THEN {"request", "subscribe"} ELSE {"subscribe"}
  /\ UNCHANGED <<pc, session, native, asked, history, script, ends, store, faults>>

SubscribeTables ==
  /\ Sound /\ loader = "subscribe"
  /\ native' = [native EXCEPT !.tables = "subscribed"]
  /\ loader' = "loaded"
  /\ UNCHANGED <<pc, session, asked, history, script, ends, store, broken, faults>>

\* A script that handles an event asks for a history.
HistoryBegins ==
  /\ Idle /\ pump /\ queue /\ history = "none"
  /\ history' = "running"
  /\ Use("history")
  /\ UNCHANGED <<pc, session, native, loader, asked, script, ends, store, faults>>

HistoryEnds ==
  /\ Sound /\ history = "running"
  /\ history' = "done"
  /\ Use("history")
  /\ UNCHANGED <<pc, session, native, loader, asked, script, ends, store, faults>>

-----------------------------------------------------------------------------
(* The Node thread: the data is loaded                                     *)

\* OnOK of the worker, valueOf, the datasets, and the first save().
DataLoaded ==
  /\ Idle /\ loader = "loaded"
  /\ loader' = "done"
  /\ Use("snapshot")
  /\ SaveBegins(0)
  /\ UNCHANGED <<pc, session, native, asked, history, script, ends, db, faults>>

\* save() is done: the strategy's init is called, which may use the API.
StrategyInit ==
  /\ Sound /\ pc = "loop" /\ save[0] = "done"
  /\ save' = [save EXCEPT ![0] = "over"]
  /\ inited' = TRUE
  /\ Use("init")
  /\ UNCHANGED <<pc, session, native, works, queue, pump, runnable, ends, left, sent, db, faults>>

\* One turn of the pump: all events there are, each one may call the strategy.
PumpTurn ==
  /\ Idle /\ pump
  /\ queue' = FALSE
  /\ broken' = IF queue /\ native.objects # "alive" THEN {"event"} ELSE broken
  /\ pump' = runnable
  /\ UNCHANGED <<pc, session, native, works, runnable, inited, ends, store, faults>>

-----------------------------------------------------------------------------
(* The Node thread: stop of app.js, index.js and addon.js                  *)

\* exit of the strategy, and save().
Exit ==
  /\ Idle /\ exits < MaxExits
  /\ exits' = exits + 1
  /\ SaveBegins(exits + 1)
  /\ UNCHANGED <<pc, session, native, works, script, timers, db, broken, faults>>

\* Does stop() overtake start()?
Early == IF save[0] = "over" THEN {} ELSE {"early"}

\* m_Subscribed of the table listener.
unsubscribeEvents(tables) == IF tables = "subscribed" THEN "unsubscribed" ELSE tables

\* The communicator is given back, with its listeners if the pointers are set.
removeCommunicatorListener(c) == IF c = "garbage" THEN c ELSE "null"

\* What logout does while it is connected: unsubscribe everybody, take the
\* communicator away, and log the session out.
Leave ==
  /\ broken' = IF native.tables = "null" THEN broken \cup {"tables"}
               ELSE IF native.communicator = "garbage" THEN broken \cup {"communicator"}
               ELSE broken
  /\ native' = [native EXCEPT !.tables = unsubscribeEvents(@), !.responses = "unsubscribed",
                              !.communicator = removeCommunicatorListener(@)]
  /\ session' = [session EXCEPT !.state = "leaving"]

\* logout with nobody to wait for: the session is not connected.
StopDisconnected(i) ==
  /\ Sound /\ pc = "loop" /\ save[i] = "done" /\ i # 0
  /\ ~(native.objects = "alive" /\ session.connected)
  /\ Use("logout")
  /\ save' = [save EXCEPT ![i] = "over"]
  /\ CloseStorage
  /\ timers' = timers + 1
  /\ faults' = faults \cup Early
  /\ UNCHANGED <<pc, session, native, works, script, exits, left, sent>>

\* A mutant: stop does not wait for save().
StopAtOnce(i) ==
  /\ Sound /\ pc = "loop" /\ save[i] \in {"running", "done"} /\ i # 0
  /\ native.objects = "alive" /\ session.connected
  /\ Leave
  /\ save' = [save EXCEPT ![i] = "leaving"]
  /\ pc' = "logout"
  /\ faults' = faults \cup Early
  /\ UNCHANGED <<works, script, ends, left, sent, db>>

StopConnected(i) ==
  /\ Sound /\ pc = "loop" /\ save[i] = "done" /\ i # 0
  /\ native.objects = "alive" /\ session.connected
  /\ Leave
  /\ save' = [save EXCEPT ![i] = "leaving"]
  /\ pc' = "logout"
  /\ faults' = faults \cup Early
  /\ UNCHANGED <<works, script, ends, left, sent, db>>

\* The wait of logout ends, by the signal or by TIMEOUT; the timer of close() is
\* set and the storage closed.
LogoutReturns(i) ==
  /\ Sound /\ pc = "logout" /\ save[i] = "leaving"
  /\ session' = [session EXCEPT !.signal = FALSE]
  /\ save' = [save EXCEPT ![i] = "over"]
  /\ CloseStorage
  /\ timers' = timers + 1
  /\ pc' = "loop"
  /\ UNCHANGED <<native, works, script, exits, left, sent, broken, faults>>

\* A mutant: close() leaves the pump running.
CloseOnly ==
  /\ Idle /\ timers > 0
  /\ timers' = timers - 1
  /\ Use("close")
  /\ release
  /\ faults' = IF history = "running" THEN faults \cup {"worker"} ELSE faults
  /\ UNCHANGED <<pc, session, works, pump, runnable, inited, exits, store>>

\* One second later the pump is told to stop and the objects are released.
Close ==
  /\ Idle /\ timers > 0
  /\ timers' = timers - 1
  /\ runnable' = FALSE
  /\ Use("close")
  /\ release
  /\ faults' = IF history = "running" THEN faults \cup {"worker"} ELSE faults
  /\ UNCHANGED <<pc, session, works, pump, inited, exits, store>>

\* Nothing keeps the event loop alive any more.
ProcessEnds ==
  /\ Idle
  /\ ~pump /\ timers = 0 /\ db.state = "off"
  /\ loader = "done" /\ history # "running"
  /\ pc' = "ended"
  /\ UNCHANGED <<session, native, works, script, ends, store, broken, faults>>

-----------------------------------------------------------------------------
Server == SessionRequested \/ Connected \/ Disconnected \/ Disconnecting \/ SessionLost \/ Update
init == InitFails \/ InitApi
login == LoginFails \/ LoginSucceeds \/ LoginEnds
Boot == OpenNothing \/ OpenSqlite \/ OpenMysql \/ OpenPgsql \/ init \/ login
LoadDataWorker == LoadTables \/ RenderLivePrices \/ RequestPrices \/ NextPrices \/ SubscribeTables
Worker == LoadDataWorker \/ PricesAnswered \/ HistoryEnds
Database ==
  \/ StatementSettled \/ StorageEnds \/ Reconnects \/ ReconnectTimer
Stop == \E i \in Saves : StopDisconnected(i) \/ StopConnected(i) \/ LogoutReturns(i)
Turns == DataLoaded \/ StrategyInit \/ Stop \/ Close \/ ProcessEnds

Next ==
  \/ Server \/ Boot \/ Worker \/ Database \/ Turns \/ PumpTurn
  \/ StatementFails \/ ConnectionBreaks \/ ReconnectFails
  \/ HistoryBegins \/ Exit

Spec == Init /\ [][Next]_vars

\* The Node thread takes its turns and no wait of it is without end; the workers are
\* scheduled, the library answers what reaches its listener, and the database
\* answers.  Nobody has to exit, and the server need not do anything.
Fairness ==
  /\ WF_vars(Boot) /\ WF_vars(Worker) /\ WF_vars(Database)
  /\ WF_vars(Turns) /\ WF_vars(PumpTurn)

FairSpec == Spec /\ Fairness

-----------------------------------------------------------------------------
\* Objects are used while they are there: from the login to the last turn of the
\* pump no thread uses what was not created or is released, if the process is
\* asked to exit once, neither before start() is done nor while a history is
\* loaded.  The second exit, the workers and the uninitialised pointer of the price
\* collector are the ways in which the code goes wrong.
UsedWhileAlive ==
  broken # {} => exits > 1 \/ faults \cap {"early", "worker", "communicator"} # {}

\* However often the process is asked to exit, logout() and close() never meet
\* objects that close() has released: README.md:124 says "The application can be
\* terminated with the emitter", and main() of sample.js emits "exit" on every
\* candle from an hour before the market closes.
ReleasedOnce == broken \cap {"logout", "close"} = {}

\* logout() that returns true has waited for the end of the session - unless the
\* session was lost and connected again since the login: nobody has waited for
\* that signal, and it ends the wait of logout.
LogoutWaits ==
  [][pc = "logout" /\ pc' = "loop" /\ session.signal =>
       session.state = "disconnected" \/ session.lost > 0]_vars

\* The connection to the database is not ended under a save() of stop: its last
\* statement has been answered, unless there are two of them.
SavedBeforeClose ==
  [][db'.ended /\ ~db.ended => (\A k \in DOMAIN sent : sent[k] = 0) \/ exits > 1]_vars

\* README.md:91: init is "called during initialization, one time only".  After a
\* login with a communicator that answers, it is called, unless a statement of
\* the first save() fails or the process is asked to exit.
StrategyStarts ==
  (pc = "loop") ~> (inited \/ exits > 0 \/ broken # {} \/ faults # {})

\* A request to exit ends the process, unless a statement of the database fails, its
\* connection breaks, or the history does not come.
ExitEnds ==
  (exits > 0) ~>
    (pc = "ended" \/ broken # {} \/ faults \cap {"query", "connection", "communicator"} # {})
=============================================================================
