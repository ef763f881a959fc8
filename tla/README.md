# fxdaemon: a TLA+ model

fxdaemon is a trading platform: a Node.js application that runs a user's
strategy, and a native addon (`forexapi`) that connects it to the broker's
library, ForexConnect.  This directory holds TLA+ modules of its parts, the TLC
configurations that check them and the proofs that TLAPS checks.

The code that matters is in two places:

- `src/addons/forexapi/src` (C++): what the broker's threads, the libuv workers
  and the Node thread do to shared objects;
- `src/node/src` (JavaScript): the pump, the dataset, the callbacks of the
  strategy and the database.

The broker's library (`src/addons/forexapi/include`, `lib`) is external: its
callbacks appear in the modules as the addon uses them.

## 1. Threads

| thread | runs |
| --- | --- |
| Node thread ("main") | `init`, `login`, the order functions (synchronous, they block the event loop), `nextEvent`, the strategy, `logout`, `close` |
| API threads of ForexConnect | `onRequestCompleted`, `onRequestFailed`, `onTablesUpdates`, the row listeners, the session and communicator listeners |
| libuv workers | `LoadDataWorker` (one, at start), `GetHistoricalPricesWorker` (one per `_.getHistoricalPrices`) |

Of the objects they share only `EventQueue` has a lock.  `PriceCollector` relies
on one atomic (`m_RunState`), `ResponseListener` on nothing.

## 2. Inventory

| part | state | operations | works with |
| --- | --- | --- | --- |
| `EventQueue`, `Mutex` | queue, mutex, auto-reset event | push, pop, clear, waitEvents | pushed to by every listener and worker, popped by `nextEvent` |
| `CEventHandle` (Linux `CreateEvent`) | flag, counter, mutex, condition | SetEvent, ResetEvent, WaitForSingleObject | every listener that is waited for |
| `ResponseListener` | request ids, status, count, error, response, event | setRequestID, reset, waitEvents, onRequestCompleted, onRequestFailed, the readers | orders (Node thread) and prices (workers) share one |
| Orders (`Order2Go`) | none of its own | openPosition, changeStopLoss, changeTakeProfit, closePosition, closeAllPositions, getHistoricalPrices | `ResponseListener`, tables |
| `PriceCollector` | run state, offers, candles, pending offers, periods | getOffers, renderLivePrices, isCollectable, onOfferUpdate, valueOf | load worker, API thread, then Node thread |
| Communicator listeners | request, response, ready flag, two events | setRequest, waitEvents, callbacks | `PriceCollector` |
| `SessionStatusListener` | connected, error, event | waitEvents, onSessionStatusChanged, onLoginFailed | login, logout |
| `TableListener` | subscriptions | onAdded, onChanged, onDeleted | `EventQueue` |
| `Order2Go` life | session, listeners, workers | init, login, loadData, logout, close | all the above |
| Pump (`addon.js`) | runnable | start, on, stop | `EventQueue`, `events.js` |
| Dataset (`dataset.js`, `events.js`) | offers, candles, accounts, orders, positions | set*, add*, update*, delete*, the handlers | pump, strategy, storage |
| Storage (`serialize.js`, drivers) | connection, the tables | open, insert, update, insertOnConflict, close | `events.js`, `save` |
| Application (`app.js`, `index.js`) | life cycle | start, init, stop, exit | pump, storage, strategy |
| Table rows, `Utils`, N-API conversions, command line, `ta.js` | values | getters, conversions | no state that lasts |

What makes each part hard, and what makes it correct:

- **EventQueue.**  Many producers, one consumer, a signal sent after the mutex is
  released.  First-in first-out, nothing lost, no lost wake-up, drained for ever
  until `close`.
- **CEventHandle.**  Emulates a Windows event with a condition variable.  One
  wait per signal (auto-reset), no blocked thread missed by a signal, time-outs
  that race a signal.
- **ResponseListener.**  Two clients, one set of members, no lock; answers that
  come after the time-out; batches.  A call returns the truth about its own
  requests.
- **Orders.**  What a request says comes from tables that lag behind the server and
  change while they are read.  A completed call has done what was asked.
- **PriceCollector.**  The price stream begins before the history is loaded.
  Nobody touches the maps while another thread writes them, no offer is lost or
  folded twice, a candle reported as complete is final, volumes add up, and the
  periods agree.
- **Histories.**  Pages that overlap, in two resolutions of time.  Every bar once,
  in order, and the loop ends.
- **Dataset.**  A snapshot, a gap, then events.  The strategy's view converges to
  the broker's, candles stay ordered and at most 480, none is skipped.
- **Rows.**  Some 100 columns pass four hand-written copies on the way from the
  broker to the database.  A row arrives whole, also over a restart.
- **Storage and life cycle.**  Statements without a queue, failing queries whose
  promise is never settled, reconnection; `stop` at any time, twice, during
  loading.  Saves are complete, the strategy starts, the process ends, nothing
  is used after it was released.

`PROJECT.json` lists each of these hazards at its line, with the properties that
cover it.

## 3. What there is

```
 EventChannel  <-- refined by --  EventQueue     <-- EventQueueProofs
 WinEvent      <-- instance in -- ResponseListener
    ^-- WinEventProofs            PriceCollector <-- PriceCollectorProofs
                                  LiveData       <-- LiveDataProofs
                                  Lifecycle      <-- LifecycleProofs
 ResponseListener <-- ResponseListenerProofs
 MCCandles  = CandleFeed + HistoryPaging   <-- CandleFeedProofs
 MCTrading  = Orders + CandleFold + Rows   <-- TradingProofs
```

Several modules look at the same code from different sides, each leaving out
what another has:

| code | control | data |
| --- | --- | --- |
| price stream (`PriceCollector.cpp`) | `PriceCollector`: which offer goes where, and when | `CandleFold`: prices and volumes |
| candles on the Node thread | `CandleFeed`: copy, events, the 480 | - |
| order calls (`Order2Go.cpp`) | `ResponseListener`: waiting for the answers | `Orders`: lookups and requests |
| rows (`TableListener`, `dataset.js`, `sql.js`) | `LiveData`: order of copy, events, statements | `Rows`: the columns of one row |
| start and end | `Lifecycle` | - |

`LiveData` takes the queue as the atomic channel that `EventQueue` implements;
`PriceCollector` and `LiveData` each see it from one end, `CandleFeed` from both.

The `MC*` modules give the constants values; the `.cfg` files are their runs.
`MCCandles` and `MCTrading` put modules that share nothing but the library in
one run: each behaviour follows one of them and leaves the others where they are.

Conventions: variables keep the names of the members of the code; an action is a
step during which no other thread can be seen to act, and where there is no lock
that is one access to shared memory.  Program counters are named after what the
thread does next.  Variables commented "history" record what happened and
influence nothing.  Operators that stand in the module but in no next-state
relation, commented "a mutant", are deliberate mistakes: `PROJECT.json` pairs
each with a property that it breaks.

The type invariants are theorems and not part of the runs.

### EventQueue, EventChannel

`EventQueue.cpp` and `Mutex.cpp`.  A push or pop of `std::queue` is two steps,
reading into `view` and writing back, so only the mutex keeps them from
overlapping.  `push` is lock, store, unlock, SetEvent; `pop` is lock, take (or
"unknown" when empty), unlock; `clear` the same; `waitEvents` waits on the
auto-reset event.  The Node thread pops until the queue is empty, as `addon.js`
does.  The addon exports `waitEvents` but the pump polls with `setImmediate`; the
model contains both, the wait and the return without a signal.

| property | says |
| --- | --- |
| `MutualExclusion` | no two threads inside the queue (a theorem) |
| `NothingLostOrReordered` | stored = taken followed by queued |
| `NoLostWakeup` | a pump asleep over an event has a signal pending |
| `EventuallyDrained` | until `close`, the queue is empty again and again |
| `ImplementsChannel` | every behaviour is one of the atomic channel `EventChannel` |

Run: `queue`.  Three threads, as in the program: an API
thread, a worker and the Node thread, with two pushes each (so that a push of a
thread meets its own earlier event) and one `clear`.

Fairness: a thread inside push, pop or clear goes on (the mutex is never held
across anything that blocks), and the pump pops again as long as `close` was not
called: the `setImmediate` loop of `addon.js`.  Nobody is forced to push.

### WinEvent

`CEventHandle` for any number of waiters, auto- or manual-reset.  Signal and
Reset are atomic, being one critical section each; a wait enters (and passes or
blocks with the count it saw), and later is woken or times out.

| property | says |
| --- | --- |
| `OneWakeupPerSignal` | no more successful waits of a thread than signals, and fewer while one is pending |
| `FlagImpliesCount` | a set flag is always visible in the counter to a blocked thread |
| `SignalReleasesBlocked` | a signal releases everyone blocked, even if the flag is reset before they run |

Run: `event_wait`, two waiters and four signals (bound `MaxSignals`): enough for
two threads to take a signal each and for one signal to be reset and set again
while both are blocked.  Fairness: a thread whose wait can end is scheduled.

### ResponseListener

The listener of all requests and its clients: the Node thread with single orders
and batches (`closeAllPositions`), and price workers.  Each access of a member is
a step; the event is an instance of `WinEvent`.  A client takes the steps of
`setRequestID` (with `reset`), `sendRequest`, `waitEvents` and of the reads that
follow; the server answers any request once, at any time after it was sent; the
API thread takes the steps of `onRequestCompleted` or `onRequestFailed`.

A call is *undisturbed* when no other client was in a call meanwhile and no
callback ran during its `setRequestID`.  For those, and for one kind of disturbed
calls (`LastCallerIsServed`):

| property | says |
| --- | --- |
| `CompletedIsTrue` | "completed" means the server completed every request of the call |
| `ErrorAgrees` | a completed call has no error; one that is not completed and did not time out has the error of one of its requests, which was refused |
| `ResponseIsOwn` | the response that is dereferenced belongs to the call's own request |
| `LastCallerIsServed` | a client that took the listener over from others, which go on waiting, timing out and reading, gets its own response and order id and the truth about completion; nobody takes the response away before it was read |
| `AnsweredCallReturns` | an answered call returns without its time-out |

Run: `responses`.  Behaviours have the Node thread alone, with three requests in
calls of one or two (a late answer meets a batch), or the Node thread and a price
worker with two requests.  Requests are bounded by `MaxRequests`; the system stops
when they are used up, so deadlock is not checked.  Fairness: the API thread goes
through a callback it is in, and a wait that can end does end.  No time-out is
forced and no answer is.

`LastCallerIsServed` says which of two clients that share the listener is safe, the
later one, and what of: the calls it is about are disturbed, so none of the others
says anything of them.  Two things it leaves out.  The *error* may be that of another
client's time-out.  And the call must not be *crossed*: a callback that is running
while `setRequestID` resets the members, or two of these calls at once, do give a
wrong outcome (section 5).

What does *not* hold without "undisturbed" is a finding, `response_shared`
(`CompletedIsOwnAnswer`): a price worker that sends a request while an order call
waits replaces its request id; the answer about the prices then completes the
order call, whatever the server said of the order.

### PriceCollector

The hand-over of the price stream.  The load worker fills `m_Offers`
(`getOffers`), sets `FILLED`, gets one history per symbol and period, and sets
`READY` or `FAILED`.  The API thread takes each offer through `isCollectable`
(two reads), the push of the OFFER event, the switch on `m_RunState`, and then
keeps it, or folds first the kept ones and then this one into the candles.

A candle is its start and the offers folded into it; prices are functions of
these.  Times are any numbers: they repeat, go back, or fall in the candle the
history ended with.  A history ends at any candle up to now, is empty, or fails.

| property | says |
| --- | --- |
| `CandlesNotShared`, `OffersNotShared` | the API thread uses the maps only when the worker has finished with them |
| `NoOfferLost` | the OFFER events are the offers folded, then the pending ones, then the one in hand |
| `CandlesIncrease` | the starts of the candles of a symbol and period increase (a theorem) |
| `EventsAreFinal` | the CANDLE events are all candles but the last, which nobody changes any more |
| `CandlesComplete` | a candle holds exactly the offers of its span, except those that came too late (a reference definition, over the order of arrival) |

Run: `prices`, one collected instrument and one that is not, two periods of one
and two units, times 0 to 2 and four offers: two pending and two after, with a
candle boundary in both periods and a late offer.

### LiveData

How the strategy's view is filled and kept: `Order2Go::loadData`,
`TableListener`, the pump, `events.js`, `dataset.js`, `save` and the drivers.

| action | code |
| --- | --- |
| `BrokerAdds`, `BrokerChanges`, `BrokerDeletes` | a row of a broker's table changes; `TableListener::onTableRow` pushes an event if that change of that table is subscribed |
| `ReadRow`, `TableRead` | the loops of `loadTableData`: row by row, table by table, without a lock against the broker |
| `Subscribe` | one call of `subscribeEvents`, after the tables (and the price history) |
| `PumpStart`, `handleEvent`, `PumpEnd` | `ForexApi.on`: one macrotask takes events until the queue is empty; the handler changes the list and sends its statement |
| `ShowSnapshot` | `OnOK` of the worker: the `set...` functions push the copy behind what is in the lists, `save` begins |
| `Database` | the connection runs a statement; the answer to the one `save` awaits lets it take the next row of the lists as they are then, and after the last `init` is called |

A row is an id and a version, the number of its changes.  Ids of orders and
positions are used once; a row of the summary stands for an instrument, goes with
its last position and comes back with the next.  MySQL and PostgreSQL run the
statements of the one connection in order, sqlite3 in parallel, "none" is no
storage.  `missed` is a history variable: the rows of which a change reached
nobody, because it was made between the copy of its table and the subscription,
or was handled before the copy was shown.

| property | says |
| --- | --- |
| `NoDuplicates` | no list holds a row twice (but a row of the summary of which a change was missed) |
| `Mirror` | once the copy is shown the lists are the broker's tables, up to the events in the queue and the missed rows |
| `NeverBackwards` | no row in a list goes back to an earlier version |
| `TransactionsAreStored` | at rest, every order and closed position is stored as it is shown |
| `EventuallyShown` | in the end `init` has been called and all that was not missed is shown |

Runs: `live_view` (orders and positions, two of each, three changes, `MaxChanges`:
enough to add, change and delete one, or to delete one while another changes) and
`live_tables` (all five tables, one row each, two changes, with liveness).
Fairness: the worker, the Node thread and the database go on; the broker is never
forced to change anything.  The model stops when the changes are used up, so
deadlock is not checked.

A finding, `live_gap` (`PositionsAreOpen`): the worker subscribes only after it has
copied the tables and loaded the price history.  A position opened in between is
never in `_.getPositions`, one closed in between always is.

### CandleFeed

The bars of one symbol and period on the Node thread: the native list that the API
thread appends to, the CANDLE events (pointers, which become values when they are
popped), the copy that `valueOf` makes candle by candle while the list grows, and
`addCandle` with its limit.

| property | says |
| --- | --- |
| `BarsAreAWindow` | the strategy's bars are in order, each once, and no more than the limit (or than the copy brought) |
| `NothingSkipped` | a complete candle is in the dataset in its final form, still in the queue, or older than all that are kept |
| `MainForEveryCandle` | `main` is called for every candle that is completed |

### HistoryPaging

`getHistoricalPrices`: pages from the newest backwards, joined by comparing times in
seconds while the server's dates are finer; a loop that ends within a tolerance
(0.0001 days are 8.64 seconds, so `Tol` is at least one).  A page is a relation: any
of the server's newest bars of the range, in order, no more than fit.

| property | says |
| --- | --- |
| `HistoryIsWhole` | the bars found are in order, and a promise that resolves has all of them and no other, unless a request timed out |
| `HistoryEnds` | the loop ends |

Run: `candles`.  A limit of 3 instead of 480, and up to 6 candles: enough to fill,
to overtake the copy and to shift.  Dates 1 to 7 with every set of bars among
them, pages of two, with one answer that no reader can be made for.  Fairness: the
pump turns, the worker's callback runs, a wait ends.

### Lifecycle

`app.js`, `addon.js`, `index.js` (start and stop), `Order2Go::init` to `close`, the
session and communicator listeners, the workers, and the connection to the
database with its failures.  Each object is "alive" or not; using one that is not
there is recorded in `broken`, and the model stops there, as what follows is
undefined.

| property | says |
| --- | --- |
| `UsedWhileAlive` | native objects are used while they are there - but for a second exit, an exit before `start` is done or while a history is loaded, or a communicator that fails |
| `LogoutWaits` | a `logout` that returns by a signal has waited for the end of the session, unless it was lost and came back since |
| `SavedBeforeClose` | the database connection is not ended under the statements of the last `save` |
| `StrategyStarts` | after the login `init` of the strategy is called, unless something outside fails |
| `ExitEnds` | a request to exit ends the process, unless something outside fails |

Run: `lifecycle`, every storage, one session lost and found (`MaxLost`), two
requests to exit (`MaxExits`), two histories, two statements for each `save`.  Each
exception in a property names a way in which the code goes wrong; with the
exceptions removed TLC shows it.  Fairness: the Node thread takes its turns, the
library answers a listener that is there, and the database answers; nobody has to
exit and the server need not do anything.  A process that has ended stays as it
is, so deadlock is not checked.

A finding, `exit_twice` (`ReleasedOnce`): `sample.js` emits "exit" on every candle
of the last hour; each emission runs `stop`, and the second one uses and deletes
what the first has released.

### Orders

`openPosition`, `changeStopLoss`, `changeTakeProfit`, `closePosition` and
`closeAllPositions` on a server that moves on, with tables of ForexConnect that
follow it one row at a time, also while they are read by index.  The server,
external, executes, refuses, or does not answer in time; stops, other terminals
and late executions change the account between any two steps.

An opposite order on an account that nets reduces the oldest positions first;
`Rests` relates what is left of the order before and after each of them.

| property | says |
| --- | --- |
| `CloseAllCloses` | a completed `closeAllPositions` has closed all positions that the table showed when it was called, both sides, every instrument - unless a row went while it was read |
| `CloseOnlyCloses` | a request to close opens nothing, enlarges nothing and touches no other account - on an account that nets, if the position is what it was when it was found |
| `StopIsSet` | an executed change leaves one order of that type with the new rate, and the others as they were, if the orders table was up to date |

### CandleFold

What the folding computes, for one symbol and two periods: open, high, low, close
and the volume, which is a difference of counters that restart each minute.  The loop
of `onOfferUpdate` takes one offer a turn (`HandleOffer`); `inHand` are those that the
call has yet to take.  The server's ticks are numbered, and a bar of a minute has the
numbers of its first and last: the volume of the server's candle is the ticks between.

| property | says |
| --- | --- |
| `VolumeIsExact` | the volume of a candle is the number of the server's ticks in it (not for the candle in progress when the history came, if a tick came between) |
| `PeriodsAgree` | a candle is what the candles of a shorter period that are in it add up to |

### Rows

One row of one of the six classes, column by column: `valueOfRow`, `toValue`, the
entity, the SQL statements, over two processes that share the database.  A value
is the version of the broker's row that it comes from.

| property | says |
| --- | --- |
| `RowIsWhole` | all columns that are shown, and all that are stored, come from one version of the row |
| `ExtremesAreKept` | high and low of a position are those of all the closes it was shown with, and are stored when it is closed |

Run: `trading`, these three.  Two accounts, one that nets and is not in the copy;
two positions and two calls or moves of others (`MaxActs`): one call against one
move, or a second call while the first is still under way at the server; five
ticks over four minutes with periods of one and two; four versions of a row, two
waiting events, two processes.  Each part stops at its bounds, so deadlock is not
checked.

## 4. What is proved

`tlapm` checks all of it; no assumption but those named in the modules (bounds are
numbers, `Main` is a thread, a candle has a positive length, a page holds more than
one bar, the tolerance of the paging loop is at least a second).  Each theorem holds
for every value of the constants that satisfies them.

- `EventQueueProofs`: types, `MutualExclusion`, `NothingLostOrReordered`,
  `NoLostWakeup` and the refinement `ImplementsChannel`.  `NothingLostOrReordered`
  alone is not inductive: a store is computed from a view.  The invariant adds that
  the owner of the mutex is the one thread inside and that its view is the queue
  until it writes; and that a pop that found nothing still sees every later push
  unsignalled.
- `WinEventProofs`: types, `OneWakeupPerSignal`, `FlagImpliesCount`.  The invariant
  bounds the count a blocked thread saw by the number of signals it has not used.
- `ResponseListenerProofs`: types, `CompletedIsTrue`, `ErrorAgrees`, `ResponseIsOwn`
  and `LastCallerIsServed`, for any number of workers, requests and late answers.
  They follow from what the members mean to the client whose requests the listener
  names (`HeldInv`): the count is that of its completed requests whose callbacks have
  passed the counter (`Counts`); the response is of one of them (`Responses`); the
  event is set only for an outcome of the call (`Wakes`), so that a wait that was
  signalled has one.  `reset` clears the members one by one: `Cleared` says which of
  them are clear already, and `Sole` that nobody else is clearing them.  Clients that
  wait, time out or read keep all of this, and a new call ends it by replacing the
  ids.  The error alone needs that nobody else is in a call (`AloneInv`).  `Counts`
  needs cardinalities of sets of requests.
- `PriceCollectorProofs`: types, `CandlesNotShared`, `OffersNotShared`,
  `NoOfferLost`, `CandlesIncrease`, `EventsAreFinal`, `CandlesComplete`.  The
  invariant says what the run state tells of the worker, and what the API thread may
  still conclude from the run state it has read: once it has seen READY, the worker
  is done for ever; a history is only ever stored where there are no candles.
  Lemmas about `Fold` give the candles part: it keeps the order of starts and adds to
  the complete candles exactly the one it reports.  `CandlesWhole` carries the
  reference definition of `CandlesComplete` through a fold: an offer that opens a
  candle, or is in the last one, is in time, and one that is older is in none.
- `LiveDataProofs`: types, `NoDuplicates`, `NeverBackwards`, `Mirror` and
  `TransactionsAreStored`, for any tables, ids, drivers and number of changes.  None
  is inductive.  The types need that at most one statement is awaited, or the answer
  to one would leave another behind.
  - `NoDuplicates` needs to know where a row can be (`RowsInv`).  `CopyInv`: while
    tables are read nothing but the copy knows of rows, because every change the
    broker makes is in a subscription still to be made (`SubscribedToAll`), and a row
    still to be read is not in the copy, because no table is copied twice
    (`LoadOrderDistinct`).  `OnceInv`: a row that is added once is in the copy, in the
    queue or in the dataset.  `TurnInv`, for the summary: between two additions in the
    queue, and between a row that is shown and an addition, there is a deletion.
  - `NeverBackwards` follows from `OrderInv`: no version in the dataset or the copy is
    higher than one of the queue, none of the queue higher than a later one, none at
    all higher than the broker's.  With `RowsInv` a list shows one version of a row,
    so a step that changes it can only raise it.
  - `Mirror` follows from `MirrorInv`, of the rows of which no change was missed.  A
    row without an event in the queue is known, in the dataset or the copy, exactly as
    the broker has it (`Settled`); the last event about a row tells what the broker has
    (`LastTells`); and an event that changes or deletes a row comes when the row is
    known or behind its addition (`ChangesFollow`), or the handler would forget it.
    The first is the property when the queue is empty; the others are what is left of
    it while the queue is not.
  - `TransactionsAreStored` follows from `Stored`.  The last of the statements about a
    row carries the version that is shown, and without one the database has it
    (`InStore`); an insert is the first of them and finds nothing, or it would fail and
    leave an old version.  An update of a row that is not there changes nothing, so a
    row that `save` has come to must be in the database or have an insert or an upsert
    on its way (`Saved`, `Covered`); rows that come later are added behind the one
    that `save` waits for, or with an insert of their own.  The theorem excludes the
    driver sqlite, which runs statements in parallel (section 5).

  Lemmas say what `Update`, `Delete`, `RemoveAt` and concatenation do to the ids and
  to the versions of a list.
- `LifecycleProofs`: types, `UsedWhileAlive`, `LogoutWaits`, `SavedBeforeClose`, for
  any number of symbols, rows, losses of the session and exits.  `SaveInv`: each
  statement under way is one of a `save` that is running, and each `save` has one at
  most.  `SessionInv`: a session that was never lost is connected until it is told to
  leave, and signals only that it has left.  `CalmInv` carries `UsedWhileAlive`, and only while the process is
  calm (one exit, after `start`, no history, no failing communicator): the `save` of
  `stop` ends only after that of `start`, hence after the worker; only then is the
  timer of `close` set, once; so objects are released once, with nobody left to use
  them.
- `CandleFeedProofs`: types, `BarsAreAWindow` and `NothingSkipped`.  Both follow from
  where the window is: the dataset is the part of the native list that ends with the
  last candle of the copy, or with the last one whose event was handled, whichever is
  later (`WindowInv`).  To keep that, the events in the queue must be those that
  follow the handled ones, without a gap (`ChanInv`), and the copy may differ from
  the list only in the candle that is in progress (`CopyInv`).  And `HistoryIsWhole`:
  while the loop runs nothing is missing of what is not older than the end of the next
  page (`HistInv`), and when a page ends within the tolerance of the start, no bar
  more fits between.
- `TradingProofs`, of `Orders`: `StopIsSet`, `CloseAllCloses`, `CloseOnlyCloses`, for
  any accounts, instruments, positions, amounts, and moves of others.
  `TypesInv` ties the request of a call to what the call found in the tables
  (`RequestInv`), and the rows to positions there are or were.  `StopInv`: an order is
  known by the number of the call that made it, at the server and in the tables
  (`NumbersInv`); no row that was passed is the one looked for (`PassedInv`); a change
  that found the table up to date is alone under way (`FreshInv`).  `CloseAllInv`:
  during the scan a position that is meant to be closed and still open has a row in the
  table, and the sides of the rows that were passed are known (`ScanInv`); later a
  request that is under way closes it (`WaitsInv`).  For `CloseOnlyCloses` the point is that an order no
  larger than one of the positions it is against leaves nothing that could open a
  position (`NothingRests`, by the first position at which it would not).
- `TradingProofs`, of `Rows`: `RowIsWhole` and `ExtremesAreKept`.  `RowsInv`:
  the broker's row, the copy, each event that waits, the entity and the row of the
  database are each whole, so every step hands wholeness on; lemmas on the columns
  say for each class that what is shown is copied and what is stored is shown.
  `ExtremesInv` adds that high and low come with the first close.
- `TradingProofs`, of `CandleFold`: types, `VolumeIsExact`, and that candles stay whole
  and in order, from what one offer does to any candles (`OfferKeepsCandles`).  A sum
  over ticks would need induction over data; the numbers of the ticks make it a
  difference.  `VolumesInv`: the numbers are in the order of the minutes (`MarketInv`);
  the offers that wait are the last ticks, none left out, and the stored offer is the
  one before them as soon as a volume depends on it (`OffersInv`).  Hence the candle in
  progress has the ticks from its first to the stored offer (`InProgress`), and when a
  later offer begins a candle the one before has all its ticks (`Finished`), because no
  minute between the two was traded.  A new candle has its first tick because no tick
  that was folded lies behind the last candle (`ReachInv`).

Only model-checked:

- `PeriodsAgree`: a candle of the longer period against the sum, the highest and the
  lowest of all its parts.  What such a fold over the parts computes for every number
  of them needs induction over data, for which the provers have no rule.  (An induction
  over numbers for one fixed formula is possible, as a least-element argument, and is
  used where the proofs above say so.)
- Every liveness property: fairness and ENABLED are beyond the prover.

## 5. Known deviations without a run

Met while the modules were written; the properties that would show them have an
exception that names them, and its line in the module says so.

- `openPosition` ignores the result of its wait and reads the order id, the error and
  the status one by one: an answer after the time-out and between the reads gives
  `completed` without an order id, where the README promises one.
- A callback that has found an earlier request's id while `setRequestID` runs counts
  it for the new call, which is then completed too early, by another's response or by
  none.  A client whose ids another one has replaced reads the outcome of the other,
  or a response that `reset` releases under its hands: NULL is dereferenced.
- `save` iterates over the live array of positions: one that is closed meanwhile is
  spliced out and the next one is skipped.  The sqlite driver runs statements in
  parallel: an update of an order that overtakes its insert is lost.
- Volume: a tick between the reading of the offers table and the history is in the
  history and counted again.  An update that leaves a price out has 0 there, and 0
  is folded into the candles.
- `closeAllPositions` and the lookups read tables by index while rows may go: the row
  after one that goes is skipped.  A stop is created a second time when the orders
  table lags.  On an account that nets, a position that is closed twice, or with a
  larger amount than it has, becomes one of the other side.
- High and low of a position begin again with the process, and do not know the
  close of the copy.  `account.js` stores a `currency` that nothing provides;
  `Account::toValue` writes one key with a capital letter,
  `Usable_maint_margin_in_percentage`; an offer's volume of 0 is not taken over.
- `logout` uses the table listener although the loading has not created it; a
  communicator that failed leaves a pointer uninitialised or a listener nobody calls
  back; `close` does not wait for the workers.
- A query that fails leaves its promise unsettled (mysql, pgsql): `save` never ends,
  then `init` is not called, or the process does not log out.
  `checkDatabaseExists` of both calls a `reject` that is no parameter of its promise:
  its error ends the process where `open` would have returned false.
- A time-out while a history is loaded ends the loop without an error: the promise
  resolves with the newest part.
- The README gives `changeStopLoss` as (accountID, tradeID, amount, stop), `index.js`
  takes (accountID, tradeID, stop, amount).  The loop of `setTradingDayOffset` counts
  bytes instead of elements.  `main` may be called before `init`, for candles that
  complete while the data loads.

## 6. What is not modelled

- Weak memory: members of `ResponseListener` and the maps of `PriceCollector` are
  read and written in program order.  Torn strings and use after release in the
  middle of a read are not shown.
- `WaitForMultipleObjects` of the Linux emulation: no caller in the addon.
- The trading-day offset and time zones: constants added to the start of a candle.
- The refresh of tables without the table manager (`getOffers(IO2GLoginRules*)`
  and its kind): never called, the session uses the table manager.
- Formatting and splitting of strings, argument checks of the N-API functions, the
  command line, the wrappers of TA-Lib, the callbacks `tick` and `trailmove`: no
  state that lasts.
- The `limit` argument of `openPosition` (a rate that is passed on with the stop), and
  that `canCreateMarketCloseOrder` is asked per instrument: `Orders` has it per account.
- `save` awaits the offers first: `LiveData` has no offers and begins with the accounts.
  A script that is still being loaded when `init` is called.
- A lost database connection with statements pending: `Lifecycle` reconnects at once;
  the driver reports such a loss to the statements, and every property of `Lifecycle`
  excuses the fault.
- The vendored headers of ForexConnect: the library is external.

## 7. What could follow

As an abstract specification, a "one request, one answer" call that `ResponseListener`
implements when nothing disturbs it.
