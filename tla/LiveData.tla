------------------------------ MODULE LiveData ------------------------------
(***************************************************************************)
(* How the strategy's view of the account is filled and kept up to date.   *)
(* The load worker (Order2Go::loadData) copies the tables of the broker's  *)
(* table manager row by row, loads the price history, which takes seconds, *)
(* and only then subscribes to the changes of the tables.  The copy is     *)
(* given to JavaScript when the worker is done (LoadDataWorker::OnOK,      *)
(* index.js start).  A change of a subscribed table becomes an event of    *)
(* the queue; the pump of addon.js hands the events to events.js, which    *)
(* changes the lists of dataset.js, writes to the database without waiting *)
(* for it, and calls the strategy.  Once the copy is shown, save() stores  *)
(* every row and waits for each, and the strategy's init is called after   *)
(* it.                                                                     *)
(*                                                                         *)
(* Node runs one macrotask at a time: pumping is TRUE while the pump's     *)
(* loop is the running one, which it is until it finds the queue empty.    *)
(* Between two answers of the database other macrotasks run.  Rows are     *)
(* reduced to an id and a version, the number of changes they have had.    *)
(* The queue is the channel that EventQueue is proved to implement.        *)
(***************************************************************************)
EXTENDS Integers, Sequences, SequencesExt

CONSTANTS
  Kind,         \* the tables looked at
  Id,           \* ids of rows
  MaxChanges,   \* bound on the changes the broker makes
  Driver        \* the values the storage option may have

AllKinds == {"accounts", "orders", "trades", "closed", "summary"}

ASSUME KindAssumption == Kind \subseteq AllKinds
ASSUME ChangesAssumption == MaxChanges \in Nat
ASSUME DriverAssumption == Driver \subseteq {"none", "mysql", "pgsql", "sqlite"}

VARIABLES
  broker,    \* the broker's tables: version of each row and whether it exists
  changes,   \* the number of changes it has made
  toRead,    \* the tables the load worker has not copied yet, the current first
  unread,    \* the rows of the current table it has not come to
  loaded,    \* its copy: m_Accounts, m_Orders, m_Trades, ...
  calls,     \* the subscriptions it has still to make
  chan,      \* the event queue
  pumping,   \* is the pump's loop running?
  data,      \* the lists of dataset.js
  shown,     \* has the copy been put into them?
  at,        \* the row save() waits for: <<table, index>>, or <<>>
  inited,    \* has the strategy's init been called?
  serializer,  \* the driver of the database, "none" if there is no storage
  stmts,     \* the statements sent to the database and not yet run
  db,        \* version of each row in the database, 0 for none
  missed     \* history: rows of which a change reached nobody

native == <<toRead, unread, loaded, calls>>
saving == <<at, inited>>
store == <<serializer, stmts, db>>
node == <<pumping, data, shown, saving>>
vars == <<broker, changes, native, chan, node, store, missed>>

\* An element of a list, an event, a statement.
Element == [id : Id, ver : Nat]
Status == {"ADDED", "CHANGED", "DELETED"}
Event == [kind : Kind, status : Status, row : Element]
Statement == [op : {"insert", "update", "upsert"}, kind : Kind, row : Element,
              awaited : BOOLEAN]

\* The order in which the tables are copied and saved.
Of(k) == IF k \in Kind THEN <<k>> ELSE <<>>
LoadOrder == Of("accounts") \o Of("orders") \o Of("trades") \o Of("closed") \o Of("summary")
SaveOrder == Of("accounts") \o Of("orders") \o Of("trades") \o Of("closed")

\* The calls of TableListener::subscribeEvents.
To(k, s) == IF k \in Kind THEN << <<k, s>> >> ELSE <<>>
ToAll(k) == To(k, "ADDED") \o To(k, "CHANGED") \o To(k, "DELETED")
Subscriptions ==
  To("accounts", "CHANGED") \o ToAll("orders") \o ToAll("trades")
    \o To("closed", "ADDED") \o ToAll("summary")

Init ==
  /\ broker \in [Kind -> [Id -> {[ver |-> 0, live |-> FALSE], [ver |-> 1, live |-> TRUE]}]]
  /\ toRead = LoadOrder
  /\ unread = Id
  /\ loaded = [k \in Kind |-> <<>>]
  /\ calls = Subscriptions
  /\ chan = <<>>
  /\ pumping = FALSE
  /\ data = [k \in Kind |-> <<>>]
  /\ shown = FALSE
  /\ at = <<>>
  /\ inited = FALSE
  /\ changes = 0
  /\ serializer \in Driver
  /\ stmts = <<>>
  /\ db = [k \in Kind |-> [i \in Id |-> 0]]
  /\ missed = {}

-----------------------------------------------------------------------------
(* The broker and TableListener::onTableRow.                               *)

\* The changes the broker makes to a table.
Changes(k) == CASE k = "accounts" -> {"CHANGED"}
                [] k = "closed"   -> {"ADDED"}
                [] OTHER          -> Status

\* Neither the copy nor an event will tell of a change that is made now.
WasRead(k, i) == /\ \A n \in 1 .. Len(toRead) : toRead[n] # k \/ (n = 1 /\ i \notin unread)
Unsubscribed(k, s) == <<k, s>> \in {calls[n] : n \in 1 .. Len(calls)}

Notify(k, i, s, v) ==
  /\ chan' = IF Unsubscribed(k, s) THEN chan
             ELSE Append(chan, [kind |-> k, status |-> s, row |-> [id |-> i, ver |-> v]])
  /\ missed' = IF Unsubscribed(k, s) /\ WasRead(k, i) THEN missed \cup {<<k, i>>} ELSE missed

\* Bound: MaxChanges.
Counted == changes < MaxChanges /\ changes' = changes + 1

\* The id of an order or a position is never used again; a row of the summary is
\* about an instrument, and comes back with its next position.
BrokerAdds(k, i) ==
  /\ "ADDED" \in Changes(k) /\ ~broker[k][i].live
  /\ k # "summary" => broker[k][i].ver = 0
  /\ broker' = [broker EXCEPT ![k][i] = [ver |-> @.ver + 1, live |-> TRUE]]
  /\ Notify(k, i, "ADDED", broker[k][i].ver + 1)
  /\ Counted
  /\ UNCHANGED <<native, node, store>>

BrokerChanges(k, i) ==
  /\ "CHANGED" \in Changes(k) /\ broker[k][i].live
  /\ broker' = [broker EXCEPT ![k][i].ver = @ + 1]
  /\ Notify(k, i, "CHANGED", broker[k][i].ver + 1)
  /\ Counted
  /\ UNCHANGED <<native, node, store>>

BrokerDeletes(k, i) ==
  /\ "DELETED" \in Changes(k) /\ broker[k][i].live
  /\ broker' = [broker EXCEPT ![k][i].live = FALSE]
  /\ Notify(k, i, "DELETED", broker[k][i].ver)
  /\ Counted
  /\ UNCHANGED <<native, node, store>>

-----------------------------------------------------------------------------
(* The load worker: Order2Go::loadData.                                    *)

\* One turn of the loop over a table's rows.
ReadRow(i) ==
  /\ toRead # <<>> /\ i \in unread
  /\ unread' = unread \ {i}
  /\ loaded' = LET row == broker[Head(toRead)][i] IN
       IF row.live THEN [loaded EXCEPT ![Head(toRead)] = Append(@, [id |-> i, ver |-> row.ver])]
       ELSE loaded
  /\ UNCHANGED <<broker, changes, toRead, calls, chan, node, store, missed>>

TableRead ==
  /\ toRead # <<>> /\ unread = {}
  /\ toRead' = Tail(toRead)
  /\ unread' = Id
  /\ UNCHANGED <<broker, changes, loaded, calls, chan, node, store, missed>>

\* A mutant: subscribes while the tables are still to be copied.
SubscribeAnyTime ==
  /\ calls # <<>>
  /\ calls' = Tail(calls)
  /\ UNCHANGED <<broker, changes, toRead, unread, loaded, chan, node, store, missed>>

Subscribe ==
  /\ toRead = <<>> /\ calls # <<>>
  /\ calls' = Tail(calls)
  /\ UNCHANGED <<broker, changes, toRead, unread, loaded, chan, node, store, missed>>

-----------------------------------------------------------------------------
(* dataset.js: the lists.                                                  *)

Places(list, i) == {n \in DOMAIN list : list[n].id = i}
Holds(list, i) == Places(list, i) # {}
First(list, i) == CHOOSE n \in Places(list, i) : \A m \in Places(list, i) : n <= m

Update(list, row) ==
  IF Holds(list, row.id) THEN [list EXCEPT ![First(list, row.id)] = row] ELSE list
\* A mutant: the index of the row is one too high.
DeleteNext(list, i) ==
  IF Holds(list, i) /\ First(list, i) < Len(list) THEN RemoveAt(list, First(list, i) + 1) ELSE list
Delete(list, i) ==
  IF Holds(list, i) THEN RemoveAt(list, First(list, i)) ELSE list

(* serialize.js: what a statement that was sent does to the database.      *)

Sent(s, op, k, row, awaited) ==
  IF serializer # "none" THEN Append(s, [op |-> op, kind |-> k, row |-> row, awaited |-> awaited]) ELSE s

Run(s) ==
  LET old == db[s.kind][s.row.id]
      new == CASE s.op = "insert" -> IF old = 0 THEN s.row.ver ELSE old
               [] s.op = "update" -> IF old = 0 THEN old ELSE s.row.ver
               [] s.op = "upsert" -> s.row.ver
  IN  [db EXCEPT ![s.kind][s.row.id] = new]

-----------------------------------------------------------------------------
(* The pump of addon.js and the handlers of events.js.                     *)

PumpStart ==
  /\ ~pumping /\ chan # <<>>
  /\ pumping' = TRUE
  /\ UNCHANGED <<broker, changes, native, chan, data, shown, saving, store, missed>>

PumpEnd ==
  /\ pumping /\ chan = <<>>
  /\ pumping' = FALSE
  /\ UNCHANGED <<broker, changes, native, chan, data, shown, saving, store, missed>>

\* A change or a deletion that comes before the row it is about is forgotten.
Forgotten(e) ==
  IF ~shown /\ e.status # "ADDED" /\ ~Holds(data[e.kind], e.row.id)
  THEN missed \cup {<<e.kind, e.row.id>>} ELSE missed

onAccount(e) ==
  /\ data' = [data EXCEPT !["accounts"] = Update(@, e.row)]
  /\ UNCHANGED stmts

\* A mutant: the new state of an order is not written.
onOrderUnwritten(e) ==
  \/ /\ e.status = "ADDED"
     /\ data' = [data EXCEPT !["orders"] = Append(@, e.row)]
     /\ stmts' = Sent(stmts, "insert", "orders", e.row, FALSE)
  \/ /\ e.status # "ADDED"
     /\ data' = [data EXCEPT !["orders"] = Update(@, e.row)]
     /\ UNCHANGED stmts

onOrder(e) ==
  \/ /\ e.status = "ADDED"
     /\ data' = [data EXCEPT !["orders"] = Append(@, e.row)]
     /\ stmts' = Sent(stmts, "insert", "orders", e.row, FALSE)
  \/ /\ e.status = "CHANGED" /\ Holds(data["orders"], e.row.id)
     /\ data' = [data EXCEPT !["orders"] = Update(@, e.row)]
     /\ stmts' = Sent(stmts, "update", "orders", e.row, FALSE)
  \/ /\ e.status = "DELETED" \/ (e.status = "CHANGED" /\ ~Holds(data["orders"], e.row.id))
     /\ UNCHANGED <<data, stmts>>

onTrade(e) ==
  \/ /\ e.status = "ADDED"
     /\ data' = [data EXCEPT !["trades"] = Append(@, e.row)]
     /\ stmts' = Sent(stmts, "insert", "trades", e.row, FALSE)
  \/ /\ e.status = "CHANGED"
     /\ data' = [data EXCEPT !["trades"] = Update(@, e.row)]
     /\ UNCHANGED stmts
  \/ /\ e.status = "DELETED"
     /\ data' = [data EXCEPT !["trades"] = Delete(@, e.row.id)]
     /\ stmts' = IF ~Holds(data["trades"], e.row.id) THEN stmts
                 ELSE Sent(stmts, "update", "trades",
                           data["trades"][First(data["trades"], e.row.id)], FALSE)

onClosedTrade(e) ==
  /\ data' = [data EXCEPT !["closed"] = Append(@, e.row)]
  /\ stmts' = Sent(stmts, "insert", "closed", e.row, FALSE)

\* A mutant: a row that comes back into the summary is only updated.
onSummaryUpdated(e) ==
  /\ data' = [data EXCEPT !["summary"] =
                IF e.status = "DELETED" THEN Delete(@, e.row.id) ELSE Update(@, e.row)]
  /\ UNCHANGED stmts

onSummary(e) ==
  /\ data' = [data EXCEPT !["summary"] =
                CASE e.status = "ADDED"   -> Append(@, e.row)
                  [] e.status = "CHANGED" -> Update(@, e.row)
                  [] e.status = "DELETED" -> Delete(@, e.row.id)]
  /\ UNCHANGED stmts

\* A mutant: the queue is a stack.
handleNewest ==
  /\ pumping /\ chan # <<>>
  /\ LET e == Last(chan) IN
       /\ \/ e.kind = "accounts" /\ onAccount(e)
          \/ e.kind = "orders" /\ onOrder(e)
          \/ e.kind = "trades" /\ onTrade(e)
          \/ e.kind = "closed" /\ onClosedTrade(e)
          \/ e.kind = "summary" /\ onSummary(e)
       /\ missed' = Forgotten(e)
  /\ chan' = Front(chan)
  /\ UNCHANGED <<broker, changes, native, pumping, shown, saving, serializer, db>>

handleEvent ==
  /\ pumping /\ chan # <<>>
  /\ LET e == Head(chan) IN
       /\ \/ e.kind = "accounts" /\ onAccount(e)
          \/ e.kind = "orders" /\ onOrder(e)
          \/ e.kind = "trades" /\ onTrade(e)
          \/ e.kind = "closed" /\ onClosedTrade(e)
          \/ e.kind = "summary" /\ onSummary(e)
       /\ missed' = Forgotten(e)
  /\ chan' = Tail(chan)
  /\ UNCHANGED <<broker, changes, native, pumping, shown, saving, serializer, db>>

-----------------------------------------------------------------------------
(* index.js: start and save.                                               *)

\* The rows save() may come to, in its order: it looks at the lists as they
\* are when it goes on.
Rows(d) == UNION {{<<n, m>> : m \in 1 .. Len(d[SaveOrder[n]])} : n \in 1 .. Len(SaveOrder)}
NotBefore(p, q) == p[1] > q[1] \/ (p[1] = q[1] /\ p[2] >= q[2])

\* save() goes on: it sends the next row and waits for it, or it is done and
\* the strategy is initialised.  sent are the statements not yet run.
SaveFrom(d, from, sent) ==
  LET todo == {p \in Rows(d) : NotBefore(p, from)}
      next == CHOOSE p \in todo : \A q \in todo : NotBefore(q, p)
      kind == SaveOrder[next[1]]
  IN  IF todo = {} \/ serializer = "none"
      THEN at' = <<>> /\ inited' = TRUE /\ stmts' = sent
      ELSE /\ at' = next /\ UNCHANGED inited
           /\ stmts' = Sent(sent, "upsert", kind, d[kind][next[2]], TRUE)

\* The set... functions of dataset.js push the copy after what is there.
Snapshot == [k \in Kind |-> data[k] \o loaded[k]]

\* The worker is done: its copy is shown, and save() starts.
ShowSnapshot ==
  /\ toRead = <<>> /\ calls = <<>> /\ ~shown /\ ~pumping
  /\ data' = Snapshot
  /\ SaveFrom(Snapshot, <<1, 1>>, stmts)
  /\ shown' = TRUE
  /\ UNCHANGED <<broker, changes, native, chan, pumping, serializer, db, missed>>

\* A mutant: the answer that save() waits for never comes.
RunUnanswered(n) ==
  /\ db' = Run(stmts[n])
  /\ stmts' = RemoveAt(stmts, n)
  /\ UNCHANGED <<broker, changes, native, chan, pumping, data, shown, saving, serializer, missed>>

\* The database runs a statement; the answer to the one that save() waits for
\* lets it go on.
RunStatement(n) ==
  /\ db' = Run(stmts[n])
  /\ IF stmts[n].awaited
     THEN ~pumping /\ SaveFrom(data, <<at[1], at[2] + 1>>, RemoveAt(stmts, n))
     ELSE stmts' = RemoveAt(stmts, n) /\ UNCHANGED saving
  /\ UNCHANGED <<broker, changes, native, chan, pumping, data, shown, serializer, missed>>

Database == \E n \in 1 .. Len(stmts) : (serializer # "sqlite" => n = 1) /\ RunStatement(n)

-----------------------------------------------------------------------------
Next ==
  \/ \E k \in Kind, i \in Id : BrokerAdds(k, i) \/ BrokerChanges(k, i) \/ BrokerDeletes(k, i)
  \/ (\E i \in Id : ReadRow(i)) \/ TableRead \/ Subscribe
  \/ PumpStart \/ handleEvent \/ PumpEnd
  \/ ShowSnapshot \/ Database

Spec == Init /\ [][Next]_vars

\* The worker's thread, the Node thread and the database go on as long as they
\* can; the broker need not change anything.
Fairness == /\ WF_vars((\E i \in Id : ReadRow(i)) \/ TableRead \/ Subscribe)
            /\ WF_vars(PumpStart \/ handleEvent \/ PumpEnd)
            /\ WF_vars(ShowSnapshot)
            /\ WF_vars(Database)

FairSpec == Spec /\ Fairness

-----------------------------------------------------------------------------
\* The types of the state: a list holds rows the broker has had, and save()
\* waits for one of the statements that are under way.
TypeOK ==
  /\ broker \in [Kind -> [Id -> [ver : Nat, live : BOOLEAN]]]
  /\ changes \in 0 .. MaxChanges
  /\ serializer \in Driver
  /\ toRead \in Seq(Kind) /\ unread \subseteq Id
  /\ loaded \in [Kind -> Seq(Element)]
  /\ calls \in Seq(Kind \X Status)
  /\ chan \in Seq(Event)
  /\ pumping \in BOOLEAN /\ shown \in BOOLEAN /\ inited \in BOOLEAN
  /\ data \in [Kind -> Seq(Element)]
  /\ at \in {<<>>} \cup (Nat \X Nat)
  /\ stmts \in Seq(Statement)
  /\ db \in [Kind -> [Id -> Nat]]
  /\ missed \subseteq Kind \X Id
  /\ (at # <<>>) <=> (\E n \in 1 .. Len(stmts) : stmts[n].awaited)

\* No list of the dataset holds a row twice: although rows come both from the
\* copy and from events, nothing is in both (the worker subscribes last).  The
\* exception is a row of the summary that was copied, went unnoticed and came back.
NoDuplicates ==
  \A k \in Kind : \A m, n \in DOMAIN data[k] :
    /\ data[k][m].id = data[k][n].id
    /\ k = "summary" => <<k, data[k][m].id>> \notin missed
    => m = n

\* The dataset shows a row as the broker has it.  Orders stay in the dataset
\* when they are gone from the broker's table.
Agrees(k, i) ==
  LET row == broker[k][i] IN
    /\ row.live => Holds(data[k], i) /\ data[k][First(data[k], i)].ver = row.ver
    /\ ~row.live /\ k # "orders" => ~Holds(data[k], i)

NothingPending(k, i) == \A n \in 1 .. Len(chan) : chan[n].kind # k \/ chan[n].row.id # i

\* Once the copy is shown, the dataset shows every row as the broker has it, up
\* to the events still in the queue and the rows of which a change fell into
\* one of the two gaps: between the copy of a table and its subscription, and
\* between the subscription and the showing of the copy.
Mirror ==
  shown => \A k \in Kind, i \in Id :
             <<k, i>> \notin missed /\ NothingPending(k, i) => Agrees(k, i)

\* The strategy never sees a row go back to an earlier version, but for a row of
\* the summary of which it has missed a change.
NeverBackwards ==
  [][\A k \in Kind, i \in Id :
       /\ Holds(data[k], i) /\ Holds(data'[k], i)
       /\ k = "summary" => <<k, i>> \notin missed'
       => data[k][First(data[k], i)].ver <= data'[k][First(data'[k], i)].ver]_vars

\* When nothing is under way, every order and every closed position the
\* strategy sees is stored as it sees it ("Transaction data can be saved to the
\* database", README.md:9).
TransactionsAreStored ==
  inited /\ serializer # "none" /\ stmts = <<>> =>
    \A k \in Kind \cap {"orders", "closed"} : \A n \in DOMAIN data[k] :
      db[k][data[k][n].id] = data[k][n].ver

\* When nothing is under way, getPositions returns the open positions ("Get an
\* open position list", README.md:272).
PositionsAreOpen ==
  inited /\ chan = <<>> => \A i \in Id : Agrees("trades", i)

\* At the end the dataset shows all that was not missed, and the strategy has
\* been initialised.
EventuallyShown ==
  <>[](inited /\ \A k \in Kind, i \in Id : <<k, i>> \notin missed => Agrees(k, i))
=============================================================================
