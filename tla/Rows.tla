-------------------------------- MODULE Rows --------------------------------
(***************************************************************************)
(* What is in a row on its way from the broker to the strategy and to the  *)
(* database.  Module LiveData follows which rows are seen and in which     *)
(* order; here is one row of one table, column by column.                  *)
(*                                                                         *)
(* valueOfRow copies the columns of a ForexConnect row to an object of     *)
(* table/, toValue writes the members of the object to a JavaScript        *)
(* object, the entity of storage/entity takes them over, and sql.js writes *)
(* the columns that the entity lists and that have a value.  A column that *)
(* is dropped on the way is not an error: the database keeps what an       *)
(* earlier process has stored there.                                       *)
(*                                                                         *)
(* A value is the version of the broker's row that it comes from; the      *)
(* conversions of times and strings tell the same values apart.  The       *)
(* members that no row has set are Blank.  Only the close of a position is *)
(* compared, with the highest and lowest that are kept beside it: it is a  *)
(* price.  Ordinary SQL statements are executed at once and in order.      *)
(***************************************************************************)
EXTENDS Naturals, Sequences

CONSTANTS
  Close,        \* the prices at which a position could be closed
  MaxVersion,   \* bound: the versions of the broker's row
  MaxQueued,    \* bound: the events that wait
  MaxStarts     \* bound: how often the process is started

ASSUME RowsAssumption ==
  /\ Close \subseteq Nat \ {0} /\ MaxVersion \in Nat \ {0} /\ MaxQueued \in Nat /\ MaxStarts \in Nat \ {0}

VARIABLES
  kind,         \* the class of the row (it never changes)
  row,          \* <<>>, or the broker's row: its version and its close
  version,      \* the newest version there was
  held,         \* <<>>, or the object that Order2Go has copied from the row
  queued,       \* the events of the row that wait: status and object
  phase,        \* where the process is: "down", "reading", "loading", "running"
  starts,       \* how often the process was started
  shown,        \* <<>>, or the entity in the dataset
  stored,       \* <<>>, or the row in the database
  known         \* history: the closes that the entity was shown with by events

rowVars == <<kind, row, version, held, queued, phase, starts, shown, stored, known>>

\* What the constructors set the members to, and the default of a column.
Blank == 0
Kind == {"account", "offer", "order", "trade", "closed_trade", "summary"}

-----------------------------------------------------------------------------
(* The members of the classes of table/, as toValue names them, without    *)
(* the status                                                              *)

AccountFields == {"account_id", "account_name", "account_kind", "balance", "non_trade_equity",
  "m2m_equity", "margin_call_flag", "last_margin_call_date", "maintenance_type", "amount_limit",
  "base_unit_size", "maintenance_flag", "manager_account_id", "leverage_profile_id", "atp_id"}
AccountFigures == {"equity", "day_pl", "used_margin", "usable_margin", "gross_pl",
  "usable_margin_in_percentage", "Usable_maint_margin_in_percentage"}

OfferFields == {"offer_id", "symbol", "bid", "ask", "high", "low", "volume", "time",
  "sell_interest", "buy_interest", "contract_currency", "digits", "pip_cost", "point_size"}
OfferTerms == {"symbol_type", "contract_multiplier", "value_date"}

OrderFields == {"order_id", "request_id", "account_id", "offer_id", "trade_id", "net_quantity",
  "side", "stage", "type", "order_status", "amount", "rate", "execution_rate", "rate_min"}
OrderTerms == {"rate_max", "stop", "limit", "type_stop", "type_limit", "status_time",
  "at_market", "trail_step", "trail_rate", "time_in_force", "contingent_order_id",
  "contingency_type", "primary_id", "origin_amount", "filled_amount"}
OrderRest == {"working_indicator", "peg_type", "peg_offset", "expire_time", "value_date"}

TradeFields == {"trade_id", "account_id", "offer_id", "amount", "side", "open_rate", "open_time",
  "used_margin", "pl", "gross_pl", "close", "stop", "limit", "open_quote_id", "open_order_id"}
TradeRest == {"open_order_req_id", "open_order_request_txt", "commission", "rollover_interest",
  "trade_id_origin", "value_date", "dividends"}
ClosedFields == {"close_rate", "close_time", "net_pl", "close_quote_id", "close_order_id",
  "close_order_req_id", "close_order_request_txt", "trade_id_remain"}

SummaryFields == {"offer_id", "sell_net_pl", "sell_net_pl_pip", "sell_amount", "sell_avg_open",
  "buy_close", "sell_close", "buy_avg_open", "buy_amount", "buy_net_pl", "buy_net_pl_pip",
  "amount", "gross_pl", "net_pl", "rollover_interest_sum"}
SummaryRest == {"used_margin", "used_margin_buy", "used_margin_sell", "commission",
  "close_commission", "dividends"}

\* A closed trade inherits the members of a trade.
Members ==
  [account |-> AccountFields \cup AccountFigures, offer |-> OfferFields \cup OfferTerms,
   order |-> OrderFields \cup OrderTerms \cup OrderRest, trade |-> TradeFields \cup TradeRest,
   closed_trade |-> TradeFields \cup TradeRest \cup ClosedFields,
   summary |-> SummaryFields \cup SummaryRest]

\* A mutant: toValue forgets a member.
OrderKeysForgotten == Members.order \ {"execution_rate"}

\* The toValue functions; that of a closed trade leaves four members out.
AccountKeys == Members.account
OfferKeys == Members.offer
OrderKeys == Members.order
TradeKeys == Members.trade
ClosedKeys == Members.closed_trade \ {"used_margin", "close", "stop", "limit"}
SummaryKeys == Members.summary

Shown ==
  [account |-> AccountKeys, offer |-> OfferKeys, order |-> OrderKeys, trade |-> TradeKeys,
   closed_trade |-> ClosedKeys, summary |-> SummaryKeys]

toValue(o) == [c \in Shown[kind] |-> o[c]]

-----------------------------------------------------------------------------
(* ForexConnect's rows to objects                                          *)

\* Each valueOfRow for a row of a table calls the one for a row without the columns that
\* ForexConnect computes, and then sets these.
AccountComputed == {"used_margin", "equity", "day_pl", "usable_margin", "gross_pl",
  "usable_margin_in_percentage", "Usable_maint_margin_in_percentage"}
AccountPlain == Members.account \ AccountComputed
OfferComputed == {"pip_cost"}
OfferPlain == Members.offer \ OfferComputed
OrderComputed == {"stop", "limit", "type_stop", "type_limit"}
OrderPlain == Members.order \ OrderComputed
TradeComputed == {"used_margin", "pl", "gross_pl", "close", "stop", "limit"}
TradePlain == Members.trade \ TradeComputed
ClosedComputed == {"pl", "net_pl"}
ClosedPlain == ClosedKeys \ ClosedComputed
SummaryPlain == Members.summary

Copied ==
  [account |-> AccountPlain \cup AccountComputed, offer |-> OfferPlain \cup OfferComputed,
   order |-> OrderPlain \cup OrderComputed, trade |-> TradePlain \cup TradeComputed,
   closed_trade |-> ClosedPlain \cup ClosedComputed, summary |-> SummaryPlain]

valueOfRow(r) ==
  [c \in Members[kind] |->
     IF c \notin Copied[kind] THEN Blank
     ELSE IF kind = "trade" /\ c = "close" THEN r.close
     ELSE r.version]

-----------------------------------------------------------------------------
(* The entities and their statements                                       *)

AccountColumns == {"account_id", "account_name", "account_kind", "balance", "equity", "gross_pl",
  "used_margin", "usable_margin", "amount_limit", "currency"}
OfferColumns == {"offer_id", "symbol", "symbol_type", "bid", "ask", "high", "low", "volume",
  "buy_interest", "sell_interest", "contract_currency", "digits", "point_size", "pip_cost",
  "contract_multiplier", "time"}
OrderColumns == {"account_id", "order_id", "request_id", "offer_id", "trade_id", "side", "stage",
  "type", "order_status", "amount", "rate", "execution_rate", "rate_min", "rate_max", "stop",
  "limit", "status_time", "primary_id", "origin_amount", "filled_amount"}
PositionColumns == {"account_id", "trade_id", "offer_id", "amount", "side", "open_rate",
  "open_time", "used_margin", "pl", "gross_pl", "close", "stop", "limit", "high", "low",
  "open_quote_id", "open_order_id", "open_order_req_id", "commission", "rollover_interest",
  "trade_id_origin"}
ClosedColumns == {"account_id", "trade_id", "offer_id", "amount", "side", "open_rate",
  "open_time", "pl", "net_pl", "gross_pl", "open_quote_id", "open_order_id", "open_order_req_id",
  "close_rate", "close_time", "close_quote_id", "close_order_id", "close_order_req_id",
  "commission", "rollover_interest", "trade_id_origin", "trade_id_remain"}

\* The summary has no entity and is not stored.
Columns ==
  [account |-> AccountColumns, offer |-> OfferColumns, order |-> OrderColumns,
   trade |-> PositionColumns, closed_trade |-> ClosedColumns, summary |-> {}]

\* An entity has the columns of its object (BaseEntity); the others are undefined.
\* The columns of a statement: those that are undefined are left out.
retrieveValues(entity) == Columns[kind] \cap DOMAIN entity

Insert(entity) ==
  [c \in Columns[kind] |-> IF c \in retrieveValues(entity) THEN entity[c] ELSE Blank]

Update(entity, old) ==
  [c \in Columns[kind] |-> IF c \in retrieveValues(entity) THEN entity[c] ELSE old[c]]

\* INSERT fails if the row is there, UPDATE does nothing if it is not.
Inserted(entity) == IF stored = <<>> THEN <<Insert(entity)>> ELSE stored
Updated(entity) == IF stored = <<>> THEN stored ELSE <<Update(entity, stored[1])>>

\* insertOnDupKey, insertOnConflict
Upserted(entity) == IF stored = <<>> THEN <<Insert(entity)>> ELSE <<Update(entity, stored[1])>>

-----------------------------------------------------------------------------
(* The broker                                                              *)

Row == [version : 1 .. MaxVersion, close : Close]

RowsInit ==
  /\ kind \in Kind
  /\ row \in {<<>>} \cup {<<r>> : r \in {s \in Row : s.version = 1}}
  /\ kind \in {"account", "offer"} => row # <<>>
  /\ version = 1
  /\ held = <<>> /\ queued = <<>> /\ phase = "down" /\ starts = 0
  /\ shown = <<>> /\ stored = <<>> /\ known = {}

\* What TableListener has subscribed: events come once the rows have been read.
Subscribed(status) ==
  CASE kind \in {"order", "trade", "summary"} -> TRUE
    [] kind = "account" -> status = "changed"
    [] kind = "closed_trade" -> status = "added"
    [] kind = "offer" -> FALSE

Listen(status, o) ==
  queued' = IF phase \in {"loading", "running"} /\ Subscribed(status)
            THEN Append(queued, [status |-> status, object |-> o]) ELSE queued

Room == Len(queued) < MaxQueued
Elsewhere == UNCHANGED <<kind, held, phase, starts, shown, stored, known>>

RowAdded(close) ==
  /\ row = <<>> /\ version < MaxVersion /\ Room
  /\ version' = version + 1
  /\ row' = <<[version |-> version + 1, close |-> close]>>
  /\ Listen("added", valueOfRow(row'[1]))
  /\ Elsewhere

RowChanged(close) ==
  /\ row # <<>> /\ version < MaxVersion /\ Room /\ kind \notin {"closed_trade", "offer"}
  /\ version' = version + 1
  /\ row' = <<[version |-> version + 1, close |-> close]>>
  /\ Listen("changed", valueOfRow(row'[1]))
  /\ Elsewhere

RowDeleted ==
  /\ row # <<>> /\ Room /\ kind \in {"order", "trade", "summary"}
  /\ row' = <<>>
  /\ Listen("deleted", valueOfRow(row[1]))
  /\ UNCHANGED version /\ Elsewhere

\* onTablesUpdates: an update of an offer has the columns that have changed.
OfferUpdate(given) ==
  [c \in Members.offer |-> IF c \in given \cup {"symbol"} THEN version + 1 ELSE Blank]

\* Offer::update; while the history loads, the collector keeps the updates for later.
UpdateOffer(o, new) ==
  [c \in Members.offer |->
     IF c \in {"bid", "ask", "high", "low", "volume", "time"} /\ new[c] # Blank
     THEN new[c] ELSE o[c]]

OfferChanged(given) ==
  /\ kind = "offer" /\ version < MaxVersion /\ Room
  /\ version' = version + 1
  /\ row' = <<[row[1] EXCEPT !.version = @ + 1]>>
  /\ IF phase \in {"loading", "running"}
     THEN /\ queued' = Append(queued, [status |-> "changed", object |-> OfferUpdate(given)])
          /\ held' \in {held, <<UpdateOffer(held[1], OfferUpdate(given))>>}
     ELSE UNCHANGED <<queued, held>>
  /\ UNCHANGED <<kind, phase, starts, shown, stored, known>>

-----------------------------------------------------------------------------
(* The process                                                             *)

Start ==
  /\ phase = "down" /\ starts < MaxStarts
  /\ starts' = starts + 1 /\ phase' = "reading"
  /\ UNCHANGED <<kind, row, version, held, queued, shown, stored, known>>

\* getOffers, getAccounts, getOrders, getOpenTrades, getClosedTrades, getSummary
ReadRow ==
  /\ phase = "reading"
  /\ phase' = "loading"
  /\ held' = IF row = <<>> THEN <<>> ELSE <<valueOfRow(row[1])>>
  /\ UNCHANGED <<kind, row, version, queued, starts, shown, stored, known>>

\* The data of start() come to the dataset.
ShowRow ==
  /\ phase = "loading"
  /\ phase' = "running"
  /\ shown' = IF held = <<>> THEN shown ELSE <<toValue(held[1])>>
  /\ known' = IF held = <<>> THEN known ELSE {}
  /\ UNCHANGED <<kind, row, version, held, queued, starts, stored>>

\* save, after start and before the process stops
Save ==
  /\ phase = "running" /\ shown # <<>> /\ Columns[kind] # {}
  /\ stored' = Upserted(shown[1])
  /\ UNCHANGED <<kind, row, version, held, queued, phase, starts, shown, known>>

\* The process ends, or is killed.
Stop ==
  /\ phase # "down"
  /\ phase' = "down" /\ held' = <<>> /\ queued' = <<>> /\ shown' = <<>> /\ known' = {}
  /\ UNCHANGED <<kind, row, version, starts, stored>>

-----------------------------------------------------------------------------
(* The event handlers                                                      *)

\* A mutant: everything that the update has is taken over.
validOfferAll(o) == DOMAIN o

\* onOffer: objectFilter, the listed columns that have a value
validOffer(o) ==
  {c \in {"symbol", "time", "bid", "ask", "high", "low", "volume"} : o[c] # Blank}

onOffer(o) ==
  /\ shown' = <<[c \in DOMAIN shown[1] |-> IF c \in validOffer(o) THEN o[c] ELSE shown[1][c]]>>
  /\ UNCHANGED <<stored, known>>

onAccount(o) == shown' = <<o>> /\ UNCHANGED <<stored, known>>

onOrder(status, o) ==
  /\ CASE status = "added" -> shown' = <<o>> /\ stored' = Inserted(o)
       [] status = "changed" /\ shown # <<>> -> shown' = <<o>> /\ stored' = Updated(o)
       [] OTHER -> UNCHANGED <<shown, stored>>
  /\ UNCHANGED known

WithHighLow(o, high, low) ==
  [c \in DOMAIN o \cup {"high", "low"} |->
     IF c = "high" THEN high ELSE IF c = "low" THEN low ELSE o[c]]

\* A mutant: the last one is taken over as it is.
setHighLowLast(o, prev) == o

\* Position.setHighLow: nothing is smaller or greater than what is undefined.
setHighLow(o, prev) ==
  IF "high" \notin DOMAIN prev THEN o
  ELSE WithHighLow(o, IF o.high < prev.high THEN prev.high ELSE o.high,
                      IF o.low > prev.low THEN prev.low ELSE o.low)

onTrade(status, object) ==
  LET o == WithHighLow(object, object.close, object.close) IN
    CASE status = "added" ->
           /\ shown' = <<o>> /\ stored' = Inserted(o)
           /\ known' = {o.close}
      [] status = "changed" /\ shown # <<>> ->
           /\ shown' = <<setHighLow(o, shown[1])>>
           /\ known' = known \cup {o.close}
           /\ UNCHANGED stored
      [] status = "deleted" /\ shown # <<>> ->
           /\ shown' = <<>> /\ stored' = Updated(shown[1])
           /\ UNCHANGED known
      [] OTHER -> UNCHANGED <<shown, stored, known>>

onClosedTrade(o) == shown' = <<o>> /\ stored' = Inserted(o) /\ UNCHANGED known

onSummary(status, o) ==
  /\ shown' = IF status = "added" THEN <<o>>
              ELSE IF shown = <<>> THEN shown
              ELSE IF status = "changed" THEN <<o>> ELSE <<>>
  /\ UNCHANGED <<stored, known>>

\* The pump hands over the oldest event.  A row that the dataset has not got is not
\* changed; updateOffer and updateAccount find nothing before it is shown.
HandleEvent ==
  /\ queued # <<>> /\ phase \in {"loading", "running"}
  /\ queued' = Tail(queued)
  /\ LET o == toValue(Head(queued).object) status == Head(queued).status IN
       CASE kind \in {"offer", "account"} /\ shown = <<>> -> UNCHANGED <<shown, stored, known>>
         [] kind = "offer" /\ shown # <<>> -> onOffer(o)
         [] kind = "account" /\ shown # <<>> -> onAccount(o)
         [] kind = "order" -> onOrder(status, o)
         [] kind = "trade" -> onTrade(status, o)
         [] kind = "closed_trade" -> onClosedTrade(o)
         [] kind = "summary" -> onSummary(status, o)
  /\ UNCHANGED <<kind, row, version, held, phase, starts>>

RowsNext ==
  \/ \E close \in Close : RowAdded(close) \/ RowChanged(close)
  \/ RowDeleted
  \/ \E given \in SUBSET {"time", "bid", "volume"} : OfferChanged(given)
  \/ Start \/ ReadRow \/ ShowRow \/ Save \/ Stop \/ HandleEvent

RowsSpec == RowsInit /\ [][RowsNext]_rowVars

-----------------------------------------------------------------------------
\* What the strategy sees and what is stored is whole: all columns of a row come from
\* one version of it, through every copy, update, save and restart.  No process leaves
\* a column behind that an earlier one has stored.  The exceptions: the currency of an
\* account, which nothing provides; the close and its extremes, which are prices here;
\* and the live columns of an offer.
Live == IF kind = "offer" THEN {"bid", "ask", "high", "low", "volume", "time", "symbol"}
        ELSE IF kind = "account" THEN {"currency"} ELSE {"close", "high", "low"}

OneVersion(r, columns) == \E v \in 1 .. version : \A c \in columns \ Live : r[c] = v

RowIsWhole ==
  /\ shown # <<>> => OneVersion(shown[1], Shown[kind])
  /\ stored # <<>> => OneVersion(stored[1], Columns[kind])

\* The highest and the lowest close of a position are those of all the events it was
\* shown with, whichever of them came first, and are stored when it is closed.
ExtremesAreKept ==
  /\ kind = "trade" /\ shown # <<>> /\ known # {} =>
       /\ shown[1].high \in known /\ shown[1].low \in known
       /\ \A close \in known : shown[1].low <= close /\ close <= shown[1].high
  /\ kind = "trade" /\ shown = <<>> /\ stored # <<>> /\ known # {} =>
       \A close \in known : stored[1].low <= close /\ close <= stored[1].high
=============================================================================
