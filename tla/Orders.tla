------------------------------- MODULE Orders -------------------------------
(***************************************************************************)
(* The order functions of the strategy (Order2Go::openPosition,            *)
(* changeStopLoss, changeTakeProfit, closePosition, closeAllPositions,     *)
(* behind forexapi.cpp and run/forexapi/index.js).                         *)
(*                                                                         *)
(* The Node thread makes one call at a time.  It looks positions and stop  *)
(* and limit orders up in ForexConnect's tables, row by row, makes a       *)
(* request of what it found, and waits for the answer.  The tables belong  *)
(* to the API thread, which brings them up to date while they are read,    *)
(* and the server may have moved on when it executes the request.  How the *)
(* answer is waited for is the subject of ResponseListener: here a call    *)
(* gets the answers to its own requests, or its wait times out.            *)
(*                                                                         *)
(* The server is external.  A position may have several stops; an account  *)
(* of Netting has no orders that close a given position, there an opposite *)
(* order reduces the oldest ones and opens a position with the rest.       *)
(***************************************************************************)
EXTENDS Naturals, Sequences

LOCAL Seqs == INSTANCE SequencesExt

CONSTANTS
  Account, Symbol,
  Netting,      \* the accounts without canCreateMarketCloseOrder
  m_Accounts,   \* those copied when the tables were loaded
  m_Symbols,    \* the symbols of the configuration (the keys of m_Offers)
  Unit,         \* bound: the amounts
  Rate,         \* bound: the rates of stops and limits
  MaxTrades,    \* bound: the positions there ever are
  MaxActs       \* bound: the calls of the strategy, and what others do

ASSUME OrdersAssumption ==
  /\ Netting \subseteq Account /\ m_Accounts \subseteq Account /\ m_Symbols \subseteq Symbol
  /\ Unit \subseteq Nat \ {0} /\ Rate \subseteq Nat \ {0}
  /\ MaxTrades \in Nat \ {0} /\ MaxActs \in Nat

VARIABLES
  trades,       \* the server's open positions
  orders,       \* its stop and limit orders
  born,         \* how many positions there were
  tradesTable,  \* the rows of the trades table of ForexConnect
  ordersTable,  \* the rows of the orders table
  moves,        \* how often others have done something
  opc,          \* where the Node thread is
  call,         \* the call: the function, its arguments and what it has found
  sent,         \* the requests that the server has not answered
  answers,      \* its answers to requests of the call
  calls         \* how many calls there were

server == <<trades, orders, born>>
tables == <<tradesTable, ordersTable>>
node == <<opc, call, calls>>
ordersVars == <<server, tables, moves, node, sent, answers>>

Id == 1 .. MaxTrades
Side == {"B", "S"}
Type == {"S", "L"}
Position == [account : Account, symbol : Symbol, side : Side, amount : Unit]
Order == [trade : Id, type : Type, rate : Rate, nr : 0 .. MaxActs]
AnySymbol == "any symbol"
NoCall == [what |-> "none"]
NoPosition == [amount |-> 0]

\* O2G2::Buy and O2G2::Sell.  A mutant first: the side of the position itself.
SameBS(bs) == bs
getOppositeBS(bs) == IF bs = "B" THEN "S" ELSE "B"

OrdersInit ==
  /\ born = MaxTrades - 1
  /\ \E n \in 0 .. born : \E ids \in [1 .. n -> 1 .. born] :
       /\ \A j, k \in 1 .. n : j < k => ids[j] < ids[k]
       /\ trades \in [{ids[k] : k \in 1 .. n} -> Position]
       /\ tradesTable = [k \in 1 .. n |-> [id |-> ids[k], row |-> trades[ids[k]]]]
  /\ \/ orders = {} /\ ordersTable = <<>>
     \/ \E o \in Order : o.trade \in DOMAIN trades /\ o.nr = 0 /\ orders = {o} /\ ordersTable = <<o>>
  /\ moves = 0
  /\ opc = "idle" /\ call = NoCall /\ sent = {} /\ answers = {} /\ calls = 0

-----------------------------------------------------------------------------
(* The calls                                                               *)

Begin(c, pc) ==
  /\ opc = "idle" /\ calls + moves < MaxActs
  /\ calls' = calls + 1
  /\ call' = c
  /\ opc' = pc
  /\ answers' = {}
  /\ UNCHANGED <<server, tables, moves>>

Send(c, requests) ==
  /\ call' = c
  /\ sent' = sent \cup {[nr |-> calls, request |-> r, of |-> c] : r \in requests}
  /\ opc' = "wait"
  /\ UNCHANGED <<server, tables, moves, calls, answers>>

\* The call returns that it is completed, or that it is not.
Return(completed) ==
  /\ opc' = IF completed THEN "completed" ELSE "failed"
  /\ UNCHANGED <<server, tables, moves, call, sent, answers, calls>>

\* "The account does not exist.", "The symbol does not exist."
Unknown(account, symbol) ==
  account \notin m_Accounts \/ (symbol # AnySymbol /\ symbol \notin m_Symbols)

openPosition ==
  \E account \in Account, symbol \in Symbol, bs \in Side, amount \in Unit, stop \in {0} \cup Rate :
    LET c == [what |-> "open", account |-> account, symbol |-> symbol, side |-> bs,
              amount |-> amount, rate |-> stop] IN
      IF Unknown(account, symbol) THEN Begin(c, "failed") /\ UNCHANGED sent
      ELSE /\ Begin(c, "wait")
           /\ sent' = sent \cup {[nr |-> calls + 1, of |-> c,
                request |-> [op |-> "open", account |-> account, symbol |-> symbol,
                             side |-> bs, amount |-> amount, rate |-> stop]]}

\* The amount of a stop or limit is that of the position or the one asked for; nothing
\* here depends on it.
Change(type) ==
  \E account \in Account, trade \in Id, rate \in Rate :
    /\ Begin([what |-> "change", account |-> account, trade |-> trade, type |-> type,
              rate |-> rate, i |-> 1, found |-> NoPosition, left |-> FALSE, fresh |-> FALSE],
             "find_trade")
    /\ UNCHANGED sent

changeStopLoss == Change("S")
changeTakeProfit == Change("L")

closePosition ==
  \E account \in Account, trade \in Id, amount \in {0} \cup Unit :
    /\ Begin([what |-> "close", account |-> account, trade |-> trade, amount |-> amount,
              i |-> 1, found |-> NoPosition], "find_trade")
    /\ UNCHANGED sent

\* The positions the call is about, in the table as it is now.
Matches(row, c) == row.account = c.account /\ c.symbol \in {AnySymbol, row.symbol}
Meant(c) == {tradesTable[i].id : i \in {j \in DOMAIN tradesTable : Matches(tradesTable[j].row, c)}}

closeAllPositions ==
  \E account \in Account, symbol \in Symbol \cup {AnySymbol} :
    LET c == [what |-> "close_all", account |-> account, symbol |-> symbol] IN
      /\ Begin([what |-> "close_all", account |-> account, symbol |-> symbol, i |-> 1,
                sides |-> {}, meant |-> Meant(c), left |-> FALSE],
               IF Unknown(account, symbol) THEN "failed" ELSE "scan")
      /\ UNCHANGED sent

-----------------------------------------------------------------------------
(* The tables are read row by row                                          *)

Look(c) == call' = c /\ UNCHANGED <<server, tables, moves, opc, calls, sent, answers>>

\* getOpenTrade: not there, the next row, or found.
NoTrade == opc = "find_trade" /\ call.i > Len(tradesTable) /\ Return(FALSE)

ThisTrade(row) == row.id = call.trade /\ row.row.account = call.account

NextTrade ==
  /\ opc = "find_trade" /\ call.i <= Len(tradesTable)
  /\ ~ThisTrade(tradesTable[call.i])
  /\ Look([call EXCEPT !.i = @ + 1])

FindTrade ==
  opc = "find_trade" /\ call.i <= Len(tradesTable) /\ ThisTrade(tradesTable[call.i])

Found == [call EXCEPT !.found = tradesTable[call.i].row]

Amount(c, found) == IF c.amount > 0 THEN c.amount ELSE found.amount

\* closePosition: the order names the position if the account can close one.
CloseRequest(found) ==
  IF call.account \in Netting
  THEN [op |-> "net_open", account |-> found.account, symbol |-> found.symbol,
        side |-> getOppositeBS(found.side), amount |-> Amount(call, found)]
  ELSE [op |-> "close", account |-> found.account, symbol |-> found.symbol,
        side |-> getOppositeBS(found.side), amount |-> Amount(call, found),
        trade |-> call.trade]

FoundToClose ==
  /\ FindTrade /\ call.what = "close"
  /\ Send(Found, {CloseRequest(Found.found)})

FoundToChange ==
  /\ FindTrade /\ call.what = "change"
  /\ opc' = "find_order"
  /\ call' = [Found EXCEPT !.i = 1]
  /\ UNCHANGED <<server, tables, moves, calls, sent, answers>>

\* Has the orders table all the orders of this type that the position has or will have?
OrdersOf(os, c) == {o \in os : o.trade = c.trade /\ o.type = c.type}
InOrder(c) ==
  /\ OrdersOf(orders, c) = OrdersOf({ordersTable[i] : i \in DOMAIN ordersTable}, c)
  /\ \A o, p \in OrdersOf(orders, c) : o = p
  /\ \A s \in sent : s.request.op \notin {"create", "edit"}

\* A mutant: any order of the position is taken.
AnyOrder(o) == o.trade = call.trade

\* getOrderID
ThisOrder(o) == o.trade = call.trade /\ o.type = call.type

NextOrder ==
  /\ opc = "find_order" /\ call.i <= Len(ordersTable)
  /\ ~ThisOrder(ordersTable[call.i])
  /\ Look([call EXCEPT !.i = @ + 1])

CreateStop ==
  /\ opc = "find_order" /\ call.i > Len(ordersTable)
  /\ Send([call EXCEPT !.fresh = InOrder(call) /\ ~call.left],
       {[op |-> "create", account |-> call.account, trade |-> call.trade, type |-> call.type,
         side |-> getOppositeBS(call.found.side), rate |-> call.rate]})

EditStop ==
  /\ opc = "find_order" /\ call.i <= Len(ordersTable)
  /\ ThisOrder(ordersTable[call.i])
  /\ Send([call EXCEPT !.fresh = InOrder(call) /\ ~call.left],
       {[op |-> "edit", order |-> ordersTable[call.i].nr, trade |-> ordersTable[call.i].trade,
         type |-> ordersTable[call.i].type, rate |-> call.rate]})

\* A mutant: one side for each instrument.
FirstSide(sides, row) ==
  IF \E s \in sides : s[1] = row.symbol THEN sides ELSE sides \cup {<<row.symbol, row.side>>}

\* offerBSInfo: the sides there are of each instrument
AddSide(sides, row) == sides \cup {<<row.symbol, row.side>>}

Scan ==
  /\ opc = "scan" /\ call.i <= Len(tradesTable)
  /\ LET row == tradesTable[call.i].row IN
       Look([call EXCEPT !.i = @ + 1,
                         !.sides = IF Matches(row, call) THEN AddSide(@, row) ELSE @])

\* Nothing to close is a success.
ScanFindsNothing ==
  opc = "scan" /\ call.i > Len(tradesTable) /\ call.sides = {} /\ Return(TRUE)

\* A batch with an order of the net quantity for each instrument and side.
ScanEnds ==
  /\ opc = "scan" /\ call.i > Len(tradesTable) /\ call.sides # {}
  /\ Send(call, {[op |-> "net_close", account |-> call.account, symbol |-> s[1],
                  side |-> getOppositeBS(s[2])] : s \in call.sides})

-----------------------------------------------------------------------------
(* The end of a call                                                       *)

Mine == {s \in sent : s.nr = calls}

CallCompletes == opc = "wait" /\ Mine = {} /\ answers = {"completed"} /\ Return(TRUE)
CallFails == opc = "wait" /\ "failed" \in answers /\ Return(FALSE)
CallTimesOut == opc = "wait" /\ Mine # {} /\ Return(FALSE)

\* The strategy gets the result and may call again.
Idle ==
  /\ opc \in {"completed", "failed"}
  /\ opc' = "idle" /\ call' = NoCall
  /\ UNCHANGED <<server, tables, moves, calls, sent, answers>>

-----------------------------------------------------------------------------
(* The server                                                              *)

Answer(s, a) ==
  /\ sent' = sent \ {s}
  /\ answers' = IF s.nr = calls THEN answers \cup {a} ELSE answers
  /\ UNCHANGED <<tables, moves, node>>

Refuse(s) == s \in sent /\ Answer(s, "failed") /\ UNCHANGED server

\* Positions that are gone take their stops and limits with them.
Become(ts) == trades' = ts /\ orders' = {o \in orders : o.trade \in DOMAIN ts}

WithNew(ts, p) ==
  [i \in DOMAIN ts \cup {born + 1} |-> IF i \in DOMAIN ts THEN ts[i] ELSE p]

ExecuteOpen(s) ==
  LET r == s.request IN
    /\ r.op = "open" /\ born < MaxTrades
    /\ trades' = WithNew(trades, [account |-> r.account, symbol |-> r.symbol, side |-> r.side,
                                  amount |-> r.amount])
    /\ orders' = orders \cup
         (IF r.rate = 0 THEN {} ELSE {[trade |-> born + 1, type |-> "S", rate |-> r.rate, nr |-> s.nr]})
    /\ born' = born + 1

ExecuteCreate(s) ==
  LET r == s.request IN
    /\ r.op = "create" /\ r.trade \in DOMAIN trades
    /\ trades[r.trade].account = r.account /\ trades[r.trade].side # r.side
    /\ orders' = orders \cup {[trade |-> r.trade, type |-> r.type, rate |-> r.rate, nr |-> s.nr]}
    /\ UNCHANGED <<trades, born>>

ExecuteEdit(s) ==
  LET r == s.request IN
    /\ r.op = "edit"
    /\ \E o \in orders :
         /\ o.nr = r.order /\ o.trade = r.trade /\ o.type = r.type
         /\ orders' = (orders \ {o}) \cup {[o EXCEPT !.rate = r.rate]}
    /\ UNCHANGED <<trades, born>>

Less(ts, i, amount) ==
  IF ts[i].amount = amount THEN [j \in DOMAIN ts \ {i} |-> ts[j]]
  ELSE [ts EXCEPT ![i].amount = @ - amount]

ExecuteClose(s) ==
  LET r == s.request IN
    /\ r.op = "close" /\ r.trade \in DOMAIN trades
    /\ trades[r.trade].account = r.account /\ trades[r.trade].side # r.side
    /\ trades[r.trade].amount >= r.amount
    /\ Become(Less(trades, r.trade, r.amount))
    /\ UNCHANGED born

Against(r) ==
  {i \in DOMAIN trades : /\ trades[i].account = r.account /\ trades[i].symbol = r.symbol
                         /\ trades[i].side # r.side}

\* The oldest are reduced first; what is left of the order opens a position.  rest[i]
\* is what is left of it when the positions up to the i-th have been reduced.
Rests(r) ==
  {rest \in [0 .. MaxTrades -> 0 .. r.amount] :
     /\ rest[0] = r.amount
     /\ \A i \in Id :
          rest[i] = IF i \notin Against(r) THEN rest[i - 1]
                    ELSE IF trades[i].amount < rest[i - 1] THEN rest[i - 1] - trades[i].amount
                    ELSE 0}

Reduced(r, rest) ==
  [i \in {j \in DOMAIN trades : j \in Against(r) => rest[j - 1] < trades[j].amount} |->
     IF i \in Against(r) THEN [trades[i] EXCEPT !.amount = @ - rest[i - 1]] ELSE trades[i]]

ExecuteNetOpen(s) ==
  LET r == s.request IN
    /\ r.op = "net_open"
    /\ \E rest \in Rests(r) :
         IF rest[MaxTrades] = 0
         THEN Become(Reduced(r, rest)) /\ UNCHANGED born
         ELSE /\ born < MaxTrades
              /\ Become(WithNew(Reduced(r, rest),
                                [account |-> r.account, symbol |-> r.symbol, side |-> r.side,
                                 amount |-> rest[MaxTrades]]))
              /\ born' = born + 1

ExecuteNetClose(s) ==
  LET r == s.request IN
    /\ r.op = "net_close"
    /\ Become([i \in DOMAIN trades \ Against(r) |-> trades[i]])
    /\ UNCHANGED born

Execute(s) ==
  /\ s \in sent
  /\ \/ ExecuteOpen(s) \/ ExecuteCreate(s) \/ ExecuteEdit(s)
     \/ ExecuteClose(s) \/ ExecuteNetOpen(s) \/ ExecuteNetClose(s)
  /\ Answer(s, "completed")

\* A stop is reached, or another terminal closes a position ...
OthersClose(i) ==
  /\ calls + moves < MaxActs /\ i \in DOMAIN trades
  /\ moves' = moves + 1
  /\ Become([j \in DOMAIN trades \ {i} |-> trades[j]])
  /\ UNCHANGED <<born, tables, node, sent, answers>>

\* ... or opens one.
OthersOpen(p) ==
  /\ calls + moves < MaxActs /\ born < MaxTrades
  /\ moves' = moves + 1 /\ born' = born + 1
  /\ trades' = WithNew(trades, p)
  /\ UNCHANGED <<orders, tables, node, sent, answers>>

-----------------------------------------------------------------------------
(* The API thread brings the tables up to date, one row at a time          *)

\* history: a row before or after the one that is read has gone
Shifted(pc) == IF opc = pc THEN [call EXCEPT !.left = TRUE] ELSE call

RowGoes(k) ==
  /\ k \in DOMAIN tradesTable /\ tradesTable[k].id \notin DOMAIN trades
  /\ tradesTable' = Seqs!RemoveAt(tradesTable, k)
  /\ call' = Shifted("scan")
  /\ UNCHANGED <<server, ordersTable, moves, opc, calls, sent, answers>>

RowChanges(k) ==
  /\ k \in DOMAIN tradesTable /\ tradesTable[k].id \in DOMAIN trades
  /\ tradesTable[k].row # trades[tradesTable[k].id]
  /\ tradesTable' = [tradesTable EXCEPT ![k].row = trades[tradesTable[k].id]]
  /\ UNCHANGED <<server, ordersTable, moves, node, sent, answers>>

RowComes(i) ==
  /\ i \in DOMAIN trades /\ \A k \in DOMAIN tradesTable : tradesTable[k].id # i
  /\ tradesTable' = Append(tradesTable, [id |-> i, row |-> trades[i]])
  /\ UNCHANGED <<server, ordersTable, moves, node, sent, answers>>

OrderRow(table) ==
  ordersTable' = table /\ UNCHANGED <<server, tradesTable, moves, opc, calls, sent, answers>>

OrderRowGoes(k) ==
  /\ k \in DOMAIN ordersTable /\ \A o \in orders : o.nr # ordersTable[k].nr
  /\ OrderRow(Seqs!RemoveAt(ordersTable, k))
  /\ call' = Shifted("find_order")

OrderRowChanges(k, o) ==
  /\ k \in DOMAIN ordersTable /\ o.nr = ordersTable[k].nr /\ o # ordersTable[k]
  /\ OrderRow([ordersTable EXCEPT ![k] = o])
  /\ UNCHANGED call

OrderRowComes(o) ==
  /\ \A k \in DOMAIN ordersTable : o.nr # ordersTable[k].nr
  /\ OrderRow(Append(ordersTable, o))
  /\ UNCHANGED call

Call == \/ openPosition \/ changeStopLoss \/ changeTakeProfit \/ closePosition
        \/ closeAllPositions

Lookup == \/ NoTrade \/ NextTrade
          \/ FoundToClose \/ FoundToChange
          \/ NextOrder \/ CreateStop \/ EditStop
          \/ Scan \/ ScanFindsNothing \/ ScanEnds

OrdersNext ==
  \/ Call \/ Lookup \/ CallCompletes \/ CallFails \/ CallTimesOut \/ Idle
  \/ \E s \in sent : Execute(s) \/ Refuse(s)
  \/ \E i \in Id : OthersClose(i) \/ RowGoes(i) \/ RowChanges(i) \/ RowComes(i)
  \/ \E p \in Position : OthersOpen(p)
  \/ \E k \in DOMAIN ordersTable : OrderRowGoes(k) \/ \E o \in orders : OrderRowChanges(k, o)
  \/ \E o \in orders : OrderRowComes(o)

OrdersSpec == OrdersInit /\ [][OrdersNext]_ordersVars

-----------------------------------------------------------------------------
\* A closeAllPositions that is completed has closed every position it was called for:
\* all that the table showed when it was called, of both sides and of every instrument.
\* The exception: a row that goes from the table while it is read by index moves the
\* next one out of the way of the reader.
CloseAllCloses ==
  opc = "completed" /\ call.what = "close_all" /\ ~call.left =>
    call.meant \cap DOMAIN trades = {}

\* A request to close only closes: when it is executed, no position is opened or gets
\* larger, and only the account of the call is touched.  On an account that nets this
\* needs the position to be what it was when the call found it, and no larger amount
\* than it has.
Sound(s) ==
  s.of.what = "close" /\ s.request.op = "net_open" =>
    /\ s.of.trade \in DOMAIN trades /\ trades[s.of.trade] = s.of.found
    /\ s.request.amount <= s.of.found.amount

CloseOnlyCloses ==
  [][\A s \in sent \ sent' : s.of.what \in {"close", "close_all"} /\ Sound(s) =>
       /\ DOMAIN trades' \subseteq DOMAIN trades
       /\ \A i \in DOMAIN trades :
            trades[i].account # s.of.account => i \in DOMAIN trades' /\ trades'[i] = trades[i]
       /\ \A i \in DOMAIN trades' : trades'[i].amount <= trades[i].amount]_ordersVars

\* A change that is executed leaves the position with one order of that type and the
\* new rate, and its other orders as they are, if the orders table was up to date when
\* it was read and no earlier change was under way.
StopIsSet ==
  [][\A s \in sent \ sent' :
       /\ s.of.what = "change" /\ s.of.fresh /\ "completed" \in answers'
       /\ s.nr = calls
       => /\ \E o \in orders' : OrdersOf(orders', s.of) = {o} /\ o.rate = s.of.rate
          /\ orders' \ OrdersOf(orders', s.of) = orders \ OrdersOf(orders, s.of)]_ordersVars
=============================================================================
