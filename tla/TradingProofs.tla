--------------------------- MODULE TradingProofs ---------------------------
(***************************************************************************)
(* Proofs about the three modules that module MCTrading runs side by side: *)
(* the orders of a Node thread at the server (Orders), what an offer makes *)
(* of the candles (CandleFold), and the rows on their way from a table to  *)
(* the database (Rows).                                                    *)
(*                                                                         *)
(* Orders.  TypesInv says of the request of each call that it asks for     *)
(* what the call found in the tables.  StopInv adds the numbers: an order  *)
(* belongs to the call that made it, so a table that was up to date when   *)
(* it was read still tells whether there is an order to edit.  CloseAllInv *)
(* follows the positions a closeAllPositions is meant for through its scan *)
(* and its requests: each is still open only as long as a side of its      *)
(* instrument was seen and a request that closes it is under way.          *)
(*                                                                         *)
(* CandleFold.  VolumesInv numbers the server's ticks: the offers that     *)
(* wait are the last ones without a gap, the candle in progress has those  *)
(* up to the stored offer, and the candles before it have all there are.   *)
(*                                                                         *)
(* Rows.  RowsInv says where a row is whole, and ExtremesInv that the high *)
(* and the low are those of the closes that were shown.                    *)
(***************************************************************************)
EXTENDS Orders, CandleFold, Rows, SequenceTheorems, WellFoundedInduction, TLAPS

LOCAL Seqs == INSTANCE SequencesExt

-----------------------------------------------------------------------------
(* Orders: the inductive invariants                                        *)

\* Rows of the tables.  An amount gets smaller than any that was asked for.
TradeRow == [account : Account, symbol : Symbol, side : Side, amount : Nat \ {0}]
OrderRecord == [trade : Nat, type : Type, rate : Rate, nr : Nat]

\* What does not change as long as a position is open.
SamePosition(p, q) == p.account = q.account /\ p.symbol = q.symbol /\ p.side = q.side

ServerInv ==
  /\ born \in 0 .. MaxTrades
  /\ DOMAIN trades \subseteq 1 .. born /\ trades \in [DOMAIN trades -> TradeRow]
  /\ orders \subseteq OrderRecord

\* The rows are of positions there were; while one is open it is the same.
TablesInv ==
  /\ tradesTable \in Seq([id : Nat, row : TradeRow])
  /\ \A k \in DOMAIN tradesTable :
       /\ tradesTable[k].id \in 1 .. born
       /\ tradesTable[k].id \in DOMAIN trades =>
            SamePosition(tradesTable[k].row, trades[tradesTable[k].id])
  /\ ordersTable \in Seq(OrderRecord)

ChangeCall ==
  [what : {"change"}, account : Account, trade : Id, type : Type, rate : Rate, i : Nat \ {0},
   found : TradeRow \cup {NoPosition}, left : BOOLEAN, fresh : BOOLEAN]
CloseCall ==
  [what : {"close"}, account : Account, trade : Id, amount : Nat, i : Nat \ {0},
   found : TradeRow \cup {NoPosition}]
CloseAllCall ==
  [what : {"close_all"}, account : Account, symbol : Symbol \cup {AnySymbol}, i : Nat \ {0},
   sides : SUBSET (Symbol \X Side), meant : SUBSET Nat, left : BOOLEAN]

Looking == {"find_trade", "find_order", "scan"}

CallInv ==
  /\ calls \in Nat
  /\ opc \in Looking \cup {"idle", "wait", "completed", "failed"}
  /\ call.what \in {"none", "open", "change", "close", "close_all"}
  /\ call.what = "change" => call \in ChangeCall
  /\ call.what = "close" => call \in CloseCall
  /\ call.what = "close_all" => call \in CloseAllCall
  /\ opc = "find_trade" => call.what \in {"change", "close"}
  /\ opc = "find_order" =>
       call.what = "change" /\ call.found \in TradeRow /\ call.trade \in 1 .. born
  /\ opc = "scan" => call.what = "close_all"

\* The request of a call says what the call found.
RequestInv(s) ==
  LET r == s.request c == s.of IN
    /\ s.nr \in 0 .. calls
    /\ r.op \in {"open", "create", "edit", "close", "net_open", "net_close"}
    /\ r.op = "open" =>
         /\ c.what = "open" /\ r.account \in Account /\ r.symbol \in Symbol /\ r.side \in Side
         /\ r.amount \in Nat \ {0} /\ r.rate \in {0} \cup Rate
    /\ r.op \in {"create", "edit"} =>
         /\ c.what = "change" /\ r.type \in Type /\ r.rate \in Rate
         /\ r.trade = c.trade /\ r.type = c.type /\ r.rate = c.rate /\ c.trade \in 1 .. born
    /\ r.op \in {"close", "net_open"} =>
         c.what = "close" /\ r.account = c.account /\ r.amount \in Nat \ {0}
    /\ r.op = "net_open" =>
         /\ c.found \in TradeRow /\ r.account = c.found.account /\ r.symbol = c.found.symbol
         /\ r.side \in Side /\ r.side # c.found.side
    /\ r.op = "net_close" => c.what = "close_all" /\ r.account = c.account

\* A call waits for one request, closeAllPositions for several.
WaitInv ==
  /\ opc \in Looking => answers = {} /\ \A s \in sent : s.nr # calls
  /\ \A s \in sent : s.nr = calls /\ s.of.what # "close_all" =>
       answers = {} /\ \A t \in sent : t.nr = calls => t = s

SentInv == (\A s \in sent : RequestInv(s)) /\ WaitInv

TypesInv == ServerInv /\ TablesInv /\ CallInv /\ SentInv

\* An order has the number of the call that made it, and belongs to the same position
\* for ever, at the server and in the table.
Making(s) == s.request.op \in {"open", "create"}
Known == orders \cup {ordersTable[k] : k \in DOMAIN ordersTable}
SameOrder(o, p) == o.nr = p.nr /\ o.trade = p.trade /\ o.type = p.type

NumbersInv ==
  /\ \A o \in Known : o.nr <= calls /\ (opc \in Looking => o.nr # calls)
  /\ \A s \in sent : Making(s) =>
       /\ \A o \in Known : o.nr # s.nr
       /\ \A t \in sent : Making(t) /\ t.nr = s.nr => t = s
  /\ \A o, p \in Known : o.nr = p.nr => SameOrder(o, p)

\* No row that was passed is of the order looked for.
PassedInv ==
  opc = "find_order" /\ ~call.left =>
    /\ call.i <= Len(ordersTable) + 1
    /\ \A k \in DOMAIN ordersTable : k < call.i => ~ThisOrder(ordersTable[k])

\* A change that found the table up to date is the only one under way, and finds at
\* most one order, none if it creates one.
FreshInv ==
  \A s \in sent : s.of.what = "change" /\ s.of.fresh /\ s.nr = calls =>
    /\ \A t \in sent : t.request.op \in {"create", "edit"} => t = s
    /\ \A o, p \in OrdersOf(orders, s.of) : o = p
    /\ s.request.op = "create" => OrdersOf(orders, s.of) = {}

StopInv == NumbersInv /\ PassedInv /\ FreshInv

\* The positions that a closing of all is meant for and that are open.
AliveMeant == call.meant \cap DOMAIN trades

\* Each is in the table and has the account and the instrument asked for; the sides of
\* the rows that were passed are known.
ScanInv ==
  opc = "scan" /\ ~call.left =>
    /\ call.i <= Len(tradesTable) + 1
    /\ \A id \in AliveMeant :
         Matches(trades[id], call) /\ \E k \in DOMAIN tradesTable : tradesTable[k].id = id
    /\ \A k \in DOMAIN tradesTable :
         k < call.i /\ Matches(tradesTable[k].row, call) =>
           <<tradesTable[k].row.symbol, tradesTable[k].row.side>> \in call.sides

\* Each is going to be closed by a request that is under way.
Closes(s, id) ==
  /\ s.nr = calls /\ s.request.op = "net_close" /\ s.request.account = trades[id].account
  /\ s.request.symbol = trades[id].symbol /\ s.request.side # trades[id].side

WaitsInv ==
  opc = "wait" /\ call.what = "close_all" /\ ~call.left /\ "failed" \notin answers =>
    \A id \in AliveMeant : \E s \in sent : Closes(s, id)

CloseAllInv ==
  /\ call.what = "close_all" => call.meant \subseteq 1 .. born
  /\ ScanInv /\ WaitsInv /\ CloseAllCloses

\* The rows that are left when one is removed.
LEMMA RowRemoved ==
  ASSUME NEW S, NEW s \in Seq(S), NEW k \in DOMAIN s
  PROVE  /\ Seqs!RemoveAt(s, k) \in Seq(S)
         /\ \A i \in DOMAIN Seqs!RemoveAt(s, k) : \E j \in DOMAIN s : Seqs!RemoveAt(s, k)[i] = s[j]
<1> DEFINE n == Len(s)
           a == SubSeq(s, 1, k - 1)
           b == SubSeq(s, k + 1, n)
<1>1. n \in Nat /\ k \in 1 .. n /\ DOMAIN s = 1 .. n
  OBVIOUS
<1>2. /\ a \in Seq(S) /\ Len(a) = k - 1 /\ \A i \in 1 .. k - 1 : a[i] = s[i]
  BY <1>1
<1>3. /\ b \in Seq(S) /\ Len(b) = n - k /\ \A i \in 1 .. n - k : b[i] = s[k + i]
  BY <1>1
<1>4. Seqs!RemoveAt(s, k) = a \o b
  BY DEF Seqs!RemoveAt
<1> HIDE DEF a, b, n
<1>5. /\ a \o b \in Seq(S) /\ Len(a \o b) = n - 1
      /\ \A i \in 1 .. n - 1 : (a \o b)[i] = IF i <= k - 1 THEN a[i] ELSE b[i - (k - 1)]
  <2>1. /\ a \o b \in Seq(S) /\ Len(a \o b) = Len(a) + Len(b)
        /\ \A i \in 1 .. Len(a) + Len(b) : (a \o b)[i] = IF i <= Len(a) THEN a[i] ELSE b[i - Len(a)]
    BY <1>2, <1>3, ConcatProperties, Zenon
  <2>2. Len(a) + Len(b) = n - 1
    BY <1>1, <1>2, <1>3
  <2>3. QED
    BY <1>2, <2>1, <2>2
<1>6. ASSUME NEW i \in 1 .. n - 1 PROVE \E j \in 1 .. n : (a \o b)[i] = s[j]
  <2>1. CASE i <= k - 1
    <3>1. i \in 1 .. k - 1 /\ i \in 1 .. n
      BY <1>1, <2>1
    <3>2. (a \o b)[i] = s[i]
      BY <1>2, <1>5, <2>1, <3>1
    <3>3. QED
      BY <3>1, <3>2
  <2>2. CASE ~(i <= k - 1)
    <3>1. i - (k - 1) \in 1 .. n - k /\ k + (i - (k - 1)) \in 1 .. n
      BY <1>1, <2>2
    <3>2. (a \o b)[i] = s[k + (i - (k - 1))]
      BY <1>3, <1>5, <2>2, <3>1
    <3>3. QED
      BY <3>1, <3>2
  <2>3. QED
    BY <2>1, <2>2
<1>7. DOMAIN (a \o b) = 1 .. n - 1
  BY <1>1, <1>5
<1>8. QED
  BY <1>1, <1>4, <1>5, <1>6, <1>7

-----------------------------------------------------------------------------
(* Orders: the server                                                      *)

LEMMA Opposite ==
  ASSUME NEW bs \in Side
  PROVE  getOppositeBS(bs) \in Side /\ getOppositeBS(bs) # bs
BY DEF Side, getOppositeBS

\* No position is opened or gets larger.
Follows(ts) ==
  /\ DOMAIN ts \subseteq DOMAIN trades /\ ts \in [DOMAIN ts -> TradeRow]
  /\ \A i \in DOMAIN ts : SamePosition(ts[i], trades[i]) /\ ts[i].amount <= trades[i].amount

\* What any step may do to the server: a position keeps all but its amount, and a new
\* one has the next number.
ServerStep ==
  /\ born' \in born .. MaxTrades
  /\ DOMAIN trades' \subseteq DOMAIN trades \cup {born + 1}
  /\ born + 1 \in DOMAIN trades' => born' = born + 1
  /\ trades' \in [DOMAIN trades' -> TradeRow]
  /\ \A i \in DOMAIN trades \cap DOMAIN trades' : SamePosition(trades'[i], trades[i])
  /\ orders' \subseteq OrderRecord

LEMMA Restricted ==
  ASSUME ServerInv, NEW D \in SUBSET DOMAIN trades
  PROVE  Follows([i \in D |-> trades[i]])
<1>1. \A i \in DOMAIN trades : trades[i] \in TradeRow /\ trades[i].amount \in Nat
  BY DEF ServerInv, TradeRow
<1>2. QED
  BY <1>1 DEF Follows, SamePosition

\* One position less, or one with a smaller amount.
LEMMA LessFollows ==
  ASSUME ServerInv, NEW i \in DOMAIN trades, NEW amount \in Nat \ {0},
         trades[i].amount >= amount
  PROVE  Follows(Less(trades, i, amount))
<1>1. \A j \in DOMAIN trades : trades[j] \in TradeRow /\ trades[j].amount \in Nat
  BY DEF ServerInv, TradeRow
<1>2. CASE trades[i].amount = amount
  BY <1>2, Restricted DEF Less
<1>3. CASE trades[i].amount # amount
  <2> DEFINE ts == Less(trades, i, amount)
             smaller == [trades[i] EXCEPT !.amount = @ - amount]
  <2>1. /\ DOMAIN ts = DOMAIN trades /\ ts[i] = smaller
        /\ \A j \in DOMAIN trades \ {i} : ts[j] = trades[j]
        /\ ts = [j \in DOMAIN trades |-> ts[j]]
    BY <1>3 DEF Less, ServerInv
  <2>2. trades[i].amount - amount \in Nat \ {0} /\ trades[i].amount - amount <= trades[i].amount
    BY <1>1, <1>3
  <2>3. smaller \in TradeRow /\ SamePosition(smaller, trades[i]) /\ smaller.amount <= trades[i].amount
    BY <1>1, <2>2 DEF TradeRow, SamePosition
  <2> HIDE DEF ts, smaller
  <2>4. \A j \in DOMAIN ts : /\ ts[j] \in TradeRow /\ SamePosition(ts[j], trades[j])
                             /\ ts[j].amount <= trades[j].amount
    BY <1>1, <2>1, <2>3 DEF SamePosition
  <2>5. Follows(ts)
    BY <2>1, <2>4 DEF Follows
  <2>6. QED
    BY <2>5 DEF ts
<1>4. QED
  BY <1>2, <1>3

\* The positions that an order of an account that nets has reduced.
LEMMA ReducedFollows ==
  ASSUME ServerInv, NEW r, r.amount \in Nat, NEW rest \in Rests(r)
  PROVE  Follows(Reduced(r, rest))
<1> DEFINE D == {j \in DOMAIN trades : j \in Against(r) => rest[j - 1] < trades[j].amount}
           ts == Reduced(r, rest)
<1>1. \A j \in DOMAIN trades : trades[j] \in TradeRow /\ trades[j].amount \in Nat
  BY DEF ServerInv, TradeRow
<1>2. \A j \in DOMAIN trades : rest[j - 1] \in Nat
  <2>1. \A j \in DOMAIN trades : j - 1 \in 0 .. MaxTrades
    BY OrdersAssumption DEF ServerInv
  <2>2. rest \in [0 .. MaxTrades -> 0 .. r.amount]
    BY DEF Rests
  <2>3. \A n \in 0 .. MaxTrades : rest[n] \in Nat
    BY <2>2
  <2>4. QED
    BY <2>1, <2>3
<1>3. ts = [i \in D |-> IF i \in Against(r) THEN [trades[i] EXCEPT !.amount = @ - rest[i - 1]]
                        ELSE trades[i]]
  BY DEF Reduced
<1> HIDE DEF ts
<1>4. ASSUME NEW i \in D
      PROVE  ts[i] \in TradeRow /\ SamePosition(ts[i], trades[i]) /\ ts[i].amount <= trades[i].amount
  <2>1. CASE i \in Against(r)
    <3> DEFINE left == trades[i].amount - rest[i - 1]
    <3>1. left \in Nat \ {0} /\ left <= trades[i].amount
      BY <1>1, <1>2, <2>1
    <3>2. ts[i] = [trades[i] EXCEPT !.amount = left]
      BY <1>3, <2>1
    <3> HIDE DEF left
    <3>3. QED
      BY <1>1, <3>1, <3>2 DEF TradeRow, SamePosition
  <2>2. CASE i \notin Against(r)
    BY <1>1, <1>3, <2>2 DEF SamePosition
  <2>3. QED
    BY <2>1, <2>2
<1>5. DOMAIN ts = D /\ D \subseteq DOMAIN trades
  BY <1>3
<1>6. ts \in [DOMAIN ts -> TradeRow]
  BY <1>3, <1>4, <1>5
<1> HIDE DEF D
<1>7. Follows(ts)
  BY <1>4, <1>5, <1>6 DEF Follows
<1>8. QED
  BY <1>7 DEF ts

LEMMA BecomeStep ==
  ASSUME ServerInv, NEW ts, Follows(ts), Become(ts), UNCHANGED born
  PROVE  ServerStep
<1>1. trades' = ts /\ born' = born /\ orders' \subseteq OrderRecord
  BY DEF Become, ServerInv
<1>2. born \in born .. MaxTrades /\ born + 1 \notin DOMAIN trades
  BY OrdersAssumption DEF ServerInv
<1>3. QED
  BY <1>1, <1>2 DEF ServerStep, Follows

\* A new position, beside those that are left.
LEMMA NewStep ==
  ASSUME ServerInv, NEW ts, Follows(ts), NEW p \in TradeRow, born < MaxTrades,
         trades' = WithNew(ts, p), born' = born + 1, orders' \subseteq OrderRecord
  PROVE  /\ ServerStep
         /\ DOMAIN trades' = DOMAIN ts \cup {born + 1}
<1>1. born' \in born .. MaxTrades /\ born + 1 \notin DOMAIN trades
  BY OrdersAssumption DEF ServerInv
<1>2. /\ DOMAIN trades' = DOMAIN ts \cup {born + 1}
      /\ trades' = [i \in DOMAIN ts \cup {born + 1} |-> IF i \in DOMAIN ts THEN ts[i] ELSE p]
  BY DEF WithNew
<1>3. DOMAIN ts \subseteq DOMAIN trades /\ ts \in [DOMAIN ts -> TradeRow]
  BY DEF Follows
<1>4. \A i \in DOMAIN trades' : trades'[i] = IF i \in DOMAIN ts THEN ts[i] ELSE p
  BY <1>2
<1>5. trades' \in [DOMAIN trades' -> TradeRow]
  BY <1>2, <1>3
<1>6. \A i \in DOMAIN trades \cap DOMAIN trades' : SamePosition(trades'[i], trades[i])
  BY <1>1, <1>2, <1>4 DEF Follows
<1>7. QED
  BY <1>1, <1>2, <1>3, <1>5, <1>6 DEF ServerStep

LEMMA ServerInvNext ==
  ASSUME ServerInv, ServerStep
  PROVE  ServerInv'
<1>1. born \in Nat /\ born' \in 0 .. MaxTrades /\ born <= born'
  BY OrdersAssumption DEF ServerInv, ServerStep
<1>2. DOMAIN trades' \subseteq 1 .. born'
  <2> SUFFICES ASSUME NEW i \in DOMAIN trades' PROVE i \in 1 .. born'
    OBVIOUS
  <2>1. CASE i \in DOMAIN trades
    BY <1>1, <2>1 DEF ServerInv
  <2>2. CASE i = born + 1
    BY <1>1, <2>2 DEF ServerStep
  <2>3. QED
    BY <2>1, <2>2 DEF ServerStep
<1>3. QED
  BY <1>1, <1>2 DEF ServerInv, ServerStep

LEMMA SameFollows ==
  ASSUME ServerInv
  PROVE  Follows(trades)
BY DEF ServerInv, Follows, SamePosition, TradeRow

\* What each kind of request does when it is executed.
LEMMA OpenStep ==
  ASSUME TypesInv, NEW s \in sent, ExecuteOpen(s)
  PROVE  ServerStep
<1> DEFINE r == s.request
           p == [account |-> r.account, symbol |-> r.symbol, side |-> r.side, amount |-> r.amount]
           o == [trade |-> born + 1, type |-> "S", rate |-> r.rate, nr |-> s.nr]
<1>1. /\ r.op = "open" /\ born < MaxTrades /\ trades' = WithNew(trades, p) /\ born' = born + 1
      /\ orders' = orders \cup (IF r.rate = 0 THEN {} ELSE {o})
  BY DEF ExecuteOpen
<1>2. RequestInv(s) /\ ServerInv /\ calls \in Nat
  BY DEF TypesInv, SentInv, CallInv
<1>3. p \in TradeRow
  BY <1>1, <1>2 DEF RequestInv, TradeRow
<1>4. r.rate = 0 \/ o \in OrderRecord
  <2>1. s.nr \in Nat /\ r.rate \in {0} \cup Rate /\ born + 1 \in Nat /\ "S" \in Type
    BY <1>1, <1>2, OrdersAssumption DEF RequestInv, ServerInv, Type
  <2>2. QED
    BY <2>1 DEF OrderRecord
<1>5. orders' \subseteq OrderRecord
  BY <1>1, <1>2, <1>4 DEF ServerInv
<1>6. QED
  BY <1>1, <1>2, <1>3, <1>5, NewStep, SameFollows

LEMMA CreateStep ==
  ASSUME TypesInv, NEW s \in sent, ExecuteCreate(s)
  PROVE  ServerStep
<1> DEFINE r == s.request
           o == [trade |-> r.trade, type |-> r.type, rate |-> r.rate, nr |-> s.nr]
<1>1. /\ r.op = "create" /\ r.trade \in DOMAIN trades /\ trades' = trades /\ born' = born
      /\ orders' = orders \cup {o}
  BY DEF ExecuteCreate
<1>2. RequestInv(s) /\ ServerInv /\ calls \in Nat
  BY DEF TypesInv, SentInv, CallInv
<1>3. s.nr \in Nat /\ r.trade \in Nat /\ r.type \in Type /\ r.rate \in Rate
  BY <1>1, <1>2 DEF RequestInv, ServerInv
<1>4. o \in OrderRecord
  BY <1>3 DEF OrderRecord
<1>5. orders' \subseteq OrderRecord
  BY <1>1, <1>2, <1>4 DEF ServerInv
<1>6. born \in born .. MaxTrades /\ born + 1 \notin DOMAIN trades
  BY <1>2, OrdersAssumption DEF ServerInv
<1>7. QED
  BY <1>1, <1>2, <1>5, <1>6 DEF ServerStep, ServerInv, SamePosition

LEMMA EditStep ==
  ASSUME TypesInv, NEW s \in sent, ExecuteEdit(s)
  PROVE  ServerStep
<1> DEFINE r == s.request
<1>1. r.op = "edit" /\ trades' = trades /\ born' = born
  BY DEF ExecuteEdit
<1>2. PICK o \in orders : orders' = (orders \ {o}) \cup {[o EXCEPT !.rate = r.rate]}
  BY DEF ExecuteEdit
<1>3. RequestInv(s) /\ ServerInv /\ calls \in Nat
  BY DEF TypesInv, SentInv, CallInv
<1>4. o \in OrderRecord /\ r.rate \in Rate
  BY <1>1, <1>3 DEF RequestInv, ServerInv
<1>5. [o EXCEPT !.rate = r.rate] \in OrderRecord
  BY <1>4 DEF OrderRecord
<1>6. orders' \subseteq OrderRecord
  BY <1>2, <1>3, <1>5 DEF ServerInv
<1>7. born \in born .. MaxTrades /\ born + 1 \notin DOMAIN trades
  BY <1>3, OrdersAssumption DEF ServerInv
<1>8. QED
  BY <1>1, <1>3, <1>6, <1>7 DEF ServerStep, ServerInv, SamePosition

LEMMA CloseStep ==
  ASSUME TypesInv, NEW s \in sent, ExecuteClose(s)
  PROVE  ServerStep /\ Follows(trades')
<1> DEFINE r == s.request
<1>1. /\ r.op = "close" /\ r.trade \in DOMAIN trades /\ trades[r.trade].amount >= r.amount
      /\ Become(Less(trades, r.trade, r.amount)) /\ born' = born
  BY DEF ExecuteClose
<1>2. RequestInv(s) /\ ServerInv
  BY DEF TypesInv, SentInv
<1>3. Follows(Less(trades, r.trade, r.amount))
  BY <1>1, <1>2, LessFollows DEF RequestInv
<1>4. trades' = Less(trades, r.trade, r.amount)
  BY <1>1 DEF Become
<1>5. ServerStep
  BY <1>1, <1>2, <1>3, BecomeStep
<1>6. QED
  BY <1>3, <1>4, <1>5

LEMMA NetOpenStep ==
  ASSUME TypesInv, NEW s \in sent, ExecuteNetOpen(s)
  PROVE  ServerStep
<1> DEFINE r == s.request
<1>1. r.op = "net_open"
  BY DEF ExecuteNetOpen
<1>2. PICK rest \in Rests(r) :
        IF rest[MaxTrades] = 0
        THEN Become(Reduced(r, rest)) /\ UNCHANGED born
        ELSE /\ born < MaxTrades
             /\ Become(WithNew(Reduced(r, rest),
                               [account |-> r.account, symbol |-> r.symbol, side |-> r.side,
                                amount |-> rest[MaxTrades]]))
             /\ born' = born + 1
  BY DEF ExecuteNetOpen
<1>3. RequestInv(s) /\ ServerInv
  BY DEF TypesInv, SentInv
<1>4. /\ r.account \in Account /\ r.symbol \in Symbol /\ r.side \in Side /\ r.amount \in Nat
  BY <1>1, <1>3 DEF RequestInv, TradeRow
<1>5. Follows(Reduced(r, rest))
  BY <1>3, <1>4, ReducedFollows
<1>6. CASE rest[MaxTrades] = 0
  BY <1>2, <1>3, <1>5, <1>6, BecomeStep
<1>7. CASE rest[MaxTrades] # 0
  <2> DEFINE p == [account |-> r.account, symbol |-> r.symbol, side |-> r.side,
                   amount |-> rest[MaxTrades]]
  <2>1. rest[MaxTrades] \in Nat \ {0}
    <3>1. rest \in [0 .. MaxTrades -> 0 .. r.amount] /\ MaxTrades \in 0 .. MaxTrades
      BY OrdersAssumption DEF Rests
    <3>2. rest[MaxTrades] \in 0 .. r.amount
      BY <3>1
    <3>3. QED
      BY <1>4, <1>7, <3>2
  <2>2. p \in TradeRow
    BY <1>4, <2>1 DEF TradeRow
  <2>3. born < MaxTrades /\ Become(WithNew(Reduced(r, rest), p)) /\ born' = born + 1
    BY <1>2, <1>7
  <2>4. trades' = WithNew(Reduced(r, rest), p) /\ orders' \subseteq OrderRecord
    BY <1>3, <2>3 DEF Become, ServerInv
  <2> HIDE DEF p
  <2>5. QED
    BY <1>3, <1>5, <2>2, <2>3, <2>4, NewStep
<1>8. QED
  BY <1>6, <1>7

LEMMA NetCloseStep ==
  ASSUME TypesInv, NEW s \in sent, ExecuteNetClose(s)
  PROVE  ServerStep /\ Follows(trades')
<1> DEFINE D == DOMAIN trades \ Against(s.request)
           ts == [i \in D |-> trades[i]]
<1>1. Become(ts) /\ born' = born /\ ServerInv
  BY DEF ExecuteNetClose, TypesInv
<1>2. D \in SUBSET DOMAIN trades
  OBVIOUS
<1>3. Follows(ts)
  BY <1>1, <1>2, Restricted
<1>4. ServerStep
  BY <1>1, <1>3, BecomeStep
<1>5. trades' = ts
  BY <1>1 DEF Become
<1>6. QED
  BY <1>3, <1>4, <1>5

LEMMA OthersStep ==
  ASSUME ServerInv, (\E i \in Id : OthersClose(i)) \/ (\E p \in Position : OthersOpen(p))
  PROVE  ServerStep
<1>1. ASSUME NEW i \in Id, OthersClose(i) PROVE ServerStep
  <2> DEFINE D == DOMAIN trades \ {i}
             ts == [j \in D |-> trades[j]]
  <2>1. Become(ts) /\ born' = born
    BY <1>1 DEF OthersClose
  <2>2. D \in SUBSET DOMAIN trades
    OBVIOUS
  <2>3. QED
    BY <2>1, <2>2, Restricted, BecomeStep
<1>2. ASSUME NEW p \in Position, OthersOpen(p) PROVE ServerStep
  <2>1. /\ born < MaxTrades /\ trades' = WithNew(trades, p) /\ born' = born + 1 /\ orders' = orders
    BY <1>2 DEF OthersOpen
  <2>2. p \in TradeRow
    BY OrdersAssumption DEF Position, TradeRow
  <2>3. orders' \subseteq OrderRecord
    BY <2>1 DEF ServerInv
  <2>4. QED
    BY <2>1, <2>2, <2>3, SameFollows, NewStep
<1>3. QED
  BY <1>1, <1>2

-----------------------------------------------------------------------------
(* Orders: the kinds of steps, and what each leaves alone                  *)

NodeSteps == Call \/ Lookup \/ CallCompletes \/ CallFails \/ CallTimesOut \/ Idle
OthersSteps == (\E i \in Id : OthersClose(i)) \/ \E p \in Position : OthersOpen(p)
RowSteps ==
  \/ \E i \in Id : RowGoes(i) \/ RowChanges(i) \/ RowComes(i)
  \/ \E k \in DOMAIN ordersTable : OrderRowGoes(k) \/ \E o \in orders : OrderRowChanges(k, o)
  \/ \E o \in orders : OrderRowComes(o)

LEMMA Kinds ==
  ASSUME [OrdersNext]_ordersVars
  PROVE  \/ NodeSteps \/ OthersSteps \/ RowSteps \/ UNCHANGED ordersVars
         \/ \E s \in sent : Execute(s) \/ Refuse(s)
BY DEF OrdersNext, NodeSteps, OthersSteps, RowSteps

\* A call begins: it sends nothing, or its one request.
LEMMA CallBegins ==
  ASSUME Call
  PROVE  /\ opc = "idle" /\ opc' \in {"failed", "wait", "find_trade", "scan"}
         /\ calls' = calls + 1 /\ answers' = {} /\ UNCHANGED <<server, tables, moves>>
         /\ sent \subseteq sent' /\ call'.what \in {"open", "change", "close", "close_all"}
<1>1. CASE openPosition
  BY <1>1 DEF openPosition, Begin
<1>2. CASE changeStopLoss \/ changeTakeProfit
  BY <1>2 DEF changeStopLoss, changeTakeProfit, Change, Begin
<1>3. CASE closePosition
  BY <1>3 DEF closePosition, Begin
<1>4. CASE closeAllPositions
  BY <1>4 DEF closeAllPositions, Begin
<1>5. QED
  BY <1>1, <1>2, <1>3, <1>4 DEF Call

LEMMA NodeFrame ==
  ASSUME NodeSteps
  PROVE  UNCHANGED <<server, tables>>
<1>1. CASE Call
  BY <1>1, CallBegins
<1>2. CASE Lookup
  BY <1>2 DEF Lookup, NoTrade, NextTrade, FoundToClose, FoundToChange, NextOrder, CreateStop,
              EditStop, Scan, ScanFindsNothing, ScanEnds, Return, Look, Send
<1>3. CASE CallCompletes \/ CallFails \/ CallTimesOut \/ Idle
  BY <1>3 DEF CallCompletes, CallFails, CallTimesOut, Return, Idle
<1>4. QED
  BY <1>1, <1>2, <1>3 DEF NodeSteps

LEMMA AnswerFrame ==
  ASSUME NEW s \in sent, Execute(s) \/ Refuse(s)
  PROVE  /\ UNCHANGED <<tables, node>> /\ sent' = sent \ {s}
         /\ answers' = answers \/ \E a \in {"completed", "failed"} : answers' = answers \cup {a}
         /\ s.nr # calls => answers' = answers
         /\ Refuse(s) => UNCHANGED server /\ (s.nr = calls => "failed" \in answers')
BY DEF Execute, Refuse, Answer

LEMMA OthersFrame ==
  ASSUME OthersSteps
  PROVE  UNCHANGED <<tables, node, sent, answers>>
BY DEF OthersSteps, OthersClose, OthersOpen

LEMMA RowFrame ==
  ASSUME RowSteps
  PROVE  /\ UNCHANGED <<server, opc, calls, sent, answers>>
         /\ call' = call \/ (opc \in {"scan", "find_order"} /\ call' = [call EXCEPT !.left = TRUE])
<1>1. ASSUME NEW i \in Id, RowGoes(i) \/ RowChanges(i) \/ RowComes(i)
      PROVE  /\ UNCHANGED <<server, opc, calls, sent, answers>>
             /\ call' = call \/ (opc = "scan" /\ call' = [call EXCEPT !.left = TRUE])
  BY <1>1 DEF RowGoes, RowChanges, RowComes, Shifted, node
<1>2. ASSUME NEW k \in DOMAIN ordersTable,
             OrderRowGoes(k) \/ \E o \in orders : OrderRowChanges(k, o)
      PROVE  /\ UNCHANGED <<server, opc, calls, sent, answers>>
             /\ call' = call \/ (opc = "find_order" /\ call' = [call EXCEPT !.left = TRUE])
  BY <1>2 DEF OrderRowGoes, OrderRowChanges, OrderRow, Shifted, node
<1>3. ASSUME NEW o \in orders, OrderRowComes(o)
      PROVE  UNCHANGED <<server, opc, calls, sent, answers>> /\ call' = call
  BY <1>3 DEF OrderRowComes, OrderRow, node
<1>4. QED
  BY <1>1, <1>2, <1>3 DEF RowSteps

LEMMA UnchangedStep ==
  ASSUME ServerInv, UNCHANGED server
  PROVE  ServerStep
<1>1. born \in born .. MaxTrades /\ born + 1 \notin DOMAIN trades
  BY OrdersAssumption DEF ServerInv
<1>2. QED
  BY <1>1 DEF ServerStep, ServerInv, SamePosition, server

LEMMA EveryStep ==
  ASSUME TypesInv, [OrdersNext]_ordersVars
  PROVE  ServerStep
<1>1. ServerInv
  BY DEF TypesInv
<1>2. CASE NodeSteps \/ RowSteps \/ UNCHANGED ordersVars
  <2>1. UNCHANGED server
    BY <1>2, NodeFrame, RowFrame DEF ordersVars
  <2>2. QED
    BY <1>1, <2>1, UnchangedStep
<1>3. CASE OthersSteps
  BY <1>1, <1>3, OthersStep DEF OthersSteps
<1>4. ASSUME NEW s \in sent, Execute(s) PROVE ServerStep
  BY <1>4, OpenStep, CreateStep, EditStep, CloseStep, NetOpenStep, NetCloseStep DEF Execute
<1>5. ASSUME NEW s \in sent, Refuse(s) PROVE ServerStep
  BY <1>1, <1>5, AnswerFrame, UnchangedStep
<1>6. QED
  BY <1>2, <1>3, <1>4, <1>5, Kinds

-----------------------------------------------------------------------------
(* Orders: the types                                                       *)

LEMMA TablesKept ==
  ASSUME TypesInv, ServerStep, UNCHANGED tables
  PROVE  TablesInv'
<1>1. TablesInv /\ ServerInv
  BY DEF TypesInv
<1>2. tradesTable' = tradesTable /\ ordersTable' = ordersTable
  BY DEF tables
<1>3. born \in Nat /\ born' \in Nat /\ born <= born'
  BY OrdersAssumption DEF ServerInv, ServerStep, TypesInv
<1>4. ASSUME NEW k \in DOMAIN tradesTable
      PROVE  /\ tradesTable[k].id \in 1 .. born'
             /\ tradesTable[k].id \in DOMAIN trades' =>
                  SamePosition(tradesTable[k].row, trades'[tradesTable[k].id])
  <2> DEFINE id == tradesTable[k].id
  <2>1. /\ id \in 1 .. born
        /\ id \in DOMAIN trades => SamePosition(tradesTable[k].row, trades[id])
    BY <1>1 DEF TablesInv
  <2>2. id \in 1 .. born' /\ id # born + 1
    BY <1>3, <2>1
  <2>3. id \in DOMAIN trades' => id \in DOMAIN trades /\ SamePosition(trades'[id], trades[id])
    BY <2>2 DEF ServerStep
  <2>4. QED
    BY <2>1, <2>2, <2>3 DEF SamePosition
<1>5. QED
  BY <1>1, <1>2, <1>4 DEF TablesInv

LEMMA RowGoesTables ==
  ASSUME TypesInv, NEW k, RowGoes(k)
  PROVE  TablesInv'
<1>1. /\ TablesInv /\ k \in DOMAIN tradesTable /\ tradesTable' = Seqs!RemoveAt(tradesTable, k)
      /\ trades' = trades /\ born' = born /\ ordersTable' = ordersTable
  BY DEF RowGoes, TypesInv, server
<1>2. tradesTable \in Seq([id : Nat, row : TradeRow])
  BY <1>1 DEF TablesInv
<1>3. /\ tradesTable' \in Seq([id : Nat, row : TradeRow])
      /\ \A i \in DOMAIN tradesTable' : \E j \in DOMAIN tradesTable : tradesTable'[i] = tradesTable[j]
  BY <1>1, <1>2, RowRemoved
<1>4. QED
  BY <1>1, <1>3 DEF TablesInv

LEMMA RowChangesTables ==
  ASSUME TypesInv, NEW k, RowChanges(k)
  PROVE  /\ TablesInv' /\ DOMAIN tradesTable' = DOMAIN tradesTable
         /\ Len(tradesTable') = Len(tradesTable)
         /\ \A i \in DOMAIN tradesTable :
              /\ tradesTable'[i].id = tradesTable[i].id
              /\ tradesTable'[i].row = tradesTable[i].row \/
                   (tradesTable'[i].row = trades[tradesTable[i].id]
                      /\ SamePosition(tradesTable[i].row, trades[tradesTable[i].id]))
<1> DEFINE id == tradesTable[k].id
           new == [tradesTable[k] EXCEPT !.row = trades[id]]
<1>1. /\ TablesInv /\ ServerInv /\ k \in DOMAIN tradesTable /\ id \in DOMAIN trades
      /\ tradesTable' = [tradesTable EXCEPT ![k] = new]
      /\ trades' = trades /\ born' = born /\ ordersTable' = ordersTable
  BY DEF RowChanges, TypesInv, server
<1>2. tradesTable \in Seq([id : Nat, row : TradeRow]) /\ tradesTable[k] \in [id : Nat, row : TradeRow]
  <2>1. tradesTable \in Seq([id : Nat, row : TradeRow])
    BY <1>1 DEF TablesInv
  <2>2. k \in 1 .. Len(tradesTable)
    BY <1>1, <2>1
  <2>4. tradesTable[k] \in [id : Nat, row : TradeRow]
    BY <2>1, <2>2, ElementOfSeq
  <2>3. QED
    BY <2>1, <2>4
<1>3. trades[id] \in TradeRow
  BY <1>1 DEF ServerInv
<1>4. new \in [id : Nat, row : TradeRow] /\ new.id = id /\ new.row = trades[id]
  BY <1>2, <1>3
<1> HIDE DEF new
<1>5. /\ tradesTable' \in Seq([id : Nat, row : TradeRow]) /\ Len(tradesTable') = Len(tradesTable)
      /\ DOMAIN tradesTable' = DOMAIN tradesTable
      /\ \A i \in DOMAIN tradesTable : tradesTable'[i] = IF i = k THEN new ELSE tradesTable[i]
  BY <1>1, <1>2, <1>4
<1>6. SamePosition(new.row, trades[id])
  BY <1>4 DEF SamePosition
<1>7. TablesInv'
  BY <1>1, <1>4, <1>5, <1>6 DEF TablesInv
<1>8. SamePosition(tradesTable[k].row, trades[id])
  BY <1>1 DEF TablesInv
<1>9. QED
  BY <1>4, <1>5, <1>7, <1>8

LEMMA RowComesTables ==
  ASSUME TypesInv, NEW i \in Id, RowComes(i)
  PROVE  /\ TablesInv' /\ Len(tradesTable') = Len(tradesTable) + 1
         /\ DOMAIN tradesTable' = DOMAIN tradesTable \cup {Len(tradesTable) + 1}
         /\ \A k \in DOMAIN tradesTable : tradesTable'[k] = tradesTable[k]
<1> DEFINE new == [id |-> i, row |-> trades[i]]
<1>1. /\ TablesInv /\ ServerInv /\ i \in DOMAIN trades
      /\ tradesTable' = Append(tradesTable, new)
      /\ trades' = trades /\ born' = born /\ ordersTable' = ordersTable
  BY DEF RowComes, TypesInv, server
<1>2. tradesTable \in Seq([id : Nat, row : TradeRow])
  BY <1>1 DEF TablesInv
<1>3. trades[i] \in TradeRow /\ i \in 1 .. born /\ i \in Nat
  BY <1>1, OrdersAssumption DEF ServerInv
<1>4. new \in [id : Nat, row : TradeRow] /\ new.id = i /\ SamePosition(new.row, trades[i])
  BY <1>3 DEF SamePosition
<1> HIDE DEF new
<1>5. /\ tradesTable' \in Seq([id : Nat, row : TradeRow])
      /\ Len(tradesTable') = Len(tradesTable) + 1
      /\ DOMAIN tradesTable' = DOMAIN tradesTable \cup {Len(tradesTable) + 1}
      /\ \A k \in DOMAIN tradesTable : tradesTable'[k] = tradesTable[k]
      /\ tradesTable'[Len(tradesTable) + 1] = new
  BY <1>1, <1>2, <1>4
<1>6. TablesInv'
  BY <1>1, <1>3, <1>4, <1>5 DEF TablesInv
<1>7. QED
  BY <1>5, <1>6

LEMMA OrderRowsTables ==
  ASSUME TypesInv,
         \/ \E k \in DOMAIN ordersTable : OrderRowGoes(k) \/ \E o \in orders : OrderRowChanges(k, o)
         \/ \E o \in orders : OrderRowComes(o)
  PROVE  TablesInv'
<1>1. TablesInv /\ ordersTable \in Seq(OrderRecord) /\ orders \subseteq OrderRecord
  BY DEF TypesInv, TablesInv, ServerInv
<1>2. tradesTable' = tradesTable /\ trades' = trades /\ born' = born
  BY DEF OrderRowGoes, OrderRowChanges, OrderRowComes, OrderRow, server
<1>3. ordersTable' \in Seq(OrderRecord)
  <2>1. ASSUME NEW k \in DOMAIN ordersTable, OrderRowGoes(k) PROVE ordersTable' \in Seq(OrderRecord)
    BY <1>1, <2>1, RowRemoved DEF OrderRowGoes, OrderRow
  <2>2. ASSUME NEW k \in DOMAIN ordersTable, NEW o \in orders, OrderRowChanges(k, o)
        PROVE  ordersTable' \in Seq(OrderRecord)
    <3>1. ordersTable' = [ordersTable EXCEPT ![k] = o] /\ o \in OrderRecord
      BY <1>1, <2>2 DEF OrderRowChanges, OrderRow
    <3>2. QED
      BY <1>1, <3>1
  <2>3. ASSUME NEW o \in orders, OrderRowComes(o) PROVE ordersTable' \in Seq(OrderRecord)
    <3>1. ordersTable' = Append(ordersTable, o) /\ o \in OrderRecord
      BY <1>1, <2>3 DEF OrderRowComes, OrderRow
    <3>2. QED
      BY <1>1, <3>1
  <2>4. QED
    BY <2>1, <2>2, <2>3
<1>4. QED
  BY <1>1, <1>2, <1>3 DEF TablesInv

LEMMA TablesNext ==
  ASSUME TypesInv, [OrdersNext]_ordersVars
  PROVE  TablesInv'
<1>1. ServerStep
  BY EveryStep
<1>2. CASE RowSteps
  BY <1>2, RowGoesTables, RowChangesTables, RowComesTables, OrderRowsTables DEF RowSteps
<1>3. CASE UNCHANGED tables
  BY <1>1, <1>3, TablesKept
<1>4. RowSteps \/ UNCHANGED tables
  BY Kinds, NodeFrame, AnswerFrame, OthersFrame DEF ordersVars
<1>5. QED
  BY <1>2, <1>3, <1>4

\* The row a lookup is at.
LEMMA RowAt ==
  ASSUME TypesInv, NEW k \in Nat \ {0}, k <= Len(tradesTable)
  PROVE  /\ k \in DOMAIN tradesTable /\ tradesTable[k].row \in TradeRow
         /\ tradesTable[k].id \in 1 .. born
<1>1. tradesTable \in Seq([id : Nat, row : TradeRow])
  BY DEF TypesInv, TablesInv
<1>2. k \in 1 .. Len(tradesTable) /\ k \in DOMAIN tradesTable
  BY <1>1
<1>3. tradesTable[k] \in [id : Nat, row : TradeRow]
  BY <1>1, <1>2, ElementOfSeq
<1>4. QED
  BY <1>2, <1>3 DEF TypesInv, TablesInv

LEMMA OrderRowAt ==
  ASSUME TypesInv, NEW k \in Nat \ {0}, k <= Len(ordersTable)
  PROVE  k \in DOMAIN ordersTable /\ ordersTable[k] \in OrderRecord
<1>1. ordersTable \in Seq(OrderRecord)
  BY DEF TypesInv, TablesInv
<1>2. k \in 1 .. Len(ordersTable) /\ k \in DOMAIN ordersTable
  BY <1>1
<1>3. QED
  BY <1>1, <1>2, ElementOfSeq

LEMMA MeantIs ==
  ASSUME TypesInv, NEW c
  PROVE  Meant(c) \subseteq 1 .. born /\ Meant(c) \subseteq Nat
<1>1. \A k \in DOMAIN tradesTable : tradesTable[k].id \in 1 .. born
  BY DEF TypesInv, TablesInv
<1>2. \A n \in 1 .. born : n \in Nat
  BY OrdersAssumption DEF TypesInv, ServerInv
<1>3. Meant(c) \subseteq 1 .. born
  BY <1>1 DEF Meant
<1>4. QED
  BY <1>2, <1>3

LEMMA CallCallInv ==
  ASSUME TypesInv, Call
  PROVE  CallInv'
<1> USE DEF Looking
<1>1. calls \in Nat /\ calls' \in Nat
  <2>1. calls' = calls + 1
    BY CallBegins
  <2>2. QED
    BY <2>1 DEF TypesInv, CallInv
<1>2. CASE openPosition
  <2>1. call'.what = "open" /\ opc' \in {"wait", "failed"}
    BY <1>2 DEF openPosition, Begin
  <2>2. QED
    BY <1>1, <2>1 DEF CallInv
<1>3. ASSUME NEW type \in Type, Change(type) PROVE CallInv'
  <2>1. PICK account \in Account, trade \in Id, rate \in Rate :
          /\ call' = [what |-> "change", account |-> account, trade |-> trade, type |-> type,
                      rate |-> rate, i |-> 1, found |-> NoPosition, left |-> FALSE, fresh |-> FALSE]
          /\ opc' = "find_trade"
    BY <1>3 DEF Change, Begin
  <2>2. call' \in ChangeCall
    BY <2>1 DEF ChangeCall
  <2>3. QED
    BY <1>1, <2>1, <2>2 DEF CallInv
<1>4. CASE closePosition
  <2>1. PICK account \in Account, trade \in Id, amount \in {0} \cup Unit :
          /\ call' = [what |-> "close", account |-> account, trade |-> trade, amount |-> amount,
                      i |-> 1, found |-> NoPosition]
          /\ opc' = "find_trade"
    BY <1>4 DEF closePosition, Begin
  <2>2. amount \in Nat
    BY OrdersAssumption
  <2>3. call' \in CloseCall
    BY <2>1, <2>2 DEF CloseCall
  <2>4. QED
    BY <1>1, <2>1, <2>3 DEF CallInv
<1>5. CASE closeAllPositions
  <2>1. PICK account \in Account, symbol \in Symbol \cup {AnySymbol}, meant \in SUBSET Nat :
          /\ call' = [what |-> "close_all", account |-> account, symbol |-> symbol, i |-> 1,
                      sides |-> {}, meant |-> meant, left |-> FALSE]
          /\ opc' \in {"failed", "scan"}
    <3>1. PICK account \in Account, symbol \in Symbol \cup {AnySymbol} :
            LET c == [what |-> "close_all", account |-> account, symbol |-> symbol] IN
              Begin([what |-> "close_all", account |-> account, symbol |-> symbol, i |-> 1,
                     sides |-> {}, meant |-> Meant(c), left |-> FALSE],
                    IF Unknown(account, symbol) THEN "failed" ELSE "scan")
      BY <1>5 DEF closeAllPositions
    <3> DEFINE c == [what |-> "close_all", account |-> account, symbol |-> symbol]
    <3>2. Meant(c) \in SUBSET Nat
      BY MeantIs
    <3>3. QED
      BY <3>1, <3>2 DEF Begin
  <2>2. call' \in CloseAllCall
    BY <2>1 DEF CloseAllCall
  <2>3. QED
    BY <1>1, <2>1, <2>2 DEF CallInv
<1>6. "S" \in Type /\ "L" \in Type
  BY DEF Type
<1>7. QED
  BY <1>2, <1>3, <1>4, <1>5, <1>6 DEF Call, changeStopLoss, changeTakeProfit

LEMMA LookupCallInv ==
  ASSUME TypesInv, Lookup
  PROVE  CallInv'
<1> USE DEF Looking
<1>1. CallInv
  BY DEF TypesInv
<1>2. UNCHANGED calls /\ UNCHANGED born
  BY DEF Lookup, NoTrade, NextTrade, FoundToClose, FoundToChange, NextOrder, CreateStop,
         EditStop, Scan, ScanFindsNothing, ScanEnds, Return, Look, Send, server
<1>3. CASE NoTrade \/ ScanFindsNothing
  BY <1>1, <1>2, <1>3 DEF NoTrade, ScanFindsNothing, Return, CallInv
<1>4. CASE NextTrade
  <2>1. /\ opc = "find_trade" /\ opc' = opc /\ call' = [call EXCEPT !.i = @ + 1]
        /\ call.what \in {"change", "close"}
    BY <1>1, <1>4 DEF NextTrade, Look, CallInv
  <2>2. CASE call.what = "change"
    <3>1. call \in ChangeCall
      BY <1>1, <2>2 DEF CallInv
    <3>2. call' \in ChangeCall /\ call'.what = "change"
      BY <2>1, <3>1 DEF ChangeCall
    <3>3. QED
      BY <1>1, <1>2, <2>1, <3>2 DEF CallInv
  <2>3. CASE call.what = "close"
    <3>1. call \in CloseCall
      BY <1>1, <2>3 DEF CallInv
    <3>2. call' \in CloseCall /\ call'.what = "close"
      BY <2>1, <3>1 DEF CloseCall
    <3>3. QED
      BY <1>1, <1>2, <2>1, <3>2 DEF CallInv
  <2>4. QED
    BY <2>1, <2>2, <2>3
<1>5. CASE FoundToClose
  <2>1. /\ opc = "find_trade" /\ call.i <= Len(tradesTable) /\ call.what = "close"
        /\ call' = [call EXCEPT !.found = tradesTable[call.i].row] /\ opc' = "wait"
    BY <1>5 DEF FoundToClose, FindTrade, Found, Send
  <2>2. call \in CloseCall
    BY <1>1, <2>1 DEF CallInv
  <2>3. call.i \in Nat \ {0}
    BY <2>2 DEF CloseCall
  <2>4. tradesTable[call.i].row \in TradeRow
    BY <2>1, <2>3, RowAt
  <2>5. call' \in CloseCall /\ call'.what = "close"
    BY <2>1, <2>2, <2>4 DEF CloseCall
  <2>6. QED
    BY <1>1, <1>2, <2>1, <2>5 DEF CallInv
<1>6. CASE FoundToChange
  <2>1. /\ opc = "find_trade" /\ call.i <= Len(tradesTable) /\ call.what = "change"
        /\ tradesTable[call.i].id = call.trade
        /\ call' = [[call EXCEPT !.found = tradesTable[call.i].row] EXCEPT !.i = 1]
        /\ opc' = "find_order"
    BY <1>6 DEF FoundToChange, FindTrade, ThisTrade, Found
  <2>2. call \in ChangeCall
    BY <1>1, <2>1 DEF CallInv
  <2>3. call.i \in Nat \ {0}
    BY <2>2 DEF ChangeCall
  <2>4. tradesTable[call.i].row \in TradeRow /\ call.trade \in 1 .. born
    BY <2>1, <2>3, RowAt
  <2> DEFINE c == [call EXCEPT !.found = tradesTable[call.i].row]
  <2>7. c \in ChangeCall /\ c.found \in TradeRow /\ c.trade = call.trade
    BY <2>2, <2>4 DEF ChangeCall
  <2>8. call' = [c EXCEPT !.i = 1]
    BY <2>1
  <2> HIDE DEF c
  <2>5. /\ call' \in ChangeCall /\ call'.what = "change" /\ call'.found \in TradeRow
        /\ call'.trade = call.trade
    BY <2>7, <2>8 DEF ChangeCall
  <2>6. QED
    BY <1>1, <1>2, <2>1, <2>4, <2>5 DEF CallInv
<1>7. CASE NextOrder
  <2>1. opc = "find_order" /\ opc' = opc /\ call' = [call EXCEPT !.i = @ + 1]
    BY <1>7 DEF NextOrder, Look
  <2>2. call \in ChangeCall /\ call.found \in TradeRow /\ call.trade \in 1 .. born
    BY <1>1, <2>1 DEF CallInv
  <2>3. /\ call' \in ChangeCall /\ call'.what = "change" /\ call'.found = call.found
        /\ call'.trade = call.trade
    BY <2>1, <2>2 DEF ChangeCall
  <2>4. QED
    BY <1>1, <1>2, <2>1, <2>2, <2>3 DEF CallInv
<1>8. CASE CreateStop \/ EditStop
  <2> DEFINE fresh == InOrder(call) /\ ~call.left
  <2>1. opc = "find_order" /\ opc' = "wait" /\ call' = [call EXCEPT !.fresh = fresh]
    BY <1>8 DEF CreateStop, EditStop, Send
  <2>2. call \in ChangeCall
    BY <1>1, <2>1 DEF CallInv
  <2>3. fresh \in BOOLEAN
    OBVIOUS
  <2> HIDE DEF fresh
  <2>4. call' \in ChangeCall /\ call'.what = "change"
    BY <2>1, <2>2, <2>3 DEF ChangeCall
  <2>5. QED
    BY <1>1, <1>2, <2>1, <2>4 DEF CallInv
<1>9. CASE Scan
  <2> DEFINE line == tradesTable[call.i].row
             sides == IF Matches(line, call) THEN AddSide(call.sides, line) ELSE call.sides
  <2>1. /\ opc = "scan" /\ opc' = opc /\ call.i <= Len(tradesTable)
        /\ call' = [call EXCEPT !.i = @ + 1, !.sides = sides]
    BY <1>9 DEF Scan, Look
  <2>2. call \in CloseAllCall
    BY <1>1, <2>1 DEF CallInv
  <2>3. call.i \in Nat \ {0}
    BY <2>2 DEF CloseAllCall
  <2>4. line \in TradeRow
    BY <2>1, <2>3, RowAt
  <2>5. sides \in SUBSET (Symbol \X Side)
    <3>1. line.symbol \in Symbol /\ line.side \in Side
      BY <2>4 DEF TradeRow
    <3>2. call.sides \in SUBSET (Symbol \X Side)
      BY <2>2 DEF CloseAllCall
    <3> HIDE DEF line
    <3>3. QED
      BY <3>1, <3>2 DEF AddSide
  <2> HIDE DEF sides
  <2> DEFINE c == [call EXCEPT !.i = @ + 1]
  <2>8. call.i + 1 \in Nat \ {0}
    BY <2>3
  <2>9. c \in CloseAllCall
    BY <2>2, <2>8 DEF CloseAllCall
  <2>10. call' = [c EXCEPT !.sides = sides]
    BY <2>1
  <2> HIDE DEF c
  <2>6. call' \in CloseAllCall /\ call'.what = "close_all"
    BY <2>5, <2>9, <2>10 DEF CloseAllCall
  <2>7. QED
    BY <1>1, <1>2, <2>1, <2>6 DEF CallInv
<1>10. CASE ScanEnds
  BY <1>1, <1>2, <1>10 DEF ScanEnds, Send, CallInv
<1>11. QED
  BY <1>3, <1>4, <1>5, <1>6, <1>7, <1>8, <1>9, <1>10 DEF Lookup

LEMMA CallNext ==
  ASSUME TypesInv, [OrdersNext]_ordersVars
  PROVE  CallInv'
<1> USE DEF Looking
<1>1. CallInv /\ ServerStep /\ ServerInv
  BY EveryStep DEF TypesInv
<1>2. \A n \in 1 .. born : n \in 1 .. born'
  BY <1>1, OrdersAssumption DEF ServerStep, ServerInv
<1>3. CASE CallCompletes \/ CallFails \/ CallTimesOut
  BY <1>1, <1>3 DEF CallCompletes, CallFails, CallTimesOut, Return, CallInv
<1>4. CASE Idle
  BY <1>1, <1>4 DEF Idle, NoCall, CallInv
<1>5. CASE OthersSteps \/ (\E s \in sent : Execute(s) \/ Refuse(s)) \/ UNCHANGED ordersVars
  <2>1. UNCHANGED <<opc, call, calls>>
    BY <1>5, OthersFrame, AnswerFrame DEF node, ordersVars
  <2>2. QED
    BY <1>1, <1>2, <2>1 DEF CallInv
<1>6. CASE RowSteps
  <2>1. /\ UNCHANGED <<opc, calls>> /\ born' = born
        /\ call' = call \/ (opc \in {"scan", "find_order"} /\ call' = [call EXCEPT !.left = TRUE])
    BY <1>6, RowFrame DEF server
  <2>2. CASE call' = call
    BY <1>1, <2>1, <2>2 DEF CallInv
  <2>3. CASE opc = "scan" /\ call' = [call EXCEPT !.left = TRUE]
    <3>1. call \in CloseAllCall
      BY <1>1, <2>3 DEF CallInv
    <3>2. call' \in CloseAllCall /\ call'.what = "close_all"
      BY <2>3, <3>1 DEF CloseAllCall
    <3>3. QED
      BY <1>1, <2>1, <2>3, <3>2 DEF CallInv
  <2>4. CASE opc = "find_order" /\ call' = [call EXCEPT !.left = TRUE]
    <3>1. call \in ChangeCall /\ call.found \in TradeRow /\ call.trade \in 1 .. born
      BY <1>1, <2>4 DEF CallInv
    <3>2. /\ call' \in ChangeCall /\ call'.what = "change" /\ call'.found = call.found
          /\ call'.trade = call.trade
      BY <2>4, <3>1 DEF ChangeCall
    <3>3. QED
      BY <1>1, <2>1, <2>4, <3>1, <3>2 DEF CallInv
  <2>5. QED
    BY <2>1, <2>2, <2>3, <2>4
<1>7. QED
  BY <1>3, <1>4, <1>5, <1>6, Kinds, CallCallInv, LookupCallInv DEF NodeSteps

\* The requests sent stay what they are.
LEMMA RequestKept ==
  ASSUME NEW s, RequestInv(s), calls \in Nat, calls' \in Nat, calls <= calls',
         born \in Nat, born' \in Nat, born <= born'
  PROVE  RequestInv(s)'
<1>1. \A n \in 1 .. born : n \in 1 .. born'
  OBVIOUS
<1>2. \A n \in 0 .. calls : n \in 0 .. calls'
  OBVIOUS
<1>3. QED
  BY <1>1, <1>2 DEF RequestInv

LEMMA Growing ==
  ASSUME TypesInv, [OrdersNext]_ordersVars
  PROVE  /\ calls \in Nat /\ calls' \in Nat /\ calls <= calls' /\ (opc # "idle" => calls' = calls)
         /\ calls' = calls \/ calls' = calls + 1
         /\ born \in Nat /\ born' \in Nat /\ born <= born'
<1>1. calls \in Nat /\ ServerInv /\ ServerStep
  BY EveryStep DEF TypesInv, CallInv
<1>2. born \in Nat /\ born' \in Nat /\ born <= born'
  BY <1>1, OrdersAssumption DEF ServerInv, ServerStep
<1>3. calls' = calls \/ (opc = "idle" /\ calls' = calls + 1)
  <2>1. CASE NodeSteps
    <3>1. CASE Call
      BY <3>1, CallBegins
    <3>2. CASE Lookup
      BY <3>2 DEF Lookup, NoTrade, NextTrade, FoundToClose, FoundToChange, NextOrder, CreateStop,
                  EditStop, Scan, ScanFindsNothing, ScanEnds, Return, Look, Send
    <3>3. CASE CallCompletes \/ CallFails \/ CallTimesOut \/ Idle
      BY <3>3 DEF CallCompletes, CallFails, CallTimesOut, Return, Idle
    <3>4. QED
      BY <2>1, <3>1, <3>2, <3>3 DEF NodeSteps
  <2>2. QED
    BY <2>1, Kinds, AnswerFrame, OthersFrame, RowFrame DEF node, ordersVars
<1>4. QED
  BY <1>1, <1>2, <1>3

\* What a call sends: nothing, or its one request, or those that close all positions.
LEMMA CallSends ==
  ASSUME TypesInv, Call
  PROVE  SentInv'
<1>1. /\ SentInv /\ calls \in Nat /\ opc = "idle" /\ calls' = calls + 1 /\ answers' = {}
      /\ born \in Nat /\ born' = born
  <2>1. born \in Nat /\ calls \in Nat /\ SentInv
    BY OrdersAssumption DEF TypesInv, CallInv, ServerInv
  <2>2. QED
    BY <2>1, CallBegins DEF server
<1>2. \A s \in sent : RequestInv(s)' /\ s.nr # calls'
  <2> SUFFICES ASSUME NEW s \in sent PROVE RequestInv(s)' /\ s.nr # calls'
    OBVIOUS
  <2>1. RequestInv(s)
    BY <1>1 DEF SentInv
  <2>2. s.nr # calls'
    BY <1>1, <2>1 DEF RequestInv
  <2>3. calls' \in Nat /\ calls <= calls' /\ born' \in Nat /\ born <= born'
    BY <1>1
  <2>4. QED
    BY <1>1, <2>1, <2>2, <2>3, RequestKept
<1>3. CASE sent' = sent
  BY <1>1, <1>2, <1>3 DEF SentInv, WaitInv
<1>4. ASSUME NEW account \in Account, NEW symbol \in Symbol, NEW bs \in Side, NEW amount \in Unit,
             NEW stop \in {0} \cup Rate,
             opc' = "wait",
             sent' = sent \cup {[nr |-> calls + 1,
               of |-> [what |-> "open", account |-> account, symbol |-> symbol, side |-> bs,
                       amount |-> amount, rate |-> stop],
               request |-> [op |-> "open", account |-> account, symbol |-> symbol,
                            side |-> bs, amount |-> amount, rate |-> stop]]}
      PROVE  SentInv'
  <2> DEFINE c == [what |-> "open", account |-> account, symbol |-> symbol, side |-> bs,
                   amount |-> amount, rate |-> stop]
             r == [op |-> "open", account |-> account, symbol |-> symbol, side |-> bs,
                   amount |-> amount, rate |-> stop]
  <2>0. PICK new : new = [nr |-> calls + 1, of |-> c, request |-> r]
    OBVIOUS
  <2>1. sent' = sent \cup {new} /\ new.nr = calls' /\ new.of = c /\ new.request = r
    BY <1>1, <1>4, <2>0
  <2>2. RequestInv(new)'
    <3>1. amount \in Nat \ {0} /\ new.nr \in 0 .. calls'
      BY <1>1, <2>1, OrdersAssumption
    <3>2. /\ new.request.op = "open" /\ new.of.what = "open" /\ new.request.account \in Account
          /\ new.request.symbol \in Symbol /\ new.request.side \in Side
          /\ new.request.amount \in Nat \ {0} /\ new.request.rate \in {0} \cup Rate
      BY <2>1, <3>1
    <3>3. QED
      BY <3>1, <3>2 DEF RequestInv
  <2> HIDE DEF c, r
  <2>3. \A s \in sent' : RequestInv(s)'
    BY <1>2, <2>1, <2>2
  <2>4. opc' \notin Looking
    BY <1>4 DEF Looking
  <2>5. \A t \in sent' : t.nr = calls' => t = new
    BY <1>2, <2>1
  <2>6. WaitInv'
    BY <1>1, <2>4, <2>5 DEF WaitInv
  <2>7. QED
    BY <2>3, <2>6 DEF SentInv
<1>5. CASE openPosition
  BY <1>1, <1>3, <1>4, <1>5 DEF openPosition, Begin
<1>6. CASE changeStopLoss \/ changeTakeProfit \/ closePosition \/ closeAllPositions
  BY <1>3, <1>6 DEF changeStopLoss, changeTakeProfit, Change, closePosition, closeAllPositions, Begin
<1>7. QED
  BY <1>5, <1>6 DEF Call

\* A call that has looked up what it needs sends one request.
LEMMA SendsOne ==
  ASSUME TypesInv, opc \in Looking, NEW c, NEW r,
         UNCHANGED <<answers, calls, born>>, opc' = "wait",
         sent' = sent \cup {[nr |-> calls, request |-> r, of |-> c]},
         RequestInv([nr |-> calls, request |-> r, of |-> c])
  PROVE  SentInv'
<1> DEFINE new == [nr |-> calls, request |-> r, of |-> c]
<1>1. SentInv /\ calls \in Nat /\ born \in Nat
  BY OrdersAssumption DEF TypesInv, CallInv, ServerInv
<1>2. \A s \in sent' : RequestInv(s)'
  <2>1. \A s \in sent : RequestInv(s)
    BY <1>1 DEF SentInv
  <2>2. \A s \in sent' : RequestInv(s)
    BY <2>1
  <2>3. QED
    BY <1>1, <2>2, RequestKept
<1>3. answers = {} /\ \A s \in sent : s.nr # calls
  BY <1>1 DEF SentInv, WaitInv
<1>4. new.nr = calls /\ sent' = sent \cup {new}
  OBVIOUS
<1> HIDE DEF new
<1>5. \A t \in sent' : t.nr = calls' => t = new
  BY <1>3, <1>4
<1>6. opc' \notin Looking
  BY DEF Looking
<1>7. WaitInv'
  BY <1>3, <1>5, <1>6 DEF WaitInv
<1>8. QED
  BY <1>2, <1>7 DEF SentInv

\* What the three lookups that end with one request send.
LEMMA CloseSends ==
  ASSUME TypesInv, FoundToClose
  PROVE  SentInv'
<1> DEFINE line == tradesTable[call.i].row
           c == [call EXCEPT !.found = line]
           r == CloseRequest(line)
           new == [nr |-> calls, request |-> r, of |-> c]
<1>1. /\ opc = "find_trade" /\ call.i <= Len(tradesTable) /\ call.what = "close"
      /\ line.account = call.account
      /\ call' = c /\ opc' = "wait" /\ UNCHANGED <<answers, calls, born>>
  BY DEF FoundToClose, FindTrade, ThisTrade, Found, Send, server
<1>2. call \in CloseCall /\ calls \in Nat /\ call.i \in Nat \ {0} /\ call.amount \in Nat
  BY <1>1 DEF TypesInv, CallInv, CloseCall
<1>3. line \in TradeRow
  BY <1>1, <1>2, RowAt
<1>4. c \in CloseCall /\ c.found = line /\ c.account = call.account /\ c.what = "close"
  BY <1>2, <1>3 DEF CloseCall
<1>5. c.found.account = line.account /\ Found = c
  BY <1>4 DEF Found
<1>6. sent' = sent \cup {new}
  <2>1. sent' = sent \cup {[nr |-> calls, request |-> q, of |-> Found] : q \in {CloseRequest(Found.found)}}
    BY DEF FoundToClose, Send
  <2>2. Found.found = line
    BY <1>4, <1>5
  <2>3. QED
    BY <1>5, <2>1, <2>2
<1>7. /\ line.account \in Account /\ line.symbol \in Symbol /\ line.side \in Side
      /\ line.amount \in Nat \ {0}
  BY <1>3 DEF TradeRow
<1>8. Amount(call, line) \in Nat \ {0}
  BY <1>2, <1>7 DEF Amount
<1>9. getOppositeBS(line.side) \in Side /\ getOppositeBS(line.side) # line.side
  BY <1>7, Opposite
<1>10. /\ r.op \in {"close", "net_open"} /\ r.account = line.account /\ r.symbol = line.symbol
       /\ r.amount = Amount(call, line) /\ r.side = getOppositeBS(line.side)
  BY DEF CloseRequest
<1>11. new.nr = calls /\ new.request = r /\ new.of = c
  OBVIOUS
<1> HIDE DEF line, c, r, new
<1>12. RequestInv(new)
  BY <1>1, <1>2, <1>3, <1>4, <1>7, <1>8, <1>9, <1>10, <1>11 DEF RequestInv
<1>13. QED
  BY <1>1, <1>6, <1>12, SendsOne DEF new, Looking

LEMMA ChangeSends ==
  ASSUME TypesInv, CreateStop \/ EditStop
  PROVE  /\ SentInv' /\ opc = "find_order" /\ call \in ChangeCall
         /\ call' \in ChangeCall /\ call'.trade = call.trade /\ call'.type = call.type
         /\ (call'.fresh => InOrder(call) /\ ~call.left)
         /\ \E r : /\ sent' = sent \cup {[nr |-> calls, request |-> r, of |-> call']}
                   /\ (r.op = "create" /\ CreateStop) \/ (r.op = "edit" /\ EditStop)
<1> DEFINE fresh == InOrder(call) /\ ~call.left
           c == [call EXCEPT !.fresh = fresh]
<1>1. opc = "find_order" /\ call' = c /\ opc' = "wait" /\ UNCHANGED <<answers, calls, born>>
  BY DEF CreateStop, EditStop, Send, server
<1>2. /\ call \in ChangeCall /\ calls \in Nat /\ call.i \in Nat \ {0} /\ call.type \in Type
      /\ call.rate \in Rate /\ call.trade \in 1 .. born
  BY <1>1 DEF TypesInv, CallInv, ChangeCall
<1>3. fresh \in BOOLEAN
  OBVIOUS
<1>4. c.fresh = fresh /\ c \in ChangeCall
  <2> HIDE DEF fresh
  <2>1. QED
    BY <1>2, <1>3 DEF ChangeCall
<1>5. c.fresh => fresh
  BY <1>4
<1>6. /\ c.trade = call.trade /\ c.type = call.type /\ c.rate = call.rate /\ c.what = "change"
  <2> HIDE DEF fresh
  <2>1. QED
    BY <1>2 DEF ChangeCall
<1> HIDE DEF fresh
<1>7. CASE CreateStop
  <2> DEFINE r == [op |-> "create", account |-> call.account, trade |-> call.trade,
                   type |-> call.type, side |-> getOppositeBS(call.found.side), rate |-> call.rate]
             new == [nr |-> calls, request |-> r, of |-> c]
  <2>1. sent' = sent \cup {new}
    BY <1>7 DEF CreateStop, Send, fresh
  <2>2. /\ new.nr = calls /\ new.request = r /\ new.of = c /\ r.op = "create"
        /\ r.trade = call.trade /\ r.type = call.type /\ r.rate = call.rate
    OBVIOUS
  <2> HIDE DEF new, r, c
  <2>3. RequestInv(new)
    BY <1>2, <1>6, <2>2 DEF RequestInv
  <2>4. SentInv'
    BY <1>1, <2>1, <2>3, SendsOne DEF new, Looking
  <2>5. QED
    <3>1. sent' = sent \cup {[nr |-> calls, request |-> r, of |-> call']}
      BY <1>1, <2>1 DEF new
    <3>2. call' \in ChangeCall /\ call'.trade = call.trade /\ call'.type = call.type /\ call'.rate = call.rate
          /\ (call'.fresh => InOrder(call) /\ ~call.left)
      BY <1>1, <1>4, <1>5, <1>6 DEF fresh
    <3>3. \E q : /\ sent' = sent \cup {[nr |-> calls, request |-> q, of |-> call']}
                 /\ (q.op = "create" /\ CreateStop) \/ (q.op = "edit" /\ EditStop)
      BY <1>7, <2>2, <3>1
    <3>4. QED
      BY <1>1, <1>2, <2>4, <3>2, <3>3
<1>8. CASE EditStop
  <2> DEFINE r == [op |-> "edit", order |-> ordersTable[call.i].nr,
                   trade |-> ordersTable[call.i].trade, type |-> ordersTable[call.i].type,
                   rate |-> call.rate]
             new == [nr |-> calls, request |-> r, of |-> c]
  <2>1. sent' = sent \cup {new} /\ ordersTable[call.i].trade = call.trade
        /\ ordersTable[call.i].type = call.type
    BY <1>8 DEF EditStop, Send, fresh, ThisOrder
  <2>2. /\ new.nr = calls /\ new.request = r /\ new.of = c /\ r.op = "edit"
        /\ r.trade = call.trade /\ r.type = call.type /\ r.rate = call.rate
    BY <2>1
  <2> HIDE DEF new, r, c
  <2>3. RequestInv(new)
    BY <1>2, <1>6, <2>2 DEF RequestInv
  <2>4. SentInv'
    BY <1>1, <2>1, <2>3, SendsOne DEF new, Looking
  <2>5. QED
    <3>1. sent' = sent \cup {[nr |-> calls, request |-> r, of |-> call']}
      BY <1>1, <2>1 DEF new
    <3>2. call' \in ChangeCall /\ call'.trade = call.trade /\ call'.type = call.type /\ call'.rate = call.rate
          /\ (call'.fresh => InOrder(call) /\ ~call.left)
      BY <1>1, <1>4, <1>5, <1>6 DEF fresh
    <3>3. \E q : /\ sent' = sent \cup {[nr |-> calls, request |-> q, of |-> call']}
                 /\ (q.op = "create" /\ CreateStop) \/ (q.op = "edit" /\ EditStop)
      BY <1>8, <2>2, <3>1
    <3>4. QED
      BY <1>1, <1>2, <2>4, <3>2, <3>3
<1>9. QED
  BY <1>7, <1>8

LEMMA ScanSends ==
  ASSUME TypesInv, ScanEnds
  PROVE  SentInv'
<1> DEFINE R == {[op |-> "net_close", account |-> call.account, symbol |-> s[1],
                  side |-> getOppositeBS(s[2])] : s \in call.sides}
<1>1. /\ opc = "scan" /\ call' = call /\ opc' = "wait" /\ UNCHANGED <<answers, calls, born>>
      /\ sent' = sent \cup {[nr |-> calls, request |-> r, of |-> call] : r \in R}
  BY DEF ScanEnds, Send, server
<1>2. call.what = "close_all" /\ SentInv /\ calls \in Nat /\ born \in Nat
  BY <1>1, OrdersAssumption DEF TypesInv, CallInv, ServerInv
<1>3. \A s \in sent : RequestInv(s) /\ s.nr # calls
  BY <1>1, <1>2 DEF SentInv, WaitInv, Looking
<1>4. \A r \in R : r.op = "net_close" /\ r.account = call.account
  OBVIOUS
<1> HIDE DEF R
<1>5. ASSUME NEW s \in sent', s \notin sent
      PROVE  RequestInv(s) /\ s.of.what = "close_all"
  <2>1. PICK r \in R : s = [nr |-> calls, request |-> r, of |-> call]
    BY <1>1, <1>5
  <2>2. s.nr = calls /\ s.request = r /\ s.of = call
    BY <2>1
  <2>3. r.op = "net_close" /\ r.account = call.account
    BY <1>4
  <2>4. s.nr \in 0 .. calls
    BY <1>2, <2>2
  <2>5. QED
    BY <1>2, <2>2, <2>3, <2>4 DEF RequestInv
<1>6. \A s \in sent' : RequestInv(s)'
  <2>1. calls' \in Nat /\ calls <= calls' /\ born' \in Nat /\ born <= born'
    BY <1>1, <1>2
  <2>2. \A s \in sent' : RequestInv(s)
    BY <1>3, <1>5
  <2>3. QED
    BY <1>2, <2>1, <2>2, RequestKept
<1>7. WaitInv'
  BY <1>1, <1>3, <1>5 DEF WaitInv, Looking
<1>8. QED
  BY <1>6, <1>7 DEF SentInv

LEMMA SentNext ==
  ASSUME TypesInv, [OrdersNext]_ordersVars
  PROVE  SentInv'
<1>1. /\ SentInv /\ calls \in Nat /\ calls' \in Nat /\ calls <= calls'
      /\ born \in Nat /\ born' \in Nat /\ born <= born'
  BY Growing DEF TypesInv
<1>2. \A s \in sent : RequestInv(s)'
  BY <1>1, RequestKept DEF SentInv
<1>3. ASSUME sent' = sent, answers' = answers, calls' = calls, opc' \in Looking => opc \in Looking
      PROVE  SentInv'
  BY <1>1, <1>2, <1>3 DEF SentInv, WaitInv
<1>4. CASE Call
  BY <1>4, CallSends
<1>5. CASE Lookup
  <2>1. CASE NoTrade \/ NextTrade \/ FoundToChange \/ NextOrder \/ Scan \/ ScanFindsNothing
    BY <1>3, <2>1 DEF NoTrade, NextTrade, FoundToChange, FindTrade, NextOrder, Scan, ScanFindsNothing,
                      Return, Look, Looking
  <2>2. QED
    BY <1>5, <2>1, CloseSends, ChangeSends, ScanSends DEF Lookup
<1>6. CASE CallCompletes \/ CallFails \/ CallTimesOut \/ Idle
  BY <1>3, <1>6 DEF CallCompletes, CallFails, CallTimesOut, Return, Idle, Looking
<1>7. CASE OthersSteps \/ RowSteps \/ UNCHANGED ordersVars
  BY <1>3, <1>7, OthersFrame, RowFrame DEF node, ordersVars
<1>8. ASSUME NEW s \in sent, Execute(s) \/ Refuse(s) PROVE SentInv'
  <2>1. /\ opc' = opc /\ calls' = calls /\ sent' = sent \ {s}
        /\ s.nr # calls => answers' = answers
    BY <1>8, AnswerFrame DEF node
  <2>2. ASSUME opc' \in Looking PROVE answers' = {} /\ \A t \in sent' : t.nr # calls'
    BY <1>1, <2>1, <2>2 DEF SentInv, WaitInv
  <2>3. ASSUME NEW t \in sent', t.nr = calls', t.of.what # "close_all"
        PROVE  answers' = {} /\ \A u \in sent' : u.nr = calls' => u = t
    <3>1. t \in sent /\ t # s /\ t.nr = calls
      BY <2>1, <2>3
    <3>2. answers = {} /\ \A u \in sent : u.nr = calls => u = t
      BY <1>1, <2>3, <3>1 DEF SentInv, WaitInv
    <3>3. s.nr # calls
      BY <3>1, <3>2
    <3>4. QED
      BY <2>1, <3>2, <3>3
  <2>4. QED
    BY <1>2, <2>1, <2>2, <2>3 DEF SentInv, WaitInv
<1>9. QED
  BY <1>4, <1>5, <1>6, <1>7, <1>8, Kinds DEF NodeSteps

LEMMA InitTypesInv == OrdersInit => TypesInv
<1> SUFFICES ASSUME OrdersInit PROVE TypesInv
  OBVIOUS
<1>1. /\ born = MaxTrades - 1 /\ born \in 0 .. MaxTrades /\ born \in Nat
  BY OrdersAssumption DEF OrdersInit
<1>2. PICK n \in 0 .. born : \E ids \in [1 .. n -> 1 .. born] :
         /\ trades \in [{ids[k] : k \in 1 .. n} -> Position]
         /\ tradesTable = [k \in 1 .. n |-> [id |-> ids[k], row |-> trades[ids[k]]]]
  BY DEF OrdersInit
<1>3. PICK ids \in [1 .. n -> 1 .. born] :
         /\ trades \in [{ids[k] : k \in 1 .. n} -> Position]
         /\ tradesTable = [k \in 1 .. n |-> [id |-> ids[k], row |-> trades[ids[k]]]]
  BY <1>2
<1>4. Position \subseteq TradeRow /\ Order \subseteq OrderRecord
  <2>1. Unit \subseteq Nat \ {0} /\ Id \subseteq Nat /\ 0 .. MaxActs \subseteq Nat
    BY OrdersAssumption DEF Id
  <2>2. Position \subseteq TradeRow
    BY <2>1 DEF Position, TradeRow
  <2>3. Order \subseteq OrderRecord
    BY <2>1 DEF Order, OrderRecord
  <2>4. QED
    BY <2>2, <2>3
<1>5. DOMAIN trades \subseteq 1 .. born /\ trades \in [DOMAIN trades -> TradeRow]
  BY <1>3, <1>4
<1>6. orders \subseteq OrderRecord /\ ordersTable \in Seq(OrderRecord)
  <2>1. CASE orders = {} /\ ordersTable = <<>>
    BY <2>1
  <2>2. ASSUME NEW o \in Order, orders = {o}, ordersTable = <<o>>
        PROVE  orders \subseteq OrderRecord /\ ordersTable \in Seq(OrderRecord)
    BY <1>4, <2>2
  <2>3. QED
    BY <2>1, <2>2 DEF OrdersInit
<1>7. TablesInv
  <2>1. n \in Nat /\ DOMAIN tradesTable = 1 .. n
    BY <1>1, <1>3
  <2>2. ASSUME NEW k \in 1 .. n
        PROVE  /\ tradesTable[k] \in [id : Nat, row : TradeRow] /\ tradesTable[k].id \in 1 .. born
               /\ tradesTable[k].row = trades[tradesTable[k].id]
    <3>1. ids[k] \in 1 .. born /\ ids[k] \in Nat /\ trades[ids[k]] \in TradeRow
      BY <1>1, <1>3, <1>4
    <3>2. tradesTable[k] = [id |-> ids[k], row |-> trades[ids[k]]]
      BY <1>3
    <3>3. QED
      BY <3>1, <3>2
  <2>3. tradesTable \in [1 .. n -> [id : Nat, row : TradeRow]]
    BY <1>3, <2>2
  <2>4. tradesTable \in Seq([id : Nat, row : TradeRow])
    BY <2>1, <2>3, SeqDef
  <2>5. QED
    BY <1>6, <2>1, <2>2, <2>4 DEF TablesInv, SamePosition
<1>8. ServerInv /\ CallInv /\ SentInv
  BY <1>1, <1>5, <1>6 DEF OrdersInit, ServerInv, CallInv, SentInv, WaitInv, Looking, NoCall
<1>9. QED
  BY <1>7, <1>8 DEF TypesInv

LEMMA TypesNext ==
  ASSUME TypesInv, [OrdersNext]_ordersVars
  PROVE  TypesInv'
BY EveryStep, ServerInvNext, TablesNext, CallNext, SentNext DEF TypesInv

-----------------------------------------------------------------------------
(* Orders: the stops and limits                                            *)

\* Only the Node thread sends, with the number of its call.
LEMMA SentStep ==
  ASSUME TypesInv, [OrdersNext]_ordersVars, NEW t \in sent', t \notin sent
  PROVE  /\ t.nr = calls' /\ UNCHANGED <<server, tables>>
         /\ calls' = calls + 1 \/ (opc \in Looking /\ calls' = calls)
<1>1. CASE Call
  <2>1. t.nr = calls + 1
    <3>1. CASE openPosition
      BY <3>1 DEF openPosition
    <3>2. ~(changeStopLoss \/ changeTakeProfit \/ closePosition \/ closeAllPositions)
      BY DEF changeStopLoss, changeTakeProfit, Change, closePosition, closeAllPositions
    <3>3. QED
      BY <1>1, <3>1, <3>2 DEF Call
  <2>2. QED
    BY <1>1, <2>1, CallBegins
<1>2. CASE Lookup
  <2>1. FoundToClose \/ CreateStop \/ EditStop \/ ScanEnds
    BY <1>2 DEF Lookup, NoTrade, NextTrade, FoundToChange, NextOrder, Scan, ScanFindsNothing, Return, Look
  <2>2. opc \in Looking /\ calls' = calls /\ UNCHANGED <<server, tables>>
    BY <2>1 DEF FoundToClose, FindTrade, CreateStop, EditStop, ScanEnds, Send, Looking
  <2>3. t.nr = calls
    BY <2>1 DEF FoundToClose, CreateStop, EditStop, ScanEnds, Send
  <2>4. QED
    BY <2>2, <2>3
<1>3. CASE CallCompletes \/ CallFails \/ CallTimesOut \/ Idle
  BY <1>3 DEF CallCompletes, CallFails, CallTimesOut, Return, Idle
<1>4. CASE ~NodeSteps
  BY <1>4, Kinds, OthersFrame, RowFrame, AnswerFrame DEF ordersVars
<1>5. QED
  BY <1>1, <1>2, <1>3, <1>4 DEF NodeSteps

\* A change of the orders or of their rows keeps what an order belongs to, and only the
\* execution of a request makes one.
LEMMA KnownStep ==
  ASSUME TypesInv, [OrdersNext]_ordersVars
  PROVE  \/ \A q \in Known' : \E p \in Known : SameOrder(q, p)
         \/ \E s \in sent : \E n :
              /\ Making(s) /\ Known' \subseteq Known \cup {n} /\ n.nr = s.nr
              /\ sent' = sent \ {s} /\ UNCHANGED <<opc, calls>>
<1> DEFINE Kept == \A q \in Known' : \E p \in Known : SameOrder(q, p)
<1>1. ASSUME orders' \subseteq orders, ordersTable' = ordersTable PROVE Kept
  BY <1>1 DEF Known, SameOrder
<1>2. CASE NodeSteps \/ OthersSteps \/ UNCHANGED ordersVars
  <2>1. orders' \subseteq orders /\ ordersTable' = ordersTable
    BY <1>2, NodeFrame, OthersFrame DEF OthersSteps, OthersClose, OthersOpen, Become, server, tables, ordersVars
  <2>2. QED
    BY <1>1, <2>1
<1>3. CASE RowSteps
  <2>1. ordersTable \in Seq(OrderRecord) /\ orders' = orders
    BY <1>3, RowFrame DEF TypesInv, TablesInv, server
  <2>2. ASSUME NEW i \in Id, RowGoes(i) \/ RowChanges(i) \/ RowComes(i) PROVE Kept
    BY <1>1, <2>1, <2>2 DEF RowGoes, RowChanges, RowComes
  <2>3. ASSUME NEW k \in DOMAIN ordersTable, OrderRowGoes(k) PROVE Kept
    <3>1. ordersTable' = Seqs!RemoveAt(ordersTable, k)
      BY <2>3 DEF OrderRowGoes, OrderRow
    <3>2. \A i \in DOMAIN ordersTable' : \E j \in DOMAIN ordersTable : ordersTable'[i] = ordersTable[j]
      BY <2>1, <3>1, RowRemoved
    <3>3. QED
      BY <2>1, <3>2 DEF Known, SameOrder
  <2>4. ASSUME NEW k \in DOMAIN ordersTable, NEW o \in orders, OrderRowChanges(k, o) PROVE Kept
    <3>1. ordersTable' = [ordersTable EXCEPT ![k] = o]
      BY <2>4 DEF OrderRowChanges, OrderRow
    <3>2. /\ DOMAIN ordersTable' = DOMAIN ordersTable
          /\ \A i \in DOMAIN ordersTable : ordersTable'[i] = IF i = k THEN o ELSE ordersTable[i]
      BY <2>1, <3>1
    <3>3. QED
      BY <2>1, <3>2 DEF Known, SameOrder
  <2>5. ASSUME NEW o \in orders, OrderRowComes(o) PROVE Kept
    <3>1. ordersTable' = Append(ordersTable, o)
      BY <2>5 DEF OrderRowComes, OrderRow
    <3>2. \A i \in DOMAIN ordersTable' :
             ordersTable'[i] = o \/ (i \in DOMAIN ordersTable /\ ordersTable'[i] = ordersTable[i])
      BY <2>1, <3>1
    <3>3. QED
      BY <2>1, <3>2 DEF Known, SameOrder
  <2>6. QED
    BY <1>3, <2>2, <2>3, <2>4, <2>5 DEF RowSteps
<1>4. ASSUME NEW s \in sent, Refuse(s) PROVE Kept
  BY <1>1, <1>4, AnswerFrame DEF server, tables
<1>5. ASSUME NEW s \in sent, Execute(s)
      PROVE  \/ Kept
             \/ \E n : /\ Making(s) /\ Known' \subseteq Known \cup {n} /\ n.nr = s.nr
                       /\ sent' = sent \ {s} /\ UNCHANGED <<opc, calls>>
  <2> DEFINE r == s.request
  <2>1. ordersTable' = ordersTable /\ sent' = sent \ {s} /\ UNCHANGED <<opc, calls>>
    BY <1>5, AnswerFrame DEF tables, node
  <2>2. CASE ExecuteOpen(s)
    <3> DEFINE n == [trade |-> born + 1, type |-> "S", rate |-> r.rate, nr |-> s.nr]
    <3>1. orders' \subseteq orders \cup {n} /\ Making(s)
      BY <2>2 DEF ExecuteOpen, Making
    <3>2. n.nr = s.nr /\ n.trade = born + 1
      OBVIOUS
    <3> HIDE DEF n
    <3>3. Known' \subseteq Known \cup {n}
      BY <2>1, <3>1 DEF Known
    <3>4. QED
      BY <2>1, <3>1, <3>2, <3>3
  <2>3. CASE ExecuteCreate(s)
    <3> DEFINE n == [trade |-> r.trade, type |-> r.type, rate |-> r.rate, nr |-> s.nr]
    <3>1. orders' \subseteq orders \cup {n} /\ Making(s) /\ r.op = "create"
      BY <2>3 DEF ExecuteCreate, Making
    <3>2. n.nr = s.nr
      OBVIOUS
    <3> HIDE DEF n
    <3>3. Known' \subseteq Known \cup {n}
      BY <2>1, <3>1 DEF Known
    <3>4. QED
      BY <2>1, <3>1, <3>2, <3>3
  <2>4. CASE ExecuteEdit(s)
    <3>1. PICK o \in orders : orders' = (orders \ {o}) \cup {[o EXCEPT !.rate = r.rate]}
      BY <2>4 DEF ExecuteEdit
    <3>2. o \in OrderRecord
      BY DEF TypesInv, ServerInv
    <3>3. SameOrder([o EXCEPT !.rate = r.rate], o)
      BY <3>2 DEF OrderRecord, SameOrder
    <3>4. QED
      BY <2>1, <3>1, <3>3 DEF Known, SameOrder
  <2>5. CASE ExecuteClose(s) \/ ExecuteNetOpen(s) \/ ExecuteNetClose(s)
    <3>1. orders' \subseteq orders
      BY <2>5 DEF ExecuteClose, ExecuteNetOpen, ExecuteNetClose, Become
    <3>2. QED
      BY <1>1, <2>1, <3>1
  <2>6. QED
    BY <1>5, <2>2, <2>3, <2>4, <2>5 DEF Execute
<1>6. QED
  BY <1>2, <1>3, <1>4, <1>5, Kinds

LEMMA NumbersNext ==
  ASSUME TypesInv, NumbersInv, [OrdersNext]_ordersVars
  PROVE  NumbersInv'
<1>1. /\ calls \in Nat /\ calls' \in Nat /\ calls <= calls' /\ (opc # "idle" => calls' = calls)
      /\ calls' = calls \/ calls' = calls + 1
      /\ SentInv /\ SentInv'
  BY Growing, SentNext DEF TypesInv
<1>2. \A o \in Known : o.nr \in Nat
  <2>1. \A o \in orders : o.nr \in Nat
    BY DEF TypesInv, ServerInv, OrderRecord
  <2>2. ASSUME NEW k \in DOMAIN ordersTable PROVE ordersTable[k].nr \in Nat
    <3>1. ordersTable \in Seq(OrderRecord)
      BY DEF TypesInv, TablesInv
    <3>2. k \in 1 .. Len(ordersTable)
      BY <3>1
    <3>3. ordersTable[k] \in OrderRecord
      BY <3>1, <3>2, ElementOfSeq
    <3>4. QED
      BY <3>3 DEF OrderRecord
  <2>3. QED
    BY <2>1, <2>2 DEF Known
<1>3. calls' = calls /\ opc' \in Looking => opc \in Looking
  <2>1. CASE Call
    BY <1>1, <2>1, CallBegins
  <2>2. CASE Lookup
    BY <2>2 DEF Lookup, NoTrade, NextTrade, FoundToClose, FoundToChange, FindTrade, NextOrder, CreateStop,
                EditStop, Scan, ScanFindsNothing, ScanEnds, Return, Look, Send, Looking
  <2>3. CASE CallCompletes \/ CallFails \/ CallTimesOut \/ Idle
    BY <2>3 DEF CallCompletes, CallFails, CallTimesOut, Return, Idle, Looking
  <2>4. CASE ~NodeSteps
    BY <2>4, Kinds, OthersFrame, RowFrame, AnswerFrame DEF ordersVars, node
  <2>5. QED
    BY <2>1, <2>2, <2>3, <2>4 DEF NodeSteps
<1>4. ASSUME NEW p \in Known
      PROVE  p.nr <= calls' /\ (opc' \in Looking => p.nr # calls')
  <2>1. p.nr \in Nat /\ p.nr <= calls /\ (opc \in Looking => p.nr # calls)
    BY <1>2 DEF NumbersInv
  <2>2. QED
    BY <1>1, <1>3, <2>1
<1>5. ASSUME NEW s \in sent', s \notin sent, NEW p \in Known PROVE p.nr # s.nr
  <2>1. p.nr \in Nat /\ p.nr <= calls /\ (opc \in Looking => p.nr # calls)
    BY <1>2 DEF NumbersInv
  <2>2. s.nr = calls' /\ (calls' = calls + 1 \/ (opc \in Looking /\ calls' = calls))
    BY <1>5, SentStep
  <2>3. QED
    BY <1>1, <2>1, <2>2
<1>6. ASSUME NEW s \in sent', NEW t \in sent', Making(s), Making(t), t.nr = s.nr PROVE t = s
  <2>1. CASE s \in sent /\ t \in sent
    BY <1>6, <2>1 DEF NumbersInv
  <2>2. CASE s \notin sent \/ t \notin sent
    <3>1. s.nr = calls'
      BY <1>6, <2>2, SentStep
    <3>2. s.of.what # "close_all"
      BY <1>1, <1>6 DEF SentInv, RequestInv, Making
    <3>3. QED
      BY <1>1, <1>6, <3>1, <3>2 DEF SentInv, WaitInv
  <2>3. QED
    BY <2>1, <2>2
<1>7. CASE \A q \in Known' : \E p \in Known : SameOrder(q, p)
  <2>1. ASSUME NEW q \in Known'
        PROVE  /\ q.nr <= calls' /\ (opc' \in Looking => q.nr # calls')
               /\ \A s \in sent' : Making(s) => q.nr # s.nr
    <3>1. PICK p \in Known : SameOrder(q, p)
      BY <1>7
    <3>2. q.nr = p.nr
      BY <3>1 DEF SameOrder
    <3>3. \A s \in sent : Making(s) => p.nr # s.nr
      BY DEF NumbersInv
    <3>4. QED
      BY <1>4, <1>5, <3>2, <3>3
  <2>2. ASSUME NEW o \in Known', NEW q \in Known', o.nr = q.nr PROVE SameOrder(o, q)
    <3>1. PICK a \in Known : SameOrder(o, a)
      BY <1>7
    <3>2. PICK b \in Known : SameOrder(q, b)
      BY <1>7
    <3>3. a.nr = b.nr => SameOrder(a, b)
      BY DEF NumbersInv
    <3>4. QED
      BY <2>2, <3>1, <3>2, <3>3 DEF SameOrder
  <2>3. QED
    BY <1>6, <2>1, <2>2 DEF NumbersInv, Making
<1>8. ASSUME NEW s \in sent, NEW n, Making(s), Known' \subseteq Known \cup {n}, n.nr = s.nr,
             sent' = sent \ {s}, UNCHANGED <<opc, calls>>
      PROVE  NumbersInv'
  <2>1. s.nr <= calls /\ (opc \in Looking => s.nr # calls)
    BY <1>1 DEF SentInv, WaitInv, RequestInv
  <2>2. \A p \in Known : p.nr # s.nr
    BY <1>8 DEF NumbersInv
  <2>3. \A t \in sent' : t \in sent /\ (Making(t) => t.nr # s.nr)
    BY <1>8 DEF NumbersInv
  <2>4. \A q \in Known' : q \in Known \/ q = n
    BY <1>8
  <2>5. \A q \in Known' : q.nr <= calls' /\ (opc' \in Looking => q.nr # calls')
    BY <1>4, <1>8, <2>1, <2>4
  <2>6. \A t \in sent' : Making(t) => \A q \in Known' : q.nr # t.nr
    BY <1>8, <2>3, <2>4 DEF NumbersInv
  <2>7. \A o, q \in Known' : o.nr = q.nr => SameOrder(o, q)
    BY <1>8, <2>2, <2>4 DEF NumbersInv, SameOrder
  <2>8. QED
    BY <1>6, <2>5, <2>6, <2>7 DEF NumbersInv, Making
<1>9. QED
  BY <1>7, <1>8, KnownStep

\* A request of a changing call is one to make or to edit an order of its position.
LEMMA ChangeRequest ==
  ASSUME TypesInv, NEW s \in sent, s.of.what = "change"
  PROVE  /\ s.request.op \in {"create", "edit"} /\ s.of.trade \in 1 .. born
         /\ s.request.trade = s.of.trade /\ s.request.type = s.of.type /\ s.request.rate = s.of.rate
BY DEF TypesInv, SentInv, RequestInv

LEMMA PassedNext ==
  ASSUME TypesInv, NumbersInv, PassedInv, [OrdersNext]_ordersVars
  PROVE  PassedInv'
<1> SUFFICES ASSUME opc' = "find_order", ~call'.left PROVE PassedInv'
  BY DEF PassedInv
<1>1. CallInv /\ ordersTable \in Seq(OrderRecord) /\ Len(ordersTable) \in Nat
  BY DEF TypesInv, TablesInv
<1>2. ASSUME opc' = opc, call' = call, ordersTable' = ordersTable PROVE PassedInv'
  BY <1>2 DEF PassedInv, ThisOrder
<1>3. CASE NodeSteps
  <2>1. CASE FoundToChange
    <3>1. call' = [[call EXCEPT !.found = tradesTable[call.i].row] EXCEPT !.i = 1] /\ call.what = "change"
      BY <2>1 DEF FoundToChange, Found
    <3>2. call'.i = 1
      BY <1>1, <3>1 DEF CallInv, ChangeCall
    <3>3. ordersTable' = ordersTable
      BY <2>1 DEF FoundToChange, tables
    <3>4. \A k \in DOMAIN ordersTable : ~(k < 1)
      BY <1>1
    <3>5. QED
      BY <1>1, <3>2, <3>3, <3>4 DEF PassedInv
  <2>2. CASE NextOrder
    <3>1. /\ opc = "find_order" /\ call.i <= Len(ordersTable) /\ ~ThisOrder(ordersTable[call.i])
          /\ call' = [call EXCEPT !.i = @ + 1] /\ ordersTable' = ordersTable
      BY <2>2 DEF NextOrder, Look, tables
    <3>2. call \in ChangeCall
      BY <1>1, <3>1 DEF CallInv
    <3>3. /\ call'.i = call.i + 1 /\ call.i \in Nat /\ call'.trade = call.trade /\ call'.type = call.type
          /\ call'.left = call.left
      BY <3>1, <3>2 DEF ChangeCall
    <3>4. \A k \in DOMAIN ordersTable : k < call'.i => k < call.i \/ k = call.i
      BY <1>1, <3>3
    <3>5. QED
      BY <1>1, <3>1, <3>3, <3>4 DEF PassedInv, ThisOrder
  <2>3. CASE Call
    <3>1. opc' \in {"failed", "wait", "find_trade", "scan"}
      BY <2>3, CallBegins
    <3>2. QED
      BY <3>1
  <2>4. CASE Lookup /\ ~FoundToChange /\ ~NextOrder
    BY <2>4 DEF Lookup, NoTrade, NextTrade, FoundToClose, CreateStop, EditStop, Scan,
                ScanFindsNothing, ScanEnds, Return, Look, Send
  <2>5. CASE CallCompletes \/ CallFails \/ CallTimesOut \/ Idle
    BY <2>5 DEF CallCompletes, CallFails, CallTimesOut, Return, Idle
  <2>6. QED
    BY <1>3, <2>1, <2>2, <2>3, <2>4, <2>5 DEF NodeSteps
<1>4. CASE OthersSteps \/ (\E s \in sent : Execute(s) \/ Refuse(s)) \/ UNCHANGED ordersVars
  BY <1>2, <1>4, OthersFrame, AnswerFrame DEF node, tables, ordersVars
<1>5. CASE RowSteps
  <2>1. opc = "find_order" /\ call \in ChangeCall
    BY <1>1, <1>5, RowFrame DEF CallInv
  <2>2. ASSUME NEW i \in Id, RowGoes(i) \/ RowChanges(i) \/ RowComes(i) PROVE PassedInv'
    BY <1>2, <2>1, <2>2 DEF RowGoes, RowChanges, RowComes, Shifted, node
  <2>3. ASSUME NEW k \in DOMAIN ordersTable, OrderRowGoes(k) PROVE FALSE
    <3>1. call' = [call EXCEPT !.left = TRUE]
      BY <2>1, <2>3 DEF OrderRowGoes, Shifted
    <3>2. call'.left
      BY <2>1, <3>1 DEF ChangeCall
    <3>3. QED
      BY <3>2
  <2>4. ASSUME NEW k \in DOMAIN ordersTable, NEW o \in orders, OrderRowChanges(k, o) PROVE PassedInv'
    <3>1. ordersTable' = [ordersTable EXCEPT ![k] = o] /\ call' = call /\ o.nr = ordersTable[k].nr
      BY <2>4 DEF OrderRowChanges, OrderRow
    <3>2. /\ DOMAIN ordersTable' = DOMAIN ordersTable /\ Len(ordersTable') = Len(ordersTable)
          /\ \A i \in DOMAIN ordersTable : ordersTable'[i] = IF i = k THEN o ELSE ordersTable[i]
      BY <1>1, <3>1
    <3>3. o.trade = ordersTable[k].trade /\ o.type = ordersTable[k].type
      BY <3>1 DEF NumbersInv, Known, SameOrder
    <3>4. QED
      BY <2>1, <3>1, <3>2, <3>3 DEF PassedInv, ThisOrder
  <2>5. ASSUME NEW o \in orders, OrderRowComes(o) PROVE PassedInv'
    <3>1. ordersTable' = Append(ordersTable, o) /\ call' = call
      BY <2>5 DEF OrderRowComes, OrderRow
    <3>2. /\ Len(ordersTable') = Len(ordersTable) + 1
          /\ \A i \in DOMAIN ordersTable' :
               i = Len(ordersTable) + 1 \/ (i \in DOMAIN ordersTable /\ ordersTable'[i] = ordersTable[i])
      BY <1>1, <3>1
    <3>3. call.i <= Len(ordersTable) + 1 /\ call.i \in Nat
      BY <2>1, <3>1 DEF PassedInv, ChangeCall
    <3>4. ASSUME NEW i \in DOMAIN ordersTable', i < call.i PROVE ~ThisOrder(ordersTable'[i])
      <4>1. i \in DOMAIN ordersTable /\ ordersTable'[i] = ordersTable[i]
        BY <1>1, <3>2, <3>3, <3>4
      <4>2. QED
        BY <2>1, <3>1, <3>4, <4>1 DEF PassedInv
    <3>5. call'.i <= Len(ordersTable') + 1
      BY <1>1, <3>1, <3>2, <3>3
    <3>6. QED
      BY <3>1, <3>4, <3>5 DEF PassedInv, ThisOrder
  <2>6. QED
    BY <1>5, <2>2, <2>3, <2>4, <2>5 DEF RowSteps
<1>6. QED
  BY <1>3, <1>4, <1>5, Kinds

\* What a change sends, when the table was up to date.
LEMMA FreshSent ==
  ASSUME TypesInv, PassedInv, CreateStop \/ EditStop, NEW s \in sent', s \notin sent, s.of.fresh
  PROVE  /\ \A t \in sent' : t.request.op \in {"create", "edit"} => t = s
         /\ \A o, p \in OrdersOf(orders, s.of) : o = p
         /\ s.request.op = "create" => OrdersOf(orders, s.of) = {}
<1>1. PICK r : /\ sent' = sent \cup {[nr |-> calls, request |-> r, of |-> call']}
               /\ (r.op = "create" /\ CreateStop) \/ (r.op = "edit" /\ EditStop)
  BY ChangeSends
<1>2. /\ opc = "find_order" /\ call \in ChangeCall
      /\ call'.trade = call.trade /\ call'.type = call.type
      /\ (call'.fresh => InOrder(call) /\ ~call.left)
  BY ChangeSends
<1>3. s.request = r /\ s.of = call' /\ sent' = sent \cup {s}
  <2>1. s = [nr |-> calls, request |-> r, of |-> call']
    BY <1>1
  <2>2. s.request = r /\ s.of = call'
    BY <2>1
  <2>3. QED
    BY <1>1, <2>1, <2>2
<1>4. InOrder(call) /\ ~call.left
  BY <1>2, <1>3
<1>5. OrdersOf(orders, s.of) = OrdersOf(orders, call)
  BY <1>2, <1>3 DEF OrdersOf
<1>6. s.request.op = "create" => OrdersOf(orders, call) = {}
  <2>1. ASSUME s.request.op = "create" PROVE OrdersOf({ordersTable[i] : i \in DOMAIN ordersTable}, call) = {}
    <3>1. call.i > Len(ordersTable) /\ call.i \in Nat /\ ordersTable \in Seq(OrderRecord)
      BY <1>1, <1>2, <1>3, <2>1 DEF CreateStop, ChangeCall, TypesInv, TablesInv
    <3>2. \A k \in DOMAIN ordersTable : k < call.i
      BY <3>1
    <3>3. \A k \in DOMAIN ordersTable : ~ThisOrder(ordersTable[k])
      BY <1>2, <1>4, <3>2 DEF PassedInv
    <3>4. QED
      BY <3>3 DEF OrdersOf, ThisOrder
  <2>2. QED
    BY <1>4, <2>1 DEF InOrder
<1>7. QED
  BY <1>3, <1>4, <1>5, <1>6 DEF InOrder

LEMMA FreshNext ==
  ASSUME TypesInv, PassedInv, FreshInv, [OrdersNext]_ordersVars
  PROVE  FreshInv'
<1> SUFFICES ASSUME NEW s \in sent', s.of.what = "change", s.of.fresh, s.nr = calls'
             PROVE  /\ \A t \in sent' : t.request.op \in {"create", "edit"} => t = s
                    /\ \A o, p \in OrdersOf(orders', s.of) : o = p
                    /\ s.request.op = "create" => OrdersOf(orders', s.of) = {}
  BY DEF FreshInv, OrdersOf
<1>1. /\ calls \in Nat /\ SentInv
      /\ calls' = calls \/ calls' = calls + 1
  BY Growing DEF TypesInv
<1>2. CASE s \notin sent
  <2>1. CreateStop \/ EditStop
    <3>1. CASE NodeSteps /\ ~CreateStop /\ ~EditStop
      <4>1. CASE openPosition
        BY <1>2, <4>1 DEF openPosition
      <4>2. CASE changeStopLoss \/ changeTakeProfit \/ closePosition \/ closeAllPositions
        BY <1>2, <4>2 DEF changeStopLoss, changeTakeProfit, Change, closePosition, closeAllPositions
      <4>3. CASE FoundToClose
        <5>1. call.what = "close" /\ call \in CloseCall /\ s.of = Found
          BY <1>2, <4>3 DEF FoundToClose, Send, TypesInv, CallInv
        <5>2. Found.what = "close"
          BY <5>1 DEF CloseCall, Found
        <5>3. QED
          BY <5>1, <5>2
      <4>4. CASE ScanEnds
        BY <1>2, <4>4 DEF ScanEnds, Send, TypesInv, CallInv
      <4>5. CASE NoTrade \/ NextTrade \/ FoundToChange \/ NextOrder \/ Scan \/ ScanFindsNothing
        BY <1>2, <4>5 DEF NoTrade, NextTrade, FoundToChange, NextOrder, Scan, ScanFindsNothing, Return, Look
      <4>6. CASE CallCompletes \/ CallFails \/ CallTimesOut \/ Idle
        BY <1>2, <4>6 DEF CallCompletes, CallFails, CallTimesOut, Return, Idle
      <4>7. QED
        BY <3>1, <4>1, <4>2, <4>3, <4>4, <4>5, <4>6 DEF NodeSteps, Call, Lookup
    <3>2. CASE ~NodeSteps
      BY <1>2, <3>2, Kinds, OthersFrame, RowFrame, AnswerFrame DEF ordersVars
    <3>3. QED
      BY <3>1, <3>2
  <2>2. orders' = orders
    BY <1>2, SentStep DEF server
  <2>3. QED
    BY <1>2, <2>1, <2>2, FreshSent
<1>3. CASE s \in sent
  <2>1. calls' = calls /\ s.nr = calls
    <3>1. s.nr \in 0 .. calls
      BY <1>1, <1>3 DEF SentInv, RequestInv
    <3>2. QED
      BY <1>1, <3>1
  <2>2. /\ \A t \in sent : t.request.op \in {"create", "edit"} => t = s
        /\ \A o, p \in OrdersOf(orders, s.of) : o = p
        /\ s.request.op = "create" => OrdersOf(orders, s.of) = {}
    BY <1>3, <2>1 DEF FreshInv
  <2>3. sent' \subseteq sent
    <3>1. opc \notin Looking
      BY <1>1, <1>3, <2>1 DEF SentInv, WaitInv
    <3>2. ASSUME NEW t \in sent', t \notin sent PROVE FALSE
      BY <1>1, <2>1, <3>1, <3>2, SentStep
    <3>3. QED
      BY <3>2
  <2>4. OrdersOf(orders', s.of) \subseteq OrdersOf(orders, s.of)
    <3>1. CASE NodeSteps \/ RowSteps \/ UNCHANGED ordersVars \/ \E t \in sent : Refuse(t)
      BY <3>1, NodeFrame, RowFrame, AnswerFrame DEF server, ordersVars
    <3>2. CASE OthersSteps
      BY <3>2 DEF OthersSteps, OthersClose, OthersOpen, Become, OrdersOf
    <3>3. ASSUME NEW t \in sent, Execute(t) PROVE OrdersOf(orders', s.of) \subseteq OrdersOf(orders, s.of)
      <4>1. sent' = sent \ {t}
        BY <3>3, AnswerFrame
      <4>2. t.request.op \notin {"create", "edit"}
        BY <2>2, <4>1
      <4>3. CASE ExecuteOpen(t)
        <5>1. s.of.trade \in 1 .. born /\ born \in Nat
          BY <1>3, ChangeRequest, OrdersAssumption DEF TypesInv, ServerInv
        <5>2. s.of.trade # born + 1
          BY <5>1
        <5>3. \A o \in orders' : o \in orders \/ o.trade = born + 1
          BY <4>3 DEF ExecuteOpen
        <5>4. QED
          BY <5>2, <5>3 DEF OrdersOf
      <4>4. CASE ExecuteClose(t) \/ ExecuteNetOpen(t) \/ ExecuteNetClose(t)
        <5>1. orders' \subseteq orders
          BY <4>4 DEF ExecuteClose, ExecuteNetOpen, ExecuteNetClose, Become
        <5>2. QED
          BY <5>1 DEF OrdersOf
      <4>5. QED
        BY <3>3, <4>2, <4>3, <4>4 DEF Execute, ExecuteCreate, ExecuteEdit
    <3>4. QED
      BY <3>1, <3>2, <3>3, Kinds
  <2>5. QED
    BY <2>2, <2>3, <2>4
<1>4. QED
  BY <1>2, <1>3

LEMMA InitStopInv == OrdersInit => StopInv
<1> SUFFICES ASSUME OrdersInit PROVE StopInv
  OBVIOUS
<1>1. \A o, p \in Known : o = p /\ o.nr = 0
  <2>1. CASE orders = {} /\ ordersTable = <<>>
    BY <2>1 DEF Known
  <2>2. ASSUME NEW o \in Order, o.nr = 0, orders = {o}, ordersTable = <<o>>
        PROVE  \A q \in Known : q = o
    BY <2>2 DEF Known
  <2>3. QED
    BY <2>1, <2>2 DEF OrdersInit
<1>2. sent = {} /\ calls = 0 /\ opc = "idle"
  BY DEF OrdersInit
<1>3. QED
  BY <1>1, <1>2 DEF StopInv, NumbersInv, PassedInv, FreshInv, SameOrder, Looking

\* What the server does with a change that it completes.
LEMMA ChangeIsDone ==
  ASSUME TypesInv, FreshInv, [OrdersNext]_ordersVars,
         NEW s \in sent, s \notin sent', s.of.what = "change", s.of.fresh, "completed" \in answers',
         s.nr = calls
  PROVE  /\ \E o \in orders' : OrdersOf(orders', s.of) = {o} /\ o.rate = s.of.rate
         /\ orders' \ OrdersOf(orders', s.of) = orders \ OrdersOf(orders, s.of)
<1> DEFINE r == s.request
           c == s.of
<1>1. answers = {}
  BY DEF TypesInv, SentInv, WaitInv
<1>2. Execute(s)
  <2>1. CASE NodeSteps
    <3>1. sent \subseteq sent'
      <4>1. CASE Call
        BY <4>1, CallBegins
      <4>2. CASE Lookup
        BY <4>2 DEF Lookup, NoTrade, NextTrade, FoundToClose, FoundToChange, NextOrder, CreateStop,
                    EditStop, Scan, ScanFindsNothing, ScanEnds, Return, Look, Send
      <4>3. CASE CallCompletes \/ CallFails \/ CallTimesOut \/ Idle
        BY <4>3 DEF CallCompletes, CallFails, CallTimesOut, Return, Idle
      <4>4. QED
        BY <2>1, <4>1, <4>2, <4>3 DEF NodeSteps
    <3>2. QED
      BY <3>1
  <2>2. CASE OthersSteps \/ RowSteps \/ UNCHANGED ordersVars
    BY <2>2, OthersFrame, RowFrame DEF ordersVars
  <2>3. ASSUME NEW t \in sent, Execute(t) \/ Refuse(t) PROVE t = s /\ ~Refuse(s)
    <3>1. t = s
      BY <2>3, AnswerFrame
    <3>2. Refuse(s) => answers' = {"failed"}
      BY <1>1 DEF Refuse, Answer
    <3>3. QED
      BY <3>1, <3>2
  <2>4. QED
    BY <2>1, <2>2, <2>3, Kinds
<1>3. /\ r.op \in {"create", "edit"} /\ r.trade = c.trade /\ r.type = c.type /\ r.rate = c.rate
  BY ChangeRequest
<1>4. /\ \A o, p \in OrdersOf(orders, c) : o = p
      /\ r.op = "create" => OrdersOf(orders, c) = {}
  BY DEF FreshInv
<1>5. CASE ExecuteCreate(s)
  <2> DEFINE n == [trade |-> r.trade, type |-> r.type, rate |-> r.rate, nr |-> s.nr]
  <2>1. orders' = orders \cup {n} /\ r.op = "create"
    BY <1>5 DEF ExecuteCreate
  <2>2. n.trade = c.trade /\ n.type = c.type /\ n.rate = c.rate
    BY <1>3
  <2> HIDE DEF n
  <2>3. OrdersOf(orders', c) = {n} /\ OrdersOf(orders, c) = {}
    BY <1>4, <2>1, <2>2 DEF OrdersOf
  <2>4. n \notin orders
    BY <2>2, <2>3 DEF OrdersOf
  <2>5. QED
    BY <2>1, <2>2, <2>3, <2>4
<1>6. CASE ExecuteEdit(s)
  <2>1. PICK o \in orders : /\ o.nr = r.order /\ o.trade = r.trade /\ o.type = r.type
                            /\ orders' = (orders \ {o}) \cup {[o EXCEPT !.rate = r.rate]}
    BY <1>6 DEF ExecuteEdit
  <2> DEFINE n == [o EXCEPT !.rate = r.rate]
  <2>2. o \in OrderRecord
    BY DEF TypesInv, ServerInv
  <2>3. n.trade = c.trade /\ n.type = c.type /\ n.rate = c.rate
    BY <1>3, <2>1, <2>2 DEF OrderRecord
  <2>4. orders' = (orders \ {o}) \cup {n}
    BY <2>1
  <2> HIDE DEF n
  <2>5. o \in OrdersOf(orders, c)
    BY <1>3, <2>1 DEF OrdersOf
  <2>6. \A p \in orders : p.trade = c.trade /\ p.type = c.type <=> p = o
    BY <1>4, <2>5 DEF OrdersOf
  <2>7. OrdersOf(orders, c) = {o} /\ OrdersOf(orders', c) = {n}
    BY <2>3, <2>4, <2>6, <2>5 DEF OrdersOf
  <2>8. n \in orders \ {o} => FALSE
    BY <2>3, <2>6
  <2>9. QED
    BY <2>3, <2>4, <2>7, <2>8
<1>7. QED
  BY <1>2, <1>3, <1>5, <1>6 DEF Execute, ExecuteOpen, ExecuteClose, ExecuteNetOpen, ExecuteNetClose

LEMMA OrdersInvariance == OrdersSpec => [](TypesInv /\ StopInv)
<1>1. TypesInv /\ StopInv /\ [OrdersNext]_ordersVars => TypesInv' /\ StopInv'
  BY TypesNext, NumbersNext, PassedNext, FreshNext DEF StopInv
<1>2. QED
  BY <1>1, InitTypesInv, InitStopInv, PTL DEF OrdersSpec

\* Order2Go::changeStopLoss, changeTakeProfit: a change that is executed leaves the
\* position with one order of that type and the new rate and its other orders as they
\* are, if the orders table was up to date when the call read it and no earlier change
\* was under way.
THEOREM StopsAreSet == OrdersSpec => StopIsSet
<1> DEFINE Done ==
      \A s \in sent \ sent' :
        /\ s.of.what = "change" /\ s.of.fresh /\ "completed" \in answers'
        /\ s.nr = calls
        => /\ \E o \in orders' : OrdersOf(orders', s.of) = {o} /\ o.rate = s.of.rate
           /\ orders' \ OrdersOf(orders', s.of) = orders \ OrdersOf(orders, s.of)
<1>1. TypesInv /\ StopInv /\ [OrdersNext]_ordersVars => [Done]_ordersVars
  BY ChangeIsDone DEF StopInv
<1>2. OrdersSpec => [][Done]_ordersVars
  BY <1>1, OrdersInvariance, PTL DEF OrdersSpec
<1>3. QED
  BY <1>2 DEF StopIsSet

-----------------------------------------------------------------------------
(* Orders: closing all positions                                           *)

LEMMA AliveStep ==
  ASSUME TypesInv, ServerStep, call.meant \subseteq 1 .. born, call'.meant = call.meant
  PROVE  /\ call'.meant \subseteq 1 .. born'
         /\ \A id \in AliveMeant' : id \in AliveMeant /\ SamePosition(trades'[id], trades[id])
<1>1. born \in Nat /\ born' \in Nat /\ born <= born'
  BY OrdersAssumption DEF TypesInv, ServerInv, ServerStep
<1>2. \A id \in 1 .. born : id \in 1 .. born' /\ id # born + 1
  BY <1>1
<1>3. QED
  BY <1>2 DEF ServerStep, AliveMeant

\* When the scan is over, the sides of all the positions are known.
LEMMA ScanKnows ==
  ASSUME TypesInv, CloseAllInv, opc = "scan", ~call.left, call.i > Len(tradesTable),
         NEW id \in AliveMeant
  PROVE  /\ trades[id].account = call.account
         /\ trades[id] \in TradeRow
         /\ <<trades[id].symbol, trades[id].side>> \in call.sides
<1>1. Matches(trades[id], call)
  BY DEF CloseAllInv, ScanInv
<1>2. PICK k \in DOMAIN tradesTable : tradesTable[k].id = id
  BY DEF CloseAllInv, ScanInv
<1>3. id \in DOMAIN trades /\ trades[id] \in TradeRow
  BY DEF AliveMeant, TypesInv, ServerInv
<1>4. SamePosition(tradesTable[k].row, trades[id])
  BY <1>2, <1>3 DEF TypesInv, TablesInv
<1>5. k < call.i
  <2>1. call.i \in Nat /\ tradesTable \in Seq([id : Nat, row : TradeRow])
    BY DEF TypesInv, CallInv, CloseAllCall, TablesInv
  <2>2. QED
    BY <2>1
<1>6. Matches(tradesTable[k].row, call)
  BY <1>1, <1>4 DEF Matches, SamePosition
<1>7. QED
  BY <1>1, <1>3, <1>4, <1>5, <1>6 DEF CloseAllInv, ScanInv, Matches, SamePosition

\* The steps of closeAllPositions itself.
LEMMA ClosingCall ==
  ASSUME TypesInv, closeAllPositions
  PROVE  CloseAllInv'
<1>1. PICK account \in Account, symbol \in Symbol \cup {AnySymbol} :
        LET c == [what |-> "close_all", account |-> account, symbol |-> symbol] IN
          Begin([what |-> "close_all", account |-> account, symbol |-> symbol, i |-> 1,
                 sides |-> {}, meant |-> Meant(c), left |-> FALSE],
                IF Unknown(account, symbol) THEN "failed" ELSE "scan")
  BY DEF closeAllPositions
<1> DEFINE c == [what |-> "close_all", account |-> account, symbol |-> symbol]
<1>2. /\ call'.account = account /\ call'.symbol = symbol /\ call'.i = 1 /\ call'.meant = Meant(c)
      /\ opc' \in {"failed", "scan"} /\ trades' = trades /\ tradesTable' = tradesTable /\ born' = born
  BY <1>1 DEF Begin, server, tables
<1>3. c.account = account /\ c.symbol = symbol
  OBVIOUS
<1> HIDE DEF c
<1>4. tradesTable \in Seq([id : Nat, row : TradeRow]) /\ Len(tradesTable) \in Nat
  BY DEF TypesInv, TablesInv
<1>5. \A k \in DOMAIN tradesTable : ~(k < 1)
  BY <1>4
<1>6. ASSUME NEW id \in AliveMeant'
      PROVE  Matches(trades[id], call') /\ \E k \in DOMAIN tradesTable : tradesTable[k].id = id
  <2>1. id \in Meant(c) /\ id \in DOMAIN trades
    BY <1>2, <1>6 DEF AliveMeant
  <2>2. PICK k \in DOMAIN tradesTable : Matches(tradesTable[k].row, c) /\ tradesTable[k].id = id
    BY <2>1 DEF Meant
  <2>3. SamePosition(tradesTable[k].row, trades[id])
    BY <2>1, <2>2 DEF TypesInv, TablesInv
  <2>4. QED
    BY <1>2, <1>3, <2>2, <2>3 DEF Matches, SamePosition
<1>7. ScanInv'
  BY <1>2, <1>4, <1>5, <1>6 DEF ScanInv, Matches
<1>8. QED
  BY <1>2, <1>7, MeantIs DEF CloseAllInv, WaitsInv, CloseAllCloses

LEMMA ClosingLookup ==
  ASSUME TypesInv, CloseAllInv, Scan \/ ScanFindsNothing \/ ScanEnds
  PROVE  CloseAllInv'
<1>1. /\ opc = "scan" /\ call.what = "close_all" /\ call \in CloseAllCall /\ call.i \in Nat
      /\ call.meant \subseteq 1 .. born
  BY DEF Scan, ScanFindsNothing, ScanEnds, TypesInv, CallInv, CloseAllCall, CloseAllInv
<1>2. tradesTable \in Seq([id : Nat, row : TradeRow]) /\ Len(tradesTable) \in Nat
  BY DEF TypesInv, TablesInv
<1>3. CASE Scan
  <2> DEFINE line == tradesTable[call.i].row
             sides == IF Matches(line, call) THEN AddSide(call.sides, line) ELSE call.sides
             next == [call EXCEPT !.i = @ + 1]
  <2>1. /\ call.i <= Len(tradesTable) /\ opc' = opc /\ UNCHANGED <<server, tables>>
        /\ call' = [call EXCEPT !.i = @ + 1, !.sides = sides]
    BY <1>3 DEF Scan, Look
  <2>2. call' = [next EXCEPT !.sides = sides]
    BY <2>1
  <2>3. /\ next.i = call.i + 1 /\ next.account = call.account /\ next.symbol = call.symbol
        /\ next.meant = call.meant /\ next.left = call.left /\ next.what = call.what
        /\ DOMAIN next = DOMAIN call
    BY <1>1 DEF CloseAllCall
  <2>8. DOMAIN call = {"what", "account", "symbol", "i", "sides", "meant", "left"}
    BY <1>1 DEF CloseAllCall
  <2> HIDE DEF next, sides
  <2>4. /\ call'.i = call.i + 1 /\ call'.account = call.account /\ call'.symbol = call.symbol
        /\ call'.meant = call.meant /\ call'.left = call.left /\ call'.sides = sides
    BY <2>2, <2>3, <2>8
  <2>5. call.sides \subseteq sides /\ (Matches(line, call) => <<line.symbol, line.side>> \in sides)
    BY DEF sides, AddSide
  <2>6. ASSUME NEW k \in DOMAIN tradesTable, ~call.left, k < call'.i, Matches(tradesTable[k].row, call)
        PROVE  <<tradesTable[k].row.symbol, tradesTable[k].row.side>> \in sides
    <3>1. k < call.i \/ k = call.i
      BY <1>1, <1>2, <2>4, <2>6
    <3>2. QED
      BY <1>1, <2>5, <2>6, <3>1 DEF CloseAllInv, ScanInv
  <2>7. trades' = trades /\ tradesTable' = tradesTable /\ born' = born
    BY <2>1 DEF server, tables
  <2>9. ScanInv'
    <3>1. ~call.left => \A id \in AliveMeant :
            Matches(trades[id], call) /\ \E k \in DOMAIN tradesTable : tradesTable[k].id = id
      BY <1>1 DEF CloseAllInv, ScanInv
    <3>2. call'.i <= Len(tradesTable) + 1
      BY <1>1, <1>2, <2>1, <2>4
    <3>3. QED
      BY <2>4, <2>6, <2>7, <3>1, <3>2 DEF ScanInv, AliveMeant, Matches
  <2>10. QED
    BY <1>1, <2>1, <2>4, <2>7, <2>9 DEF CloseAllInv, WaitsInv, CloseAllCloses
<1>4. CASE ScanFindsNothing
  <2>1. /\ call.i > Len(tradesTable) /\ call.sides = {} /\ opc' = "completed" /\ call' = call
        /\ trades' = trades /\ born' = born
    BY <1>4 DEF ScanFindsNothing, Return, server
  <2>2. ~call.left => AliveMeant = {}
    BY <1>1, <2>1, ScanKnows
  <2>3. QED
    BY <1>1, <2>1, <2>2 DEF CloseAllInv, ScanInv, WaitsInv, CloseAllCloses, AliveMeant
<1>5. CASE ScanEnds
  <2>1. /\ call.i > Len(tradesTable) /\ opc' = "wait" /\ call' = call /\ calls' = calls
        /\ trades' = trades /\ born' = born
        /\ sent' = sent \cup {[nr |-> calls, request |-> r, of |-> call] :
                     r \in {[op |-> "net_close", account |-> call.account, symbol |-> s[1],
                             side |-> getOppositeBS(s[2])] : s \in call.sides}}
    BY <1>5 DEF ScanEnds, Send, server
  <2>2. ASSUME ~call.left, NEW id \in AliveMeant PROVE \E s \in sent' : Closes(s, id)'
    <3>1. /\ trades[id].account = call.account /\ trades[id] \in TradeRow
          /\ <<trades[id].symbol, trades[id].side>> \in call.sides
      BY <1>1, <2>1, <2>2, ScanKnows
    <3>2. PICK r : r = [op |-> "net_close", account |-> call.account, symbol |-> trades[id].symbol,
                        side |-> getOppositeBS(trades[id].side)]
      OBVIOUS
    <3>3. PICK t : t = [nr |-> calls, request |-> r, of |-> call]
      OBVIOUS
    <3>4. t \in sent'
      BY <2>1, <3>1, <3>2, <3>3
    <3>5. getOppositeBS(trades[id].side) # trades[id].side
      BY <3>1, Opposite DEF TradeRow
    <3>6. /\ t.nr = calls /\ t.request.op = "net_close" /\ t.request.account = trades[id].account
          /\ t.request.symbol = trades[id].symbol /\ t.request.side # trades[id].side
      BY <3>1, <3>2, <3>3, <3>5
    <3>7. QED
      BY <2>1, <3>4, <3>6 DEF Closes
  <2>3. WaitsInv'
    BY <2>1, <2>2 DEF WaitsInv, AliveMeant
  <2>4. QED
    BY <1>1, <2>1, <2>3 DEF CloseAllInv, ScanInv, CloseAllCloses
<1>6. QED
  BY <1>3, <1>4, <1>5

LEMMA ClosingRows ==
  ASSUME TypesInv, CloseAllInv, RowSteps
  PROVE  CloseAllInv'
<1>1. /\ trades' = trades /\ born' = born /\ opc' = opc /\ UNCHANGED <<calls, sent, answers>>
      /\ call' = call \/ (opc \in {"scan", "find_order"} /\ call' = [call EXCEPT !.left = TRUE])
  BY RowFrame DEF server
<1>2. opc = "scan" => call \in CloseAllCall
  BY DEF TypesInv, CallInv
<1>3. CASE opc # "scan"
  <2>1. CASE call' = call
    BY <1>1, <1>3, <2>1 DEF CloseAllInv, ScanInv, WaitsInv, CloseAllCloses, AliveMeant, Closes
  <2>2. CASE opc = "find_order" /\ call' = [call EXCEPT !.left = TRUE]
    <3>1. call \in ChangeCall
      BY <2>2 DEF TypesInv, CallInv
    <3>2. call'.what = "change"
      BY <2>2, <3>1 DEF ChangeCall
    <3>3. QED
      BY <1>1, <2>2, <3>2 DEF CloseAllInv, ScanInv, WaitsInv, CloseAllCloses
  <2>3. QED
    BY <1>1, <1>3, <2>1, <2>2
<1>4. ASSUME opc = "scan", call' = [call EXCEPT !.left = TRUE] PROVE CloseAllInv'
  <2>1. call'.left /\ call'.meant = call.meant /\ call'.what = "close_all"
    BY <1>2, <1>4 DEF CloseAllCall
  <2>2. call.meant \subseteq 1 .. born
    BY <1>2, <1>4 DEF CloseAllInv, CloseAllCall
  <2>3. QED
    BY <1>1, <1>4, <2>1, <2>2 DEF CloseAllInv, ScanInv, WaitsInv, CloseAllCloses
<1>5. ASSUME opc = "scan", call' = call, ScanInv' PROVE CloseAllInv'
  BY <1>1, <1>5 DEF CloseAllInv, WaitsInv, CloseAllCloses
<1>6. ASSUME opc = "scan", call' = call, tradesTable' = tradesTable PROVE ScanInv'
  BY <1>1, <1>6 DEF CloseAllInv, ScanInv, AliveMeant
<1>7. tradesTable \in Seq([id : Nat, row : TradeRow]) /\ Len(tradesTable) \in Nat
  BY DEF TypesInv, TablesInv
<1>8. ASSUME opc = "scan", NEW i \in Id, RowGoes(i) PROVE CloseAllInv'
  BY <1>4, <1>8 DEF RowGoes, Shifted
<1>9. ASSUME opc = "scan", NEW i \in Id, RowChanges(i) PROVE CloseAllInv'
  <2>1. call' = call
    BY <1>9 DEF RowChanges, node
  <2>2. /\ DOMAIN tradesTable' = DOMAIN tradesTable /\ Len(tradesTable') = Len(tradesTable)
        /\ \A k \in DOMAIN tradesTable :
             /\ tradesTable'[k].id = tradesTable[k].id
             /\ tradesTable'[k].row = tradesTable[k].row \/
                  (tradesTable'[k].row = trades[tradesTable[k].id]
                     /\ SamePosition(tradesTable[k].row, trades[tradesTable[k].id]))
    BY <1>9, RowChangesTables
  <2>3. \A k \in DOMAIN tradesTable : SamePosition(tradesTable'[k].row, tradesTable[k].row)
    BY <2>2 DEF SamePosition
  <2>4. ScanInv'
    BY <1>1, <1>9, <2>1, <2>2, <2>3 DEF CloseAllInv, ScanInv, AliveMeant, Matches, SamePosition
  <2>5. QED
    BY <1>5, <1>9, <2>1, <2>4
<1>10. ASSUME opc = "scan", NEW i \in Id, RowComes(i) PROVE CloseAllInv'
  <2>1. call' = call
    BY <1>10 DEF RowComes, node
  <2>2. /\ Len(tradesTable') = Len(tradesTable) + 1
        /\ DOMAIN tradesTable' = DOMAIN tradesTable \cup {Len(tradesTable) + 1}
        /\ \A k \in DOMAIN tradesTable : tradesTable'[k] = tradesTable[k]
    BY <1>10, RowComesTables
  <2>3. call.i \in Nat
    BY <1>2, <1>10 DEF CloseAllCall
  <2>4. ASSUME ~call.left PROVE ScanInv'
    <3>1. /\ call.i <= Len(tradesTable) + 1
          /\ \A id \in AliveMeant :
               Matches(trades[id], call) /\ \E k \in DOMAIN tradesTable : tradesTable[k].id = id
          /\ \A k \in DOMAIN tradesTable :
               k < call.i /\ Matches(tradesTable[k].row, call) =>
                 <<tradesTable[k].row.symbol, tradesTable[k].row.side>> \in call.sides
      BY <1>10, <2>4 DEF CloseAllInv, ScanInv
    <3>2. call.i <= Len(tradesTable') + 1 /\ ~(Len(tradesTable) + 1 < call.i)
      BY <1>7, <2>2, <2>3, <3>1
    <3>3. \A k \in DOMAIN tradesTable' : k < call.i => k \in DOMAIN tradesTable
      BY <2>2, <3>2
    <3>4. \A k \in DOMAIN tradesTable' :
             k < call.i /\ Matches(tradesTable'[k].row, call) =>
               <<tradesTable'[k].row.symbol, tradesTable'[k].row.side>> \in call.sides
      BY <2>2, <3>1, <3>3
    <3>5. \A id \in AliveMeant' :
             Matches(trades[id], call) /\ \E k \in DOMAIN tradesTable' : tradesTable'[k].id = id
      BY <1>1, <2>1, <2>2, <3>1 DEF AliveMeant
    <3>6. QED
      BY <1>1, <2>1, <3>2, <3>4, <3>5 DEF ScanInv, Matches
  <2>5. ScanInv'
    BY <2>1, <2>4 DEF ScanInv
  <2>6. QED
    BY <1>5, <1>10, <2>1, <2>5
<1>11. ASSUME opc = "scan",
              \/ \E k \in DOMAIN ordersTable : OrderRowGoes(k) \/ \E o \in orders : OrderRowChanges(k, o)
              \/ \E o \in orders : OrderRowComes(o)
       PROVE  CloseAllInv'
  <2>1. call' = call /\ tradesTable' = tradesTable
    BY <1>11 DEF OrderRowGoes, OrderRowChanges, OrderRowComes, OrderRow, Shifted
  <2>2. QED
    BY <1>5, <1>6, <1>11, <2>1
<1>12. QED
  BY <1>3, <1>8, <1>9, <1>10, <1>11 DEF RowSteps

\* What the server and others do.
LEMMA ClosingServer ==
  ASSUME TypesInv, CloseAllInv, OthersSteps \/ (\E s \in sent : Execute(s) \/ Refuse(s)),
         [OrdersNext]_ordersVars
  PROVE  CloseAllInv'
<1>1. ServerStep
  BY EveryStep
<1>2. UNCHANGED <<tables, node>> /\ (\A a \in answers : a \in answers')
  BY OthersFrame, AnswerFrame
<1>3. opc' = opc /\ call' = call /\ calls' = calls /\ tradesTable' = tradesTable
  BY <1>2 DEF tables, node
<1>4. ASSUME call.what = "close_all"
      PROVE  /\ call.meant \subseteq 1 .. born'
             /\ \A id \in AliveMeant' : id \in AliveMeant /\ SamePosition(trades'[id], trades[id])
  BY <1>1, <1>3, <1>4, AliveStep DEF CloseAllInv
<1>5. ScanInv'
  <2>1. opc = "scan" => call.what = "close_all"
    BY DEF TypesInv, CallInv
  <2>2. ASSUME opc = "scan", ~call.left, NEW id \in AliveMeant' PROVE Matches(trades'[id], call)
    <3>1. id \in AliveMeant /\ SamePosition(trades'[id], trades[id])
      BY <1>4, <2>1, <2>2
    <3>2. Matches(trades[id], call)
      BY <2>2, <3>1 DEF CloseAllInv, ScanInv
    <3>3. QED
      BY <3>1, <3>2 DEF Matches, SamePosition
  <2>3. QED
    BY <1>3, <1>4, <2>1, <2>2 DEF CloseAllInv, ScanInv, Matches
<1>6. WaitsInv'
  <2> SUFFICES ASSUME opc = "wait", call.what = "close_all", ~call.left, "failed" \notin answers',
                      NEW id \in AliveMeant'
               PROVE  \E t \in sent' : Closes(t, id)'
    BY <1>3 DEF WaitsInv
  <2>1. id \in AliveMeant /\ SamePosition(trades'[id], trades[id]) /\ id \in DOMAIN trades'
    BY <1>4 DEF AliveMeant
  <2>2. "failed" \notin answers
    BY <1>2
  <2>3. PICK t \in sent : Closes(t, id)
    BY <2>1, <2>2 DEF CloseAllInv, WaitsInv
  <2>4. Closes(t, id)'
    BY <1>3, <2>1, <2>3 DEF Closes, SamePosition
  <2>5. t \in sent'
    <3>1. CASE OthersSteps
      BY <2>3, <3>1, OthersFrame
    <3>2. ASSUME NEW s \in sent, Execute(s) \/ Refuse(s) PROVE s # t
      <4>1. CASE Refuse(s)
        BY <2>3, <4>1, AnswerFrame DEF Closes
      <4>2. CASE Execute(s) /\ s = t
        <5>1. ExecuteNetClose(t)
          BY <2>3, <4>2 DEF Execute, Closes, ExecuteOpen, ExecuteCreate, ExecuteEdit, ExecuteClose,
                            ExecuteNetOpen
        <5>2. id \in Against(t.request)
          BY <2>1, <2>3 DEF Closes, Against, AliveMeant
        <5>3. trades' = [i \in DOMAIN trades \ Against(t.request) |-> trades[i]]
          BY <5>1 DEF ExecuteNetClose, Become
        <5>4. QED
          BY <2>1, <5>2, <5>3
      <4>3. QED
        BY <3>2, <4>1, <4>2
    <3>3. QED
      BY <2>3, <3>1, <3>2, AnswerFrame
  <2>6. QED
    BY <2>4, <2>5
<1>7. CloseAllCloses'
  BY <1>3, <1>4 DEF CloseAllInv, CloseAllCloses, AliveMeant
<1>8. QED
  BY <1>3, <1>4, <1>5, <1>6, <1>7 DEF CloseAllInv

LEMMA ClosingNext ==
  ASSUME TypesInv, CloseAllInv, [OrdersNext]_ordersVars
  PROVE  CloseAllInv'
<1>2. CASE NodeSteps
  <2>1. born' = born /\ trades' = trades
    BY <1>2, NodeFrame DEF server
  <2>2. CASE Call
    <3>1. CASE openPosition
      <4>1. call'.what = "open" /\ opc' # "scan"
        BY <3>1 DEF openPosition, Begin
      <4>2. QED
        BY <4>1 DEF CloseAllInv, ScanInv, WaitsInv, CloseAllCloses
    <3>2. CASE changeStopLoss \/ changeTakeProfit \/ closePosition
      <4>1. call'.what \in {"change", "close"} /\ opc' # "scan"
        BY <3>2 DEF changeStopLoss, changeTakeProfit, Change, closePosition, Begin
      <4>2. QED
        BY <4>1 DEF CloseAllInv, ScanInv, WaitsInv, CloseAllCloses
    <3>3. QED
      BY <2>2, <3>1, <3>2, ClosingCall DEF Call
  <2>3. CASE Lookup
    <3>1. CASE NoTrade \/ NextTrade \/ FoundToClose \/ FoundToChange
      <4>1. opc = "find_trade" /\ call.what \in {"change", "close"} /\ opc' # "scan"
        BY <3>1 DEF NoTrade, NextTrade, FoundToClose, FoundToChange, FindTrade, Return, Look, Send,
                    TypesInv, CallInv
      <4>2. call \in ChangeCall \/ call \in CloseCall
        BY <4>1 DEF TypesInv, CallInv
      <4>3. call'.what = call.what
        <5>1. call' = call \/ call' = [call EXCEPT !.i = @ + 1] \/ call' = Found
                \/ call' = [Found EXCEPT !.i = 1]
          BY <3>1 DEF NoTrade, NextTrade, FoundToClose, FoundToChange, Return, Look, Send
        <5>2. Found.what = call.what
          BY <4>2 DEF Found, ChangeCall, CloseCall
        <5>3. [call EXCEPT !.i = @ + 1].what = call.what
          BY <4>2 DEF ChangeCall, CloseCall
        <5>4. [Found EXCEPT !.i = 1].what = Found.what
          BY <4>2 DEF Found, ChangeCall, CloseCall
        <5>5. QED
          BY <5>1, <5>2, <5>3, <5>4
      <4>4. QED
        BY <4>1, <4>3 DEF CloseAllInv, ScanInv, WaitsInv, CloseAllCloses
    <3>2. CASE NextOrder \/ CreateStop \/ EditStop
      <4>1. opc = "find_order" /\ call \in ChangeCall /\ opc' # "scan"
        BY <3>2 DEF NextOrder, CreateStop, EditStop, Look, Send, TypesInv, CallInv
      <4>2. call' \in ChangeCall
        BY <3>2, <4>1, ChangeSends DEF NextOrder, Look, ChangeCall
      <4>3. QED
        BY <4>1, <4>2 DEF CloseAllInv, ScanInv, WaitsInv, CloseAllCloses, ChangeCall
    <3>3. QED
      BY <2>3, <3>1, <3>2, ClosingLookup DEF Lookup
  <2>4. CASE CallCompletes
    <3>1. /\ opc = "wait" /\ Mine = {} /\ answers = {"completed"} /\ opc' = "completed" /\ call' = call
      BY <2>4 DEF CallCompletes, Return
    <3>2. ASSUME call.what = "close_all", ~call.left PROVE AliveMeant = {}
      BY <3>1, <3>2 DEF CloseAllInv, WaitsInv, Mine, Closes
    <3>3. QED
      BY <2>1, <3>1, <3>2 DEF CloseAllInv, ScanInv, WaitsInv, CloseAllCloses, AliveMeant
  <2>5. CASE CallFails \/ CallTimesOut
    <3>1. opc' = "failed" /\ call' = call
      BY <2>5 DEF CallFails, CallTimesOut, Return
    <3>2. QED
      BY <2>1, <3>1 DEF CloseAllInv, ScanInv, WaitsInv, CloseAllCloses
  <2>6. CASE Idle
    <3>1. opc' = "idle" /\ call'.what = "none"
      BY <2>6 DEF Idle, NoCall
    <3>2. QED
      BY <3>1 DEF CloseAllInv, ScanInv, WaitsInv, CloseAllCloses
  <2>7. QED
    BY <1>2, <2>2, <2>3, <2>4, <2>5, <2>6 DEF NodeSteps
<1>3. CASE UNCHANGED ordersVars
  BY <1>3 DEF ordersVars, server, tables, node, CloseAllInv, ScanInv, WaitsInv, CloseAllCloses,
              AliveMeant, Closes
<1>4. QED
  BY <1>2, <1>3, ClosingRows, ClosingServer, Kinds

\* Order2Go::closeAllPositions: when it is completed, every position that the table
\* showed when it was called is closed, unless a row went while the table was read.
THEOREM AllAreClosed == OrdersSpec => []CloseAllCloses
<1>1. OrdersInit => CloseAllInv
  BY DEF OrdersInit, NoCall, CloseAllInv, ScanInv, WaitsInv, CloseAllCloses
<1>2. TypesInv /\ CloseAllInv /\ [OrdersNext]_ordersVars => CloseAllInv'
  BY ClosingNext
<1>3. CloseAllInv => CloseAllCloses
  BY DEF CloseAllInv
<1>4. QED
  BY <1>1, <1>2, <1>3, OrdersInvariance, PTL DEF OrdersSpec

-----------------------------------------------------------------------------
(* Orders: closing only closes                                             *)

\* A set of numbers that is not empty has a least one.
LEMMA LeastOf ==
  ASSUME NEW T \in SUBSET Nat, T # {}
  PROVE  \E n \in T : \A m \in T : n <= m
<1> DEFINE Below == {pair \in Nat \X Nat : pair[1] < pair[2]}
<1>1. IsWellFoundedOn(Below, Nat)
  BY NatLessThanWellFounded DEF OpToRel
<1>2. PICK n \in T : \A m \in T : <<m, n>> \notin Below
  <2> HIDE DEF Below
  <2>1. QED
    BY <1>1, WFMin
<1>3. ASSUME NEW m \in T, m < n PROVE FALSE
  <2>1. <<m, n>> \in Nat \X Nat /\ <<m, n>>[1] = m /\ <<m, n>>[2] = n
    OBVIOUS
  <2>2. <<m, n>> \in Below
    BY <1>3, <2>1
  <2>3. QED
    BY <1>2, <2>2
<1>4. QED
  BY <1>3

\* Nothing is left of an order that is not larger than one of the positions against it.
LEMMA NothingRests ==
  ASSUME ServerInv, NEW r, r.amount \in Nat, NEW rest \in Rests(r), NEW id \in Against(r),
         r.amount <= trades[id].amount
  PROVE  rest[MaxTrades] = 0
<1>1. /\ MaxTrades \in Nat \ {0} /\ id \in 1 .. MaxTrades /\ id - 1 \in 0 .. MaxTrades
      /\ MaxTrades \in id .. MaxTrades
  <2>1. id \in 1 .. born /\ born \in 0 .. MaxTrades
    BY DEF ServerInv, Against
  <2>2. QED
    BY <2>1, OrdersAssumption
<1>2. rest \in [0 .. MaxTrades -> 0 .. r.amount]
  BY DEF Rests
<1>3. \A i \in Id :
        rest[i] = IF i \notin Against(r) THEN rest[i - 1]
                  ELSE IF trades[i].amount < rest[i - 1] THEN rest[i - 1] - trades[i].amount
                  ELSE 0
  BY DEF Rests
<1>4. \A i \in Against(r) : trades[i].amount \in Nat
  BY DEF Against, ServerInv, TradeRow
<1>5. rest[id] = 0
  <2>1. rest[id - 1] \in 0 .. r.amount
    BY <1>1, <1>2
  <2>2. ~(trades[id].amount < rest[id - 1])
    BY <1>4, <2>1
  <2>3. QED
    BY <1>1, <1>3, <2>2 DEF Id
<1>6. SUFFICES ASSUME rest[MaxTrades] # 0 PROVE FALSE
  OBVIOUS
<1> DEFINE T == {n \in id .. MaxTrades : rest[n] # 0}
<1>7. T \in SUBSET Nat /\ T # {}
  BY <1>1, <1>6
<1>8. PICK n \in T : \A m \in T : n <= m
  BY <1>7, LeastOf
<1>9. n \in id .. MaxTrades /\ n # id /\ rest[n] # 0
  BY <1>5, <1>8
<1>10. n - 1 \in id .. MaxTrades /\ n \in Id /\ ~(n <= n - 1)
  BY <1>1, <1>9 DEF Id
<1>11. rest[n - 1] = 0
  BY <1>8, <1>10
<1>12. rest[n] = 0
  <2>1. n \in Against(r) => ~(trades[n].amount < rest[n - 1])
    BY <1>4, <1>11
  <2>2. QED
    BY <1>3, <1>10, <1>11, <2>1
<1>13. QED
  BY <1>9, <1>12

\* What may happen to the positions when a request to close is executed.
OnlyCloses(account) ==
  /\ DOMAIN trades' \subseteq DOMAIN trades
  /\ \A i \in DOMAIN trades :
       trades[i].account # account => i \in DOMAIN trades' /\ trades'[i] = trades[i]
  /\ \A i \in DOMAIN trades' : trades'[i].amount <= trades[i].amount

LEMMA RequestGoes ==
  ASSUME [OrdersNext]_ordersVars, NEW s \in sent, s \notin sent'
  PROVE  Execute(s) \/ Refuse(s)
<1>1. CASE NodeSteps
  <2>1. sent \subseteq sent'
    <3>1. CASE Call
      BY <3>1, CallBegins
    <3>2. CASE Lookup
      BY <3>2 DEF Lookup, NoTrade, NextTrade, FoundToClose, FoundToChange, NextOrder, CreateStop,
                  EditStop, Scan, ScanFindsNothing, ScanEnds, Return, Look, Send
    <3>3. CASE CallCompletes \/ CallFails \/ CallTimesOut \/ Idle
      BY <3>3 DEF CallCompletes, CallFails, CallTimesOut, Return, Idle
    <3>4. QED
      BY <1>1, <3>1, <3>2, <3>3 DEF NodeSteps
  <2>2. QED
    BY <2>1
<1>2. CASE OthersSteps \/ RowSteps \/ UNCHANGED ordersVars
  BY <1>2, OthersFrame, RowFrame DEF ordersVars
<1>3. ASSUME NEW t \in sent, Execute(t) \/ Refuse(t) PROVE t = s
  BY <1>3, AnswerFrame
<1>4. QED
  BY <1>1, <1>2, <1>3, Kinds

LEMMA CloseIsSound ==
  ASSUME TypesInv, [OrdersNext]_ordersVars, NEW s \in sent, s \notin sent',
         s.of.what \in {"close", "close_all"}, Sound(s)
  PROVE  OnlyCloses(s.of.account)
<1> DEFINE r == s.request
           c == s.of
<1>1. ServerInv /\ RequestInv(s)
  BY DEF TypesInv, SentInv
<1>2. \A i \in DOMAIN trades : trades[i].amount \in Nat
  BY <1>1 DEF ServerInv, TradeRow
<1>3. CASE Refuse(s)
  BY <1>2, <1>3 DEF Refuse, OnlyCloses, server
<1>4. CASE ExecuteClose(s)
  <2>1. /\ r.trade \in DOMAIN trades /\ trades[r.trade].account = r.account /\ r.op = "close"
        /\ trades' = Less(trades, r.trade, r.amount)
    BY <1>4 DEF ExecuteClose, Become
  <2>2. r.account = c.account
    BY <1>1, <2>1 DEF RequestInv
  <2>3. Follows(trades')
    BY <1>4, CloseStep
  <2>4. \A i \in DOMAIN trades \ {r.trade} : i \in DOMAIN trades' /\ trades'[i] = trades[i]
    BY <2>1 DEF Less
  <2>5. QED
    BY <2>1, <2>2, <2>3, <2>4 DEF OnlyCloses, Follows
<1>5. CASE ExecuteNetClose(s)
  <2>1. trades' = [i \in DOMAIN trades \ Against(r) |-> trades[i]] /\ r.op = "net_close"
    BY <1>5 DEF ExecuteNetClose, Become
  <2>2. r.account = c.account
    BY <1>1, <2>1 DEF RequestInv
  <2>3. \A i \in Against(r) : trades[i].account = c.account
    BY <2>2 DEF Against
  <2>4. QED
    BY <1>2, <2>1, <2>3 DEF OnlyCloses
<1>6. CASE ExecuteNetOpen(s)
  <2>1. r.op = "net_open"
    BY <1>6 DEF ExecuteNetOpen
  <2>2. PICK rest \in Rests(r) :
           rest[MaxTrades] = 0 => Become(Reduced(r, rest))
    BY <1>6 DEF ExecuteNetOpen
  <2>3. /\ r.account = c.account /\ r.amount \in Nat /\ c.found \in TradeRow
        /\ r.account = c.found.account /\ r.symbol = c.found.symbol /\ r.side # c.found.side
    BY <1>1, <2>1 DEF RequestInv
  <2>4. c.trade \in Against(r) /\ r.amount <= trades[c.trade].amount
    <3>1. c.what = "close"
      BY <1>1, <2>1 DEF RequestInv
    <3>2. c.trade \in DOMAIN trades /\ trades[c.trade] = c.found /\ r.amount <= c.found.amount
      BY <2>1, <3>1 DEF Sound
    <3>3. QED
      BY <2>3, <3>2 DEF Against
  <2>5. rest[MaxTrades] = 0
    BY <1>1, <2>3, <2>4, NothingRests
  <2>6. trades' = Reduced(r, rest)
    BY <2>2, <2>5 DEF Become
  <2>7. Follows(trades')
    BY <1>1, <2>3, <2>6, ReducedFollows
  <2>8. \A i \in DOMAIN trades \ Against(r) : i \in DOMAIN trades' /\ trades'[i] = trades[i]
    BY <2>6 DEF Reduced
  <2>9. \A i \in Against(r) : trades[i].account = c.account
    BY <2>3 DEF Against
  <2>10. QED
    BY <2>7, <2>8, <2>9 DEF OnlyCloses, Follows
<1>7. r.op \in {"close", "net_open", "net_close"}
  BY <1>1 DEF RequestInv
<1>8. QED
  BY <1>3, <1>4, <1>5, <1>6, <1>7, RequestGoes DEF Execute, ExecuteOpen, ExecuteCreate, ExecuteEdit

\* Order2Go::closePosition, closeAllPositions: a request to close opens nothing, enlarges
\* nothing, and touches its account only, if on an account that nets the position is
\* still what the call has found.
THEOREM ClosingOnlyCloses == OrdersSpec => CloseOnlyCloses
<1> DEFINE Sane ==
      \A s \in sent \ sent' : s.of.what \in {"close", "close_all"} /\ Sound(s) =>
        /\ DOMAIN trades' \subseteq DOMAIN trades
        /\ \A i \in DOMAIN trades :
             trades[i].account # s.of.account => i \in DOMAIN trades' /\ trades'[i] = trades[i]
        /\ \A i \in DOMAIN trades' : trades'[i].amount <= trades[i].amount
<1>1. TypesInv /\ [OrdersNext]_ordersVars => [Sane]_ordersVars
  BY CloseIsSound DEF OnlyCloses
<1>2. OrdersSpec => [][Sane]_ordersVars
  BY <1>1, OrdersInvariance, PTL DEF OrdersSpec
<1>3. QED
  BY <1>2 DEF CloseOnlyCloses

-----------------------------------------------------------------------------
(* CandleFold: what an offer makes of the candles                          *)

\* A candle whose open and close lie between its low and its high.
Proper(c) == c \in Candle /\ c.low <= c.open /\ c.open <= c.high /\ c.low <= c.close /\ c.close <= c.high

Ascending(cs) == \A i, j \in DOMAIN cs : i < j => cs[i].start < cs[j].start

LEMMA Remainder ==
  ASSUME NEW m \in Nat, NEW p \in Nat \ {0}
  PROVE  m % p \in Nat /\ m % p <= m
<1>1. m % p \in 0 .. p - 1 /\ m = p * (m \div p) + (m % p) /\ m \div p \in Int
  OBVIOUS
<1>2. m \div p >= 0
  BY <1>1
<1>3. p * (m \div p) >= 0
  BY <1>1, <1>2
<1>4. QED
  BY <1>1, <1>3

LEMMA Starts ==
  ASSUME NEW p \in Period, NEW m \in Minute
  PROVE  StartOf(p, m) \in Minute
<1>1. p \in Nat \ {0} /\ m \in Nat /\ m <= MaxMinute
  BY FoldAssumption DEF Minute
<1>2. m % p \in Nat /\ m % p <= m
  BY <1>1, Remainder
<1>3. QED
  BY <1>1, <1>2, FoldAssumption DEF StartOf, Minute

LEMMA Prices ==
  ASSUME NEW x \in Price \cup {NoPrice}
  PROVE  x \in Nat
BY FoldAssumption DEF NoPrice

\* The price is taken into the candle.
LEMMA HighLowProper ==
  ASSUME NEW c, Proper(c), NEW price \in Price \cup {NoPrice}, NEW d, d = [c EXCEPT !.close = price]
  PROVE  Proper(HighLow(d, price)) /\ HighLow(d, price).start = c.start
<1> DEFINE high == IF d.high < price THEN price ELSE d.high
           low == IF d.low > price THEN price ELSE d.low
           e == [d EXCEPT !.high = high]
           h == [e EXCEPT !.low = low]
<1>1. c \in Candle /\ price \in Nat
  BY Prices DEF Proper
<1>2. /\ d \in Candle /\ d.close = price /\ d.open = c.open /\ d.high = c.high /\ d.low = c.low
      /\ d.start = c.start
  BY <1>1 DEF Candle
<1>3. /\ high \in Price \cup {NoPrice} /\ low \in Price \cup {NoPrice}
      /\ d.open \in Nat /\ d.high \in Nat /\ d.low \in Nat
  BY <1>2, Prices DEF Candle
<1>4. d.high <= high /\ price <= high /\ low <= d.low /\ low <= price
  BY <1>1, <1>3
<1>5. HighLow(d, price) = [d EXCEPT !.high = high, !.low = low]
  BY <1>2 DEF HighLow, Candle
<1> HIDE DEF high, low
<1>6. e \in Candle /\ e.high = high /\ e.low = d.low /\ e.open = d.open /\ e.close = d.close /\ e.start = d.start
  BY <1>2, <1>3 DEF Candle
<1>7. HighLow(d, price) = h
  BY <1>5
<1> HIDE DEF e
<1>8. h \in Candle /\ h.high = high /\ h.low = low /\ h.open = e.open /\ h.close = e.close /\ h.start = e.start
  BY <1>3, <1>6 DEF Candle
<1> HIDE DEF h
<1>9. d.low <= d.open /\ d.open <= d.high
  BY <1>2 DEF Proper
<1>10. high \in Nat /\ low \in Nat
  BY <1>3, Prices
<1>11. Proper(h)
  BY <1>1, <1>2, <1>3, <1>4, <1>6, <1>8, <1>9, <1>10 DEF Proper
<1>12. QED
  BY <1>2, <1>6, <1>7, <1>8, <1>11

LEMMA NewProper ==
  ASSUME NEW start \in Minute, NEW price \in Price \cup {NoPrice}, NEW volume \in Int
  PROVE  Proper(NewCandle(start, price, volume)) /\ NewCandle(start, price, volume).start = start
<1>1. price \in Nat
  BY Prices
<1>2. QED
  BY <1>1 DEF Proper, NewCandle, FullCandle, Candle

LEMMA FoldProper ==
  ASSUME NEW c, Proper(c), NEW prev \in Offered, NEW o \in Offered
  PROVE  Proper(Fold(c, prev, o)) /\ Fold(c, prev, o).start = c.start
<1> DEFINE d == [c EXCEPT !.close = o.price]
           h == HighLow(d, o.price)
<1>1. Proper(h) /\ h.start = c.start
  BY HighLowProper DEF Offered
<1>2. Count(c, prev, o) \in Int
  <2>1. c.volume \in Int /\ prev.volume \in Int /\ o.volume \in Int
    BY DEF Proper, Candle, Offered
  <2>2. QED
    BY <2>1 DEF Count
<1>3. Fold(c, prev, o) = [h EXCEPT !.volume = Count(c, prev, o)]
  BY DEF Fold
<1> HIDE DEF h
<1>4. QED
  BY <1>1, <1>2, <1>3 DEF Proper, Candle

LEMMA NextProper ==
  ASSUME NEW c, Proper(c), NEW start \in Minute, NEW o \in Offered
  PROVE  Proper(NextCandle(c, start, o)) /\ NextCandle(c, start, o).start = start
<1> DEFINE n == NewCandle(start, c.close, o.volume)
<1>1. Proper(n) /\ n.start = start
  <2>1. c.close \in Price \cup {NoPrice} /\ o.volume \in Int
    BY DEF Proper, Candle, Offered
  <2> QED
    BY <2>1, NewProper
<1>2. NextCandle(c, start, o) = HighLow([n EXCEPT !.close = o.price], o.price)
  BY DEF NextCandle
<1> HIDE DEF n
<1>3. QED
  BY <1>1, <1>2, HighLowProper DEF Offered

\* What an offer leaves of the candles of a period.
Kept(cs, next) ==
  /\ next \in Seq(Candle) /\ \A i \in DOMAIN next : Proper(next[i])
  /\ Ascending(next) /\ Len(next) \in {Len(cs), Len(cs) + 1}
  /\ \A i \in DOMAIN cs : i # Len(cs) => next[i] = cs[i]

\* PriceCollector::handleOffer, whatever candles a period has and whatever offer comes:
\* it keeps the open and the close of each candle between its low and its high and the
\* candles in the order of their times, adds at most one, and changes none but the last.
THEOREM OfferKeepsCandles ==
  ASSUME NEW p \in Period, NEW cs \in Seq(Candle), \A i \in DOMAIN cs : Proper(cs[i]),
         Ascending(cs), NEW prev \in Offered, NEW o \in Offered
  PROVE  Kept(cs, Handle(p, cs, prev, o))
<1> DEFINE next == Handle(p, cs, prev, o)
           n == Len(cs)
           start == StartOf(p, o.minute)
           last == cs[n]
<1>1. start \in Minute /\ o.price \in Price \cup {NoPrice} /\ o.volume \in Int
  BY Starts DEF Offered
<1>2. n \in Nat /\ DOMAIN cs = 1 .. n
  OBVIOUS
<1>3. CASE cs = <<>>
  <2> DEFINE c == NewCandle(start, o.price, o.volume)
  <2>1. Proper(c)
    BY <1>1, NewProper
  <2>2. next = <<c>>
    BY <1>3 DEF Handle
  <2> HIDE DEF c, next
  <2>3. c \in Candle
    BY <2>1 DEF Proper
  <2>4. next \in Seq(Candle) /\ Len(next) = 1 /\ DOMAIN next = {1} /\ next[1] = c
    BY <2>2, <2>3
  <2>5. Kept(cs, next)
    BY <1>3, <2>1, <2>4 DEF Ascending, Kept
  <2>6. QED
    BY <2>5 DEF next
<1>4. CASE cs # <<>> /\ last.start = start
  <2> DEFINE c == Fold(last, prev, o)
  <2>1. n \in DOMAIN cs
    BY <1>2, <1>4
  <2>2. Proper(c) /\ c.start = last.start
    BY <2>1, FoldProper
  <2>3. next = [cs EXCEPT ![n] = c]
    BY <1>4 DEF Handle
  <2> HIDE DEF c, next, n
  <2>4. c \in Candle
    BY <2>2 DEF Proper
  <2>5. /\ next \in Seq(Candle) /\ Len(next) = Len(cs) /\ DOMAIN next = DOMAIN cs
        /\ \A i \in DOMAIN cs : next[i] = IF i = n THEN c ELSE cs[i]
    BY <2>1, <2>3, <2>4
  <2>6. \A i \in DOMAIN cs : Proper(next[i]) /\ next[i].start = cs[i].start
    BY <2>2, <2>5
  <2>7. Kept(cs, next)
    BY <1>2, <2>5, <2>6 DEF Ascending, Kept, n
  <2>8. QED
    BY <2>7 DEF next
<1>5. CASE cs # <<>> /\ last.start < start
  <2> DEFINE c == NextCandle(last, start, o)
  <2>1. n \in DOMAIN cs
    BY <1>2, <1>5
  <2>2. Proper(c) /\ c.start = start
    BY <1>1, <2>1, NextProper
  <2>3. next = Append(cs, c)
    <3>1. last.start # start
      <4>1. last.start \in Nat
        BY <2>1, FoldAssumption DEF Proper, Candle, Minute
      <4>2. QED
        BY <1>5, <4>1
    <3>2. QED
      BY <1>5, <3>1 DEF Handle
  <2>4. c \in Candle /\ \A i \in DOMAIN cs : cs[i].start \in Nat
    BY <2>2, FoldAssumption DEF Proper, Candle, Minute
  <2> HIDE DEF c, next
  <2>5. /\ next \in Seq(Candle) /\ Len(next) = n + 1 /\ DOMAIN next = 1 .. n + 1
        /\ \A i \in 1 .. n : next[i] = cs[i]
        /\ next[n + 1] = c
    BY <1>2, <2>3, <2>4
  <2>6. \A i \in DOMAIN next : Proper(next[i])
    BY <1>2, <2>2, <2>5
  <2>7. ASSUME NEW i \in DOMAIN next, NEW j \in DOMAIN next, i < j PROVE next[i].start < next[j].start
    <3>1. i \in DOMAIN cs /\ next[i] = cs[i]
      BY <1>2, <2>5, <2>7
    <3>2. cs[i].start <= last.start
      <4>1. CASE i = n
        BY <2>4, <3>1, <4>1
      <4>2. CASE i # n
        <5>1. i < n
          BY <1>2, <3>1, <4>2
        <5>2. QED
          BY <2>1, <2>4, <3>1, <5>1 DEF Ascending
      <4>3. QED
        BY <4>1, <4>2
    <3>3. CASE j = n + 1
      <4>1. start \in Nat
        BY <1>1, FoldAssumption DEF Minute
      <4>2. QED
        BY <1>5, <2>1, <2>2, <2>4, <2>5, <3>1, <3>2, <3>3, <4>1
    <3>4. CASE j # n + 1
      BY <1>2, <2>5, <2>7, <3>1, <3>4 DEF Ascending
    <3>5. QED
      BY <3>3, <3>4
  <2>8. Kept(cs, next)
    BY <1>2, <2>5, <2>6, <2>7 DEF Ascending, Kept
  <2>9. QED
    BY <2>8 DEF next
<1>6. CASE cs # <<>> /\ ~(last.start = start) /\ ~(last.start < start)
  <2>1. next = cs
    BY <1>6 DEF Handle
  <2>2. Kept(cs, next)
    BY <2>1, <1>2 DEF Kept
  <2>3. QED
    BY <2>2 DEF next
<1>7. QED
  BY <1>3, <1>4, <1>5, <1>6

-----------------------------------------------------------------------------
(* CandleFold: minutes, and the server's bars                              *)

\* The candles of a period lie side by side.
LEMMA SideBySide ==
  ASSUME NEW p \in Period, NEW m \in Minute, NEW n \in Minute
  PROVE  /\ StartOf(p, m) <= m /\ m < StartOf(p, m) + p
         /\ m <= n => StartOf(p, m) <= StartOf(p, n)
         /\ StartOf(p, m) < StartOf(p, n) => StartOf(p, m) + p <= StartOf(p, n)
<1>1. p \in Nat /\ p > 0 /\ m \in Nat /\ n \in Nat
  BY FoldAssumption DEF Minute
<1>2. PICK a \in Int, r \in 0 .. p - 1 : m = p * a + r /\ StartOf(p, m) = p * a
  <2>1. m % p \in 0 .. p - 1 /\ m = p * (m \div p) + (m % p) /\ m \div p \in Int
    BY <1>1
  <2>2. StartOf(p, m) = p * (m \div p)
    BY <1>1, <2>1 DEF StartOf
  <2> QED BY <2>1, <2>2
<1>3. PICK b \in Int, s \in 0 .. p - 1 : n = p * b + s /\ StartOf(p, n) = p * b
  <2>1. n % p \in 0 .. p - 1 /\ n = p * (n \div p) + (n % p) /\ n \div p \in Int
    BY <1>1
  <2>2. StartOf(p, n) = p * (n \div p)
    BY <1>1, <2>1 DEF StartOf
  <2> QED BY <2>1, <2>2
<1>4. \A x, y \in Int : x <= y => p * x <= p * y
  BY <1>1
<1>5. \A x \in Int : p * (x + 1) = p * x + p
  BY <1>1
<1>6. p * a \in Int /\ p * b \in Int
  BY <1>1
<1>7. StartOf(p, m) <= m /\ m < StartOf(p, m) + p
  BY <1>1, <1>2, <1>6
<1>8. ASSUME ~(a <= b)  PROVE p * b + p <= p * a
  <2>1. b + 1 <= a
    BY <1>8
  <2>2. p * (b + 1) <= p * a
    BY <1>4, <2>1
  <2> QED BY <1>5, <2>2
<1>9. ASSUME ~(b <= a)  PROVE p * a + p <= p * b
  <2>1. a + 1 <= b
    BY <1>9
  <2>2. p * (a + 1) <= p * b
    BY <1>4, <2>1
  <2> QED BY <1>5, <2>2
<1>10. m <= n => StartOf(p, m) <= StartOf(p, n)
  <2>1. CASE a <= b
    BY <1>2, <1>3, <1>4, <2>1
  <2>2. CASE ~(a <= b)
    BY <1>1, <1>2, <1>3, <1>6, <1>8, <2>2
  <2> QED BY <2>1, <2>2
<1>11. StartOf(p, m) < StartOf(p, n) => StartOf(p, m) + p <= StartOf(p, n)
  <2>1. CASE b <= a
    <3>1. p * b <= p * a
      BY <1>4, <2>1
    <3> QED BY <1>2, <1>3, <1>6, <3>1
  <2>2. CASE ~(b <= a)
    BY <1>2, <1>3, <1>9, <2>2
  <2> QED BY <2>1, <2>2
<1> QED BY <1>7, <1>10, <1>11

\* Some minutes have a first and a last one.
LEMMA EarliestLatest ==
  ASSUME NEW M \in SUBSET Minute, M # {}
  PROVE  /\ Earliest(M) \in M /\ \A m \in M : Earliest(M) <= m
         /\ Latest(M) \in M /\ \A m \in M : m <= Latest(M)
<1>1. Minute \subseteq Nat /\ \A m \in M : m \in Nat /\ m <= MaxMinute
  BY FoldAssumption DEF Minute
<1>2. \E m \in M : \A n \in M : m <= n
  BY <1>1, LeastOf
<1>3. \E m \in M : \A n \in M : m >= n
  <2> DEFINE T == {MaxMinute - m : m \in M}
  <2>1. T \in SUBSET Nat /\ T # {}
    <3>1. \A m \in M : MaxMinute - m \in Nat
      BY <1>1, FoldAssumption
    <3>2. T # {}
      OBVIOUS
    <3> QED BY <3>1, <3>2
  <2>2. PICK k \in T : \A l \in T : k <= l
    <3> HIDE DEF T
    <3> QED BY <2>1, LeastOf
  <2>3. PICK m \in M : k = MaxMinute - m
    BY <2>2
  <2>4. ASSUME NEW n \in M  PROVE m >= n
    <3>1. MaxMinute - m <= MaxMinute - n
      BY <2>2, <2>3
    <3> QED BY <1>1, <3>1, FoldAssumption
  <2> QED BY <2>4
<1>4. Earliest(M) \in M /\ \A n \in M : Earliest(M) <= n
  BY <1>2 DEF Earliest
<1>5. Latest(M) \in M /\ \A n \in M : Latest(M) >= n
  BY <1>3 DEF Latest
<1>6. \A n \in M : Latest(M) >= n => n <= Latest(M)
  BY <1>1, <1>5
<1> QED BY <1>4, <1>5, <1>6

\* Of the bars of some minutes one has the highest price, and one the lowest.
LEMMA HighestLowest ==
  ASSUME NEW M \in SUBSET Minute, M # {}, NEW f, \A m \in M : f[m] \in Nat
  PROVE  /\ \E m \in M : \A n \in M : f[m] <= f[n]
         /\ \E m \in M : \A n \in M : f[m] >= f[n]
<1>1. Minute \subseteq Nat /\ \A m \in M : m \in Nat
  BY FoldAssumption DEF Minute
<1>2. \E m \in M : \A n \in M : f[m] <= f[n]
  <2> DEFINE T == {f[m] : m \in M}
  <2>1. T \in SUBSET Nat /\ T # {}
    OBVIOUS
  <2>2. PICK k \in T : \A l \in T : k <= l
    <3> HIDE DEF T
    <3> QED BY <2>1, LeastOf
  <2> QED BY <2>2
<1>3. \E m \in M : \A n \in M : f[m] >= f[n]
  <2> DEFINE Upto(k) == {m \in M : m <= k}
             Bad == {k \in M : ~\E m \in Upto(k) : \A n \in Upto(k) : f[m] >= f[n]}
  <2>1. Bad = {}
    <3> SUFFICES ASSUME Bad # {}  PROVE FALSE
      OBVIOUS
    <3>1. Bad \in SUBSET Nat
      BY <1>1
    <3>2. PICK k \in Bad : \A l \in Bad : k <= l
      <4> HIDE DEF Bad
      <4> QED BY <3>1, LeastOf
    <3>3. k \in M /\ ~\E m \in Upto(k) : \A n \in Upto(k) : f[m] >= f[n]
      BY <3>2
    <3> DEFINE Under == {m \in M : m < k}
    <3>4. CASE Under = {}
      <4>1. \A n \in Upto(k) : n = k
        BY <1>1, <3>3, <3>4
      <4>2. k \in Upto(k)
        BY <1>1, <3>3
      <4>3. \A n \in Upto(k) : f[k] >= f[n]
        BY <3>3, <4>1
      <4> QED BY <3>3, <4>2, <4>3
    <3>5. CASE Under # {}
      <4>1. Under \in SUBSET Minute
        OBVIOUS
      <4>2. PICK j \in Under : \A m \in Under : m <= j
        <5> HIDE DEF Under
        <5> QED BY <3>5, <4>1, EarliestLatest
      <4>3. j \in M /\ j < k /\ j \notin Bad
        <5>1. ~(k <= j)
          BY <1>1, <3>3, <4>2
        <5> QED BY <3>2, <4>2, <5>1
      <4>4. PICK m \in Upto(j) : \A n \in Upto(j) : f[m] >= f[n]
        BY <4>3
      <4>5. \A n \in Upto(k) : n \in Upto(j) \/ n = k
        <5> TAKE n \in Upto(k)
        <5>1. CASE n = k
          BY <5>1
        <5>2. CASE n # k
          <6>1. n \in M /\ n < k
            BY <1>1, <3>3, <5>2
          <6>2. n <= j
            BY <4>2, <6>1
          <6> QED BY <6>1, <6>2
        <5> QED BY <5>1, <5>2
      <4>6. m \in Upto(k) /\ k \in Upto(k) /\ m \in M
        BY <1>1, <3>3, <4>3
      <4>7. f[m] \in Nat /\ f[k] \in Nat /\ \A n \in M : f[n] \in Nat
        BY <3>3, <4>6
      <4>8. CASE f[m] >= f[k]
        BY <3>3, <4>4, <4>5, <4>6, <4>8
      <4>9. CASE ~(f[m] >= f[k])
        <5>1. \A n \in Upto(k) : f[k] >= f[n]
          <6> TAKE n \in Upto(k)
          <6>1. CASE n = k
            BY <4>7, <6>1
          <6>2. CASE n \in Upto(j)
            <7>1. f[m] >= f[n] /\ f[n] \in Nat
              BY <4>4, <4>7, <6>2
            <7> QED BY <4>7, <4>9, <7>1
          <6> QED BY <4>5, <6>1, <6>2
        <5> QED BY <3>3, <4>6, <5>1
      <4> QED BY <4>8, <4>9
    <3> QED BY <3>4, <3>5
  <2>2. Latest(M) \in M /\ \A m \in M : m <= Latest(M)
    BY EarliestLatest
  <2>3. \E m \in Upto(Latest(M)) : \A n \in Upto(Latest(M)) : f[m] >= f[n]
    BY <2>1, <2>2
  <2>4. Upto(Latest(M)) = M
    BY <2>2
  <2> QED BY <2>3, <2>4
<1> QED BY <1>2, <1>3

-----------------------------------------------------------------------------
(* CandleFold: the volumes                                                 *)

Opened(m) == bars[m] # <<>>

\* The number of the tick that an offer tells of.
Number(o) == bars[o.minute][1].first + o.volume - 1

\* The offers that have come and are not folded, and the last tick before them.
Waiting == IF inHand = <<>> THEN m_Pending ELSE inHand
Before == ticks - Len(Waiting)

\* A bar whose open and close lie between its low and its high.
WholeBar(b) ==
  /\ b \in MinuteBar /\ b.low <= b.open /\ b.open <= b.high /\ b.low <= b.close /\ b.close <= b.high
  /\ 1 <= b.first /\ b.first <= b.last

\* The ticks of a minute follow those of the minutes before.
MarketInv ==
  /\ Opened(tick.minute) /\ bars[tick.minute][1].last = ticks
  /\ tick.volume >= 1 /\ Number(tick) = ticks
  /\ \A m \in Minute : Opened(m) => m <= tick.minute /\ WholeBar(bars[m][1])
  /\ \A m, n \in Minute : Opened(m) /\ Opened(n) /\ m < n => bars[m][1].last < bars[n][1].first

IsOffer(o) == Opened(o.minute) /\ o.volume >= 1 /\ Number(o) <= bars[o.minute][1].last

\* The offers that wait are the last ticks, none left out, and the stored one is older;
\* it is the one before them as soon as a volume depends on it.
OffersInv ==
  /\ IsOffer(m_Offer) /\ Number(m_Offer) <= Before
  /\ \A n \in 1 .. Len(Waiting) : IsOffer(Waiting[n]) /\ Number(Waiting[n]) = Before + n
  /\ inHand # <<>> => m_State = "READY" /\ m_Pending = <<>>
  /\ m_State = "UNFILL" =>
       m_Pending = <<>> /\ inHand = <<>> /\ exact = {} /\ \A p \in Period : m_Candles[p] = <<>>
  /\ exact \cap toLoad = {}
  /\ (\E p \in Period : p \in exact \/ Len(m_Candles[p]) > 1) => Number(m_Offer) = Before

\* The candles that are to be exact.
Counted(p, i) == i > 1 \/ p \in exact

\* The first of the server's ticks in a candle.
FirstOf(p, start) == bars[Earliest(Traded(p, start))][1].first

ShapeInv(p) ==
  /\ p \in exact => m_Candles[p] # <<>>
  /\ Ascending(m_Candles[p])
  /\ \A i \in DOMAIN m_Candles[p] :
       Proper(m_Candles[p][i]) /\ \E m \in Minute : m_Candles[p][i].start = StartOf(p, m)

\* No tick before those that wait is behind the last candle.
ReachInv(p) ==
  LET cs == m_Candles[p] IN
    cs # <<>> =>
      \A m \in Minute : Opened(m) /\ bars[m][1].first <= Before => m < cs[Len(cs)].start + p

\* The last candle has the ticks up to the stored offer.
InProgress(p) ==
  LET cs == m_Candles[p] c == cs[Len(cs)] IN
    cs # <<>> /\ Counted(p, Len(cs)) =>
      /\ c.start = StartOf(p, m_Offer.minute)
      /\ c.volume = Number(m_Offer) - FirstOf(p, c.start) + 1

\* Those before have all there will be.
Finished(p) ==
  LET cs == m_Candles[p] IN
    \A i \in 1 .. Len(cs) - 1 :
      /\ cs[i].start + p <= cs[Len(cs)].start
      /\ Counted(p, i) =>
           Traded(p, cs[i].start) # {} /\ cs[i].volume = Bar(p, cs[i].start).volume

CandlesInv(p) == ShapeInv(p) /\ ReachInv(p) /\ InProgress(p) /\ Finished(p)

VolumesInv == FoldTypeOK /\ MarketInv /\ OffersInv /\ \A p \in Period : CandlesInv(p)

LEMMA OpenedBar ==
  ASSUME FoldTypeOK, NEW m \in Minute, Opened(m)
  PROVE  /\ bars[m] \in Seq(MinuteBar) /\ Len(bars[m]) = 1 /\ bars[m][1] \in MinuteBar
         /\ bars[m][1].first \in Nat /\ bars[m][1].last \in Nat
<1>1. bars[m] \in Seq(MinuteBar) /\ Len(bars[m]) <= 1 /\ bars[m] # <<>>
  BY DEF FoldTypeOK, Opened
<1>2. Len(bars[m]) = 1
  <2>1. \A s \in Seq(MinuteBar) : s # <<>> => Len(s) \in Nat /\ Len(s) # 0
    OBVIOUS
  <2>2. Len(bars[m]) \in Nat /\ Len(bars[m]) # 0
    BY <1>1, <2>1, Zenon
  <2>3. \A n \in Nat : n <= 1 /\ n # 0 => n = 1
    OBVIOUS
  <2> QED BY <1>1, <2>2, <2>3, Zenon
<1>3. bars[m][1] \in MinuteBar
  BY <1>1, <1>2
<1> QED BY <1>1, <1>2, <1>3 DEF MinuteBar

\* The numbers are in the order of the minutes.
LEMMA NumberOrder ==
  ASSUME FoldTypeOK, MarketInv, NEW o \in Offered, IsOffer(o)
  PROVE  /\ o.minute \in Minute /\ o.volume \in Nat /\ Number(o) \in Nat
         /\ bars[o.minute][1].first <= Number(o) /\ Number(o) <= bars[o.minute][1].last
         /\ \A m \in Minute : Opened(m) /\ m < o.minute => bars[m][1].last < Number(o)
         /\ \A m \in Minute : Opened(m) /\ o.minute < m => Number(o) < bars[m][1].first
<1>1. o.minute \in Minute /\ o.volume \in Nat /\ o.volume >= 1 /\ Opened(o.minute)
  BY DEF Offered, IsOffer
<1>2. bars[o.minute][1].first \in Nat /\ bars[o.minute][1].last \in Nat
  BY <1>1, OpenedBar
<1>3. 1 <= bars[o.minute][1].first
  BY <1>1 DEF MarketInv, WholeBar
<1>4. Number(o) \in Nat /\ bars[o.minute][1].first <= Number(o)
  BY <1>1, <1>2, <1>3 DEF Number
<1>5. Number(o) <= bars[o.minute][1].last
  BY DEF IsOffer
<1>6. ASSUME NEW m \in Minute, Opened(m), m < o.minute  PROVE bars[m][1].last < Number(o)
  <2>1. bars[m][1].last < bars[o.minute][1].first
    BY <1>1, <1>6 DEF MarketInv
  <2>2. bars[m][1].last \in Nat
    BY <1>6, OpenedBar
  <2> QED BY <1>2, <1>4, <2>1, <2>2
<1>7. ASSUME NEW m \in Minute, Opened(m), o.minute < m  PROVE Number(o) < bars[m][1].first
  <2>1. bars[o.minute][1].last < bars[m][1].first
    BY <1>1, <1>7 DEF MarketInv
  <2>2. bars[m][1].first \in Nat
    BY <1>7, OpenedBar
  <2> QED BY <1>2, <1>4, <1>5, <2>1, <2>2
<1> QED BY <1>1, <1>4, <1>5, <1>6, <1>7

\* The minutes of a candle that have begun.
LEMMA TradedIs ==
  ASSUME NEW p \in Period, NEW start \in Minute
  PROVE  /\ Traded(p, start) \in SUBSET Minute
         /\ \A m \in Minute : m \in Traded(p, start) <=> start <= m /\ m < start + p /\ Opened(m)
<1>1. p \in Nat /\ start \in Nat /\ Minute \subseteq Nat
  BY FoldAssumption DEF Minute
<1>2. \A m \in Minute : m \in start .. start + p - 1 <=> start <= m /\ m < start + p
  BY <1>1
<1> QED BY <1>2 DEF Traded, Opened

\* The server's candle: its volume, and its prices.
LEMMA BarIs ==
  ASSUME FoldTypeOK, MarketInv, NEW p \in Period, NEW start \in Minute, Traded(p, start) # {}
  PROVE  /\ Bar(p, start).volume = bars[Latest(Traded(p, start))][1].last - FirstOf(p, start) + 1
         /\ Proper(Bar(p, start)) /\ Bar(p, start).start = start
<1> DEFINE M == Traded(p, start)
           b == [m \in M |-> bars[m][1]]
           c == Bar(p, start)
           e == Earliest(M)
           l == Latest(M)
<1>1. M \in SUBSET Minute /\ M # {} /\ \A m \in M : Opened(m)
  BY TradedIs
<1>2. e \in M /\ l \in M
  BY <1>1, EarliestLatest
<1>3. \A m \in M : b[m] = bars[m][1] /\ WholeBar(b[m])
  BY <1>1 DEF MarketInv
<1>4. c = FullCandle(start, b[e].open, Highest(M, b), Lowest(M, b), b[l].close,
                     b[l].last - b[e].first + 1)
  BY DEF Bar
<1> HIDE DEF M, b, c, e, l
<1>5. \A m \in M : b[m].high \in Nat /\ b[m].low \in Nat
  BY <1>3, FoldAssumption DEF WholeBar, MinuteBar
<1>6. PICK h \in M : Highest(M, b) = b[h].high /\ \A m \in M : b[h].high >= b[m].high
  <2> DEFINE f == [m \in M |-> b[m].high]
  <2>1. \A m \in M : f[m] \in Nat
    BY <1>5
  <2>2. \E m \in M : \A n \in M : f[m] >= f[n]
    <3> HIDE DEF f
    <3> QED BY <1>1, <2>1, HighestLowest
  <2>3. \E m \in M : \A n \in M : b[m].high >= b[n].high
    BY <2>2
  <2> QED BY <2>3 DEF Highest
<1>7. PICK w \in M : Lowest(M, b) = b[w].low /\ \A m \in M : b[w].low <= b[m].low
  <2> DEFINE f == [m \in M |-> b[m].low]
  <2>1. \A m \in M : f[m] \in Nat
    BY <1>5
  <2>2. \E m \in M : \A n \in M : f[m] <= f[n]
    <3> HIDE DEF f
    <3> QED BY <1>1, <2>1, HighestLowest
  <2>3. \E m \in M : \A n \in M : b[m].low <= b[n].low
    BY <2>2
  <2> QED BY <2>3 DEF Lowest
<1>8. /\ c.start = start /\ c.open = b[e].open /\ c.high = b[h].high /\ c.low = b[w].low
      /\ c.close = b[l].close /\ c.volume = b[l].last - b[e].first + 1
  BY <1>4, <1>6, <1>7 DEF FullCandle
<1>9. c \in Candle
  <2>1. /\ b[e].open \in Price /\ b[h].high \in Price /\ b[w].low \in Price /\ b[l].close \in Price
        /\ b[l].last - b[e].first + 1 \in Int
    BY <1>2, <1>3 DEF WholeBar, MinuteBar
  <2> QED BY <1>4, <1>6, <1>7, <2>1 DEF FullCandle, Candle
<1>10. Proper(c)
  <2>1. ASSUME NEW m \in M, NEW x \in {b[m].open, b[m].close}  PROVE b[w].low <= x /\ x <= b[h].high
    <3>1. b[m].low <= x /\ x <= b[m].high /\ x \in Nat
      BY <1>3, FoldAssumption DEF WholeBar, MinuteBar
    <3>2. b[w].low <= b[m].low /\ b[h].high >= b[m].high
      BY <1>6, <1>7
    <3> QED BY <1>5, <3>1, <3>2
  <2>2. b[w].low <= b[e].open /\ b[e].open <= b[h].high
    BY <1>2, <2>1
  <2>3. b[w].low <= b[l].close /\ b[l].close <= b[h].high
    BY <1>2, <2>1
  <2> QED BY <1>8, <1>9, <2>2, <2>3 DEF Proper
<1>11. c.volume = bars[l][1].last - bars[e][1].first + 1
  BY <1>2, <1>3, <1>8
<1> QED BY <1>8, <1>10, <1>11 DEF FirstOf, M, c, e, l

\* A candle is complete with the last tick of its last minute.
LEMMA LastTick ==
  ASSUME FoldTypeOK, MarketInv, NEW p \in Period, NEW start \in Minute,
         NEW m \in Traded(p, start), \A n \in Traded(p, start) : n <= m
  PROVE  Bar(p, start).volume = bars[m][1].last - FirstOf(p, start) + 1
<1>1. Traded(p, start) \in SUBSET Minute /\ Traded(p, start) # {} /\ Minute \subseteq Nat
  BY TradedIs, FoldAssumption DEF Minute
<1>2. Latest(Traded(p, start)) \in Traded(p, start) /\ m <= Latest(Traded(p, start))
  BY <1>1, EarliestLatest
<1>3. Latest(Traded(p, start)) <= m
  BY <1>2
<1>4. Latest(Traded(p, start)) = m
  <2>1. Latest(Traded(p, start)) \in Nat /\ m \in Nat
    BY <1>1, <1>2
  <2> QED BY <1>2, <1>3, <2>1
<1> QED BY <1>1, <1>4, BarIs

\* A candle begins with the first tick of its first minute.
LEMMA FirstTick ==
  ASSUME NEW p \in Period, NEW start \in Minute,
         NEW m \in Traded(p, start), \A n \in Traded(p, start) : m <= n
  PROVE  FirstOf(p, start) = bars[m][1].first
<1>1. Traded(p, start) \in SUBSET Minute /\ Traded(p, start) # {} /\ Minute \subseteq Nat
  BY TradedIs, FoldAssumption DEF Minute
<1>2. Earliest(Traded(p, start)) \in Traded(p, start) /\ Earliest(Traded(p, start)) <= m
  BY <1>1, EarliestLatest
<1>3. m <= Earliest(Traded(p, start))
  BY <1>2
<1>4. Earliest(Traded(p, start)) = m
  <2>1. Earliest(Traded(p, start)) \in Nat /\ m \in Nat
    BY <1>1, <1>2
  <2> QED BY <1>2, <1>3, <2>1
<1> QED BY <1>4 DEF FirstOf

-----------------------------------------------------------------------------
(* CandleFold: a turn of the loop                                          *)

LEMMA WaitingIs ==
  ASSUME FoldTypeOK
  PROVE  Waiting \in Seq(Offered) /\ Len(Waiting) \in Nat /\ Before \in Int
<1>1. Waiting \in Seq(Offered) /\ ticks \in Nat
  BY DEF FoldTypeOK, Waiting
<1>2. Len(Waiting) \in Nat
  BY <1>1
<1> QED BY <1>1, <1>2 DEF Before

\* The offer of this turn is the one after the stored offer, or a later one.
LEMMA Turn ==
  ASSUME VolumesInv, HandleOffer, NEW o, o = Head(inHand)
  PROVE  /\ o \in Offered /\ IsOffer(o) /\ Number(o) = Before + 1
         /\ m_Offer.minute \in Minute /\ o.minute \in Minute /\ m_Offer.minute <= o.minute
         /\ Waiting = inHand /\ Waiting' = Tail(inHand) /\ Tail(inHand) \in Seq(Offered)
         /\ Len(Tail(inHand)) = Len(inHand) - 1
         /\ Before' = Before + 1
         /\ m_Offer' \in Offered /\ m_Offer'.minute = o.minute /\ m_Offer'.volume = o.volume
         /\ Number(m_Offer)' = Number(o)
<1>1. FoldTypeOK /\ MarketInv /\ OffersInv
  BY DEF VolumesInv
<1>2. inHand # <<>> /\ inHand \in Seq(Offered) /\ m_Offer \in Offered /\ ticks \in Nat
  BY <1>1 DEF HandleOffer, FoldTypeOK
<1>3. o \in Offered /\ o = inHand[1] /\ Len(inHand) \in Nat /\ 1 \in 1 .. Len(inHand)
  <2>1. \A s \in Seq(Offered) : s # <<>> =>
          Head(s) \in Offered /\ Head(s) = s[1] /\ Len(s) \in Nat /\ 1 \in 1 .. Len(s)
    OBVIOUS
  <2> QED BY <1>2, <2>1, Zenon
<1>4. Tail(inHand) \in Seq(Offered) /\ Len(Tail(inHand)) = Len(inHand) - 1
  <2>1. \A s \in Seq(Offered) : s # <<>> => Tail(s) \in Seq(Offered) /\ Len(Tail(s)) = Len(s) - 1
    OBVIOUS
  <2> QED BY <1>2, <2>1, Zenon
<1>5. Waiting = inHand /\ m_Pending = <<>>
  BY <1>1, <1>2 DEF Waiting, OffersInv
<1>6. IsOffer(o) /\ Number(o) = Before + 1
  BY <1>1, <1>3, <1>5 DEF OffersInv
<1>7. /\ bars' = bars /\ ticks' = ticks /\ m_Pending' = m_Pending /\ inHand' = Tail(inHand)
      /\ m_Offer' = OfferUpdated(m_Offer, o)
  BY DEF HandleOffer, serverVars
<1>8. Waiting' = Tail(inHand)
  <2>1. Waiting' = IF Tail(inHand) = <<>> THEN <<>> ELSE Tail(inHand)
    BY <1>5, <1>7 DEF Waiting
  <2> QED BY <2>1
<1>9. Before' = Before + 1
  <2>1. Before' = ticks - Len(Tail(inHand)) /\ Before = ticks - Len(inHand)
    BY <1>5, <1>7, <1>8 DEF Before
  <2> QED BY <1>2, <1>3, <1>4, <2>1
<1>10. m_Offer' \in Offered /\ m_Offer'.minute = o.minute /\ m_Offer'.volume = o.volume
  BY <1>2, <1>3, <1>7 DEF OfferUpdated, Offered
<1>11. Number(m_Offer)' = Number(o)
  BY <1>7, <1>10 DEF Number
<1>12. m_Offer.minute \in Minute /\ o.minute \in Minute /\ m_Offer.minute <= o.minute
  <2>1. IsOffer(m_Offer) /\ Number(m_Offer) <= Before
    BY <1>1 DEF OffersInv
  <2>2. /\ m_Offer.minute \in Minute /\ o.minute \in Minute /\ Opened(m_Offer.minute)
        /\ Number(m_Offer) \in Nat /\ Number(o) \in Nat
    BY <1>1, <1>2, <1>3, <1>6, <2>1, NumberOrder DEF IsOffer
  <2>3. ASSUME o.minute < m_Offer.minute  PROVE FALSE
    <3>1. Number(o) < bars[m_Offer.minute][1].first
      BY <1>1, <1>3, <1>6, <2>2, <2>3, NumberOrder
    <3>2. bars[m_Offer.minute][1].first <= Number(m_Offer) /\ bars[m_Offer.minute][1].first \in Nat
      BY <1>1, <1>2, <2>1, <2>2, NumberOrder, OpenedBar
    <3>3. Before \in Int
      BY <1>1, WaitingIs
    <3> QED BY <1>6, <2>1, <2>2, <3>1, <3>2, <3>3
  <2>4. m_Offer.minute \in Nat /\ o.minute \in Nat
    BY <2>2, FoldAssumption DEF Minute
  <2> QED BY <2>2, <2>3, <2>4
<1> QED BY <1>3, <1>4, <1>5, <1>6, <1>8, <1>9, <1>10, <1>11, <1>12

\* With the stored offer the one before, the minutes up to the new one are over.
LEMMA MinutesOver ==
  ASSUME VolumesInv, HandleOffer, NEW o, o = Head(inHand), Number(m_Offer) = Before,
         m_Offer.minute < o.minute
  PROVE  /\ bars[m_Offer.minute][1].last = Number(m_Offer) /\ o.volume = 1
         /\ \A m \in Minute : Opened(m) /\ m < o.minute => m <= m_Offer.minute
<1>1. FoldTypeOK /\ MarketInv /\ OffersInv /\ m_Offer \in Offered /\ IsOffer(m_Offer) /\ Before \in Int
  BY WaitingIs DEF VolumesInv, FoldTypeOK, OffersInv
<1>2. o \in Offered /\ IsOffer(o) /\ Number(o) = Before + 1 /\ m_Offer.minute \in Minute /\ o.minute \in Minute
  BY Turn
<1>3. m_Offer.minute \in Nat /\ o.minute \in Nat /\ Minute \subseteq Nat
  BY <1>2, FoldAssumption DEF Minute
<1>4. Opened(m_Offer.minute) /\ Opened(o.minute)
  BY <1>1, <1>2 DEF IsOffer
<1> DEFINE l == bars[m_Offer.minute][1].last
           f == bars[o.minute][1].first
<1>5. l \in Nat /\ f \in Nat
  BY <1>2, <1>4, <1>1, OpenedBar
<1>6. l < f
  BY <1>1, <1>2, <1>4 DEF MarketInv
<1>7. Number(m_Offer) <= l /\ f <= Number(o)
  BY <1>1, <1>2, NumberOrder
<1>8. l = Before /\ f = Before + 1
  <2> HIDE DEF l, f
  <2> QED BY <1>1, <1>2, <1>5, <1>6, <1>7
<1>9. o.volume = 1
  <2>1. Number(o) = f + o.volume - 1 /\ o.volume \in Nat
    BY <1>2 DEF Number, Offered
  <2> HIDE DEF f
  <2> QED BY <1>1, <1>2, <1>5, <1>8, <2>1
<1>10. ASSUME NEW m \in Minute, Opened(m), m < o.minute, ~(m <= m_Offer.minute)  PROVE FALSE
  <2>1. m_Offer.minute < m
    BY <1>3, <1>10
  <2>2. l < bars[m][1].first /\ bars[m][1].last < f
    BY <1>1, <1>2, <1>4, <1>10, <2>1 DEF MarketInv
  <2>3. bars[m][1].first <= bars[m][1].last
    BY <1>1, <1>10 DEF MarketInv, WholeBar
  <2>4. bars[m][1].first \in Nat /\ bars[m][1].last \in Nat
    BY <1>1, <1>10, OpenedBar
  <2> HIDE DEF l, f
  <2> QED BY <1>1, <1>5, <1>8, <2>2, <2>3, <2>4
<1> QED BY <1>8, <1>9, <1>10

\* No tick up to this one is in a later minute.
LEMMA TurnReaches ==
  ASSUME VolumesInv, HandleOffer, NEW o, o = Head(inHand),
         NEW m \in Minute, Opened(m), bars[m][1].first <= Number(o)
  PROVE  m <= o.minute
<1>1. FoldTypeOK /\ MarketInv /\ o \in Offered /\ IsOffer(o) /\ o.minute \in Minute
  BY Turn DEF VolumesInv
<1>2. Number(o) \in Nat /\ bars[m][1].first \in Nat
  BY <1>1, NumberOrder, OpenedBar
<1>3. ~(o.minute < m)
  BY <1>1, <1>2, NumberOrder
<1>4. m \in Nat /\ o.minute \in Nat
  BY <1>1, FoldAssumption DEF Minute
<1> QED BY <1>3, <1>4

\* What a turn leaves of the candles of a period, whichever it changes.
LEMMA TurnKeeps ==
  ASSUME VolumesInv, HandleOffer, NEW o, o = Head(inHand), NEW p \in Period,
         NEW cs, cs = m_Candles[p], NEW next, next = m_Candles'[p]
  PROVE  /\ cs \in Seq(Candle) /\ next \in Seq(Candle) /\ Len(cs) \in Nat /\ DOMAIN cs = 1 .. Len(cs)
         /\ next = Handle(p, cs, m_Offer, o) /\ Kept(cs, next) /\ exact' = exact
         /\ StartOf(p, o.minute) \in Minute
         /\ StartOf(p, o.minute) <= o.minute /\ o.minute < StartOf(p, o.minute) + p
         /\ cs # <<>> => Len(cs) \in DOMAIN cs
         /\ \A i \in DOMAIN cs : cs[i].start \in Minute /\ cs[i].volume \in Int
         /\ \A i \in DOMAIN cs : Counted(p, i) => Number(m_Offer) = Before
<1>1. /\ FoldTypeOK /\ OffersInv /\ CandlesInv(p) /\ m_Offer \in Offered
  BY DEF VolumesInv, FoldTypeOK
<1>2. o \in Offered /\ o.minute \in Minute
  BY Turn
<1>3. cs \in Seq(Candle)
  BY <1>1 DEF FoldTypeOK
<1>4. next = Handle(p, cs, m_Offer, o) /\ exact' = exact
  BY DEF HandleOffer
<1>5. (\A i \in DOMAIN cs : Proper(cs[i])) /\ Ascending(cs)
  BY <1>1 DEF CandlesInv, ShapeInv
<1>6. Kept(cs, next)
  BY <1>1, <1>2, <1>3, <1>4, <1>5, OfferKeepsCandles
<1>7. Len(cs) \in Nat /\ DOMAIN cs = 1 .. Len(cs) /\ (cs # <<>> => Len(cs) \in DOMAIN cs)
  <2>1. \A s \in Seq(Candle) : Len(s) \in Nat /\ DOMAIN s = 1 .. Len(s) /\ (s # <<>> => Len(s) \in 1 .. Len(s))
    OBVIOUS
  <2> QED BY <1>3, <2>1
<1>8. StartOf(p, o.minute) \in Minute /\ StartOf(p, o.minute) <= o.minute /\ o.minute < StartOf(p, o.minute) + p
  BY <1>2, Starts, SideBySide
<1>9. \A i \in DOMAIN cs : cs[i].start \in Minute /\ cs[i].volume \in Int
  BY <1>5 DEF Proper, Candle
<1>10. \A i \in DOMAIN cs : Counted(p, i) => Number(m_Offer) = Before
  <2> TAKE i \in DOMAIN cs
  <2> HAVE Counted(p, i)
  <2>1. i > 1 => Len(cs) > 1
    BY <1>7
  <2> QED BY <1>1, <2>1 DEF OffersInv, Counted
<1> QED BY <1>3, <1>4, <1>6, <1>7, <1>8, <1>9, <1>10 DEF Kept

LEMMA SameBars ==
  ASSUME UNCHANGED bars
  PROVE  \A p \in Period, start \in Minute :
           /\ Traded(p, start)' = Traded(p, start) /\ FirstOf(p, start)' = FirstOf(p, start)
           /\ Bar(p, start)' = Bar(p, start)
<1>1. ASSUME NEW p \in Period, NEW start \in Minute
      PROVE  /\ Traded(p, start)' = Traded(p, start) /\ FirstOf(p, start)' = FirstOf(p, start)
             /\ Bar(p, start)' = Bar(p, start)
  <2>1. Traded(p, start)' = Traded(p, start)
    BY DEF Traded
  <2>2. FirstOf(p, start)' = FirstOf(p, start)
    BY <2>1 DEF FirstOf
  <2>3. Bar(p, start)' = Bar(p, start)
    BY <2>1 DEF Bar
  <2> QED BY <2>1, <2>2, <2>3
<1> QED BY <1>1

\* The last candle of a period begins at or after the new offer's: no tick is behind it.
LEMMA TurnReachInv ==
  ASSUME VolumesInv, HandleOffer, NEW o, o = Head(inHand), NEW p \in Period,
         NEW last \in Nat, m_Candles'[p][Len(m_Candles'[p])].start = last,
         StartOf(p, o.minute) <= last
  PROVE  ReachInv(p)'
<1>1. Number(o) = Before' /\ o.minute \in Minute /\ bars' = bars
  BY Turn DEF HandleOffer, serverVars
<1>2. p \in Nat /\ o.minute \in Nat /\ Minute \subseteq Nat
  BY <1>1, FoldAssumption DEF Minute
<1>3. StartOf(p, o.minute) \in Nat /\ o.minute < StartOf(p, o.minute) + p
  BY <1>1, <1>2, Starts, SideBySide
<1>4. ASSUME NEW m \in Minute, Opened(m), bars[m][1].first <= Number(o)  PROVE m < last + p
  <2>1. m <= o.minute /\ m \in Nat
    BY <1>2, <1>4, TurnReaches
  <2> QED BY <1>2, <1>3, <2>1
<1>5. ASSUME NEW m \in Minute, Opened(m)', bars'[m][1].first <= Before'  PROVE m < last + p
  BY <1>1, <1>4, <1>5 DEF Opened
<1> QED BY <1>5 DEF ReachInv

\* The first candle of a period: it counts for nothing.
LEMMA TurnFirst ==
  ASSUME VolumesInv, HandleOffer, NEW o, o = Head(inHand), NEW p \in Period,
         NEW cs, cs = m_Candles[p], cs = <<>>
  PROVE  CandlesInv(p)'
<1> DEFINE start == StartOf(p, o.minute)
<1>1. PICK next : next = m_Candles'[p]
  OBVIOUS
<1>2. /\ next \in Seq(Candle) /\ next = Handle(p, cs, m_Offer, o) /\ Kept(cs, next) /\ exact' = exact
      /\ start \in Minute
  BY <1>1, TurnKeeps
<1>3. next = <<NewCandle(start, o.price, o.volume)>>
  BY <1>2 DEF Handle
<1>4. Len(next) = 1 /\ DOMAIN next = {1} /\ next[1].start = start /\ next # <<>>
  BY <1>3 DEF NewCandle, FullCandle
<1>5. p \notin exact
  BY DEF VolumesInv, CandlesInv, ShapeInv
<1>6. ShapeInv(p)'
  <2>1. o.minute \in Minute
    BY Turn
  <2> QED BY <1>1, <1>2, <1>4, <2>1 DEF ShapeInv, Kept
<1>7. ReachInv(p)'
  <2>1. start \in Nat
    BY <1>2, FoldAssumption DEF Minute
  <2> QED BY <1>1, <1>4, <2>1, TurnReachInv
<1>8. InProgress(p)' /\ Finished(p)'
  BY <1>1, <1>2, <1>4, <1>5 DEF InProgress, Finished, Counted
<1> QED BY <1>6, <1>7, <1>8 DEF CandlesInv

\* The offer is in the last candle.
LEMMA TurnSame ==
  ASSUME VolumesInv, HandleOffer, NEW o, o = Head(inHand), NEW p \in Period,
         NEW cs, cs = m_Candles[p], cs # <<>>, cs[Len(cs)].start = StartOf(p, o.minute)
  PROVE  CandlesInv(p)'
<1> DEFINE start == StartOf(p, o.minute)
           n == Len(cs)
           last == cs[Len(cs)]
           c == Fold(last, m_Offer, o)
<1>1. PICK next : next = m_Candles'[p]
  OBVIOUS
<1>2. /\ cs \in Seq(Candle) /\ next \in Seq(Candle) /\ n \in Nat /\ DOMAIN cs = 1 .. n
      /\ next = Handle(p, cs, m_Offer, o) /\ Kept(cs, next) /\ exact' = exact
      /\ start \in Minute /\ n \in DOMAIN cs
      /\ \A i \in DOMAIN cs : cs[i].start \in Minute /\ cs[i].volume \in Int
      /\ \A i \in DOMAIN cs : Counted(p, i) => Number(m_Offer) = Before
  BY <1>1, TurnKeeps
<1>3. /\ FoldTypeOK /\ MarketInv /\ OffersInv /\ CandlesInv(p) /\ m_Offer \in Offered /\ IsOffer(m_Offer)
      /\ o \in Offered /\ IsOffer(o) /\ Number(o) = Before + 1
      /\ m_Offer.minute \in Minute /\ o.minute \in Minute /\ m_Offer.minute <= o.minute
      /\ m_Offer'.minute = o.minute /\ Number(m_Offer)' = Number(o) /\ bars' = bars /\ Before \in Int
  BY Turn, WaitingIs DEF VolumesInv, FoldTypeOK, OffersInv, HandleOffer, serverVars
<1>4. Proper(last) /\ Proper(c) /\ c.start = start
  <2>1. Proper(last)
    BY <1>2, <1>3 DEF CandlesInv, ShapeInv
  <2> QED BY <1>3, <2>1, FoldProper
<1>5. c.volume = Count(last, m_Offer, o)
  BY <1>4 DEF Fold, HighLow, Proper, Candle
<1>6. next = [cs EXCEPT ![n] = c]
  BY <1>2 DEF Handle
<1> HIDE DEF c
<1>7. /\ Len(next) = n /\ DOMAIN next = 1 .. n /\ next[n] = c
      /\ \A i \in 1 .. n : i # n => next[i] = cs[i]
  BY <1>2, <1>6
<1>8. \A i \in 1 .. n : next[i].start = cs[i].start
  BY <1>4, <1>7
<1>9. ShapeInv(p)'
  <2>1. \A i \in DOMAIN cs : \E m \in Minute : cs[i].start = StartOf(p, m)
    BY <1>3 DEF CandlesInv, ShapeInv
  <2>2. next # <<>>
    BY <1>2, <1>7
  <2> QED BY <1>1, <1>2, <1>7, <1>8, <2>1, <2>2 DEF ShapeInv, Kept
<1>10. ReachInv(p)'
  <2>1. start \in Nat /\ start <= start
    BY <1>2, FoldAssumption DEF Minute
  <2> QED BY <1>1, <1>4, <1>7, <2>1, TurnReachInv
<1>11. ASSUME Counted(p, n)  PROVE c.volume = Number(o) - FirstOf(p, start) + 1
  <2>1. /\ Number(m_Offer) = Before /\ start = StartOf(p, m_Offer.minute)
        /\ last.volume = Number(m_Offer) - FirstOf(p, start) + 1
    BY <1>2, <1>3, <1>11 DEF CandlesInv, InProgress
  <2>2. /\ m_Offer.volume \in Nat /\ o.volume \in Nat /\ m_Offer.minute \in Nat /\ o.minute \in Nat
        /\ bars[o.minute][1].first \in Nat /\ last.volume \in Int
    <3>1. m_Offer.minute \in Nat /\ o.minute \in Nat
      BY <1>3, FoldAssumption DEF Minute
    <3>2. Opened(o.minute)
      BY <1>3 DEF IsOffer
    <3> QED BY <1>2, <1>3, <3>1, <3>2, OpenedBar DEF Offered
  <2>3. FirstOf(p, start) \in Int
    <3> DEFINE M == Traded(p, start)
    <3>1. o.minute \in M /\ M \in SUBSET Minute /\ \A m \in M : Opened(m)
      <4>1. start <= o.minute /\ o.minute < start + p /\ Opened(o.minute)
        BY <1>3, SideBySide DEF IsOffer
      <4> QED BY <1>2, <1>3, <4>1, TradedIs
    <3>2. Earliest(M) \in M
      BY <3>1, EarliestLatest
    <3> QED BY <1>3, <3>1, <3>2, OpenedBar DEF FirstOf
  <2>4. CASE m_Offer.minute = o.minute
    <3>1. c.volume = (last.volume - m_Offer.volume) + o.volume
      BY <1>5, <2>4 DEF Count
    <3>2. /\ Number(o) = bars[o.minute][1].first + o.volume - 1
          /\ Number(m_Offer) = bars[o.minute][1].first + m_Offer.volume - 1
      BY <2>4 DEF Number
    <3>3. last.volume = (bars[o.minute][1].first + m_Offer.volume - 1) - FirstOf(p, start) + 1
      BY <2>1, <3>2, Zenon
    <3>4. c.volume = (((bars[o.minute][1].first + m_Offer.volume - 1) - FirstOf(p, start) + 1)
                         - m_Offer.volume) + o.volume
      BY <3>1, <3>3, Zenon
    <3>5. /\ bars[o.minute][1].first \in Int /\ FirstOf(p, start) \in Int
          /\ m_Offer.volume \in Int /\ o.volume \in Int
      BY <2>2, <2>3
    <3>6. c.volume = (bars[o.minute][1].first + o.volume - 1) - FirstOf(p, start) + 1
      <4>1. PICK first \in Int : first = bars[o.minute][1].first
        BY <3>5
      <4>2. PICK from \in Int : from = FirstOf(p, start)
        BY <3>5
      <4>3. PICK u \in Int, v \in Int : u = m_Offer.volume /\ v = o.volume
        BY <3>5
      <4>4. (((first + u - 1) - from + 1) - u) + v = (first + v - 1) - from + 1
        OBVIOUS
      <4> QED BY <3>4, <4>1, <4>2, <4>3, <4>4, Zenon
    <3> QED BY <3>2, <3>6, Zenon
  <2>5. CASE m_Offer.minute # o.minute
    <3>1. m_Offer.minute < o.minute /\ o.minute > m_Offer.minute
      BY <1>3, <2>2, <2>5
    <3>2. c.volume = last.volume + o.volume
      BY <1>5, <2>5, <3>1, Zenon DEF Count
    <3>3. o.volume = 1
      BY <2>1, <3>1, MinutesOver
    <3>4. \A last0, from \in Int : (last0 - from + 1) + 1 = (last0 + 1) - from + 1
      OBVIOUS
    <3>5. c.volume = (Before - FirstOf(p, start) + 1) + 1
      BY <2>1, <3>2, <3>3, Zenon
    <3>6. c.volume = (Before + 1) - FirstOf(p, start) + 1
      BY <1>3, <2>3, <3>4, <3>5, Zenon
    <3> QED BY <1>3, <3>6, Zenon
  <2> QED BY <2>4, <2>5
<1>12. InProgress(p)'
  <2>1. FirstOf(p, start)' = FirstOf(p, start)
    BY <1>2, <1>3, SameBars
  <2>2. ASSUME Counted(p, n)' PROVE /\ c.start = StartOf(p, m_Offer'.minute)
                                    /\ c.volume = Number(m_Offer)' - FirstOf(p, start)' + 1
    <3>1. Counted(p, n)
      BY <1>2, <2>2 DEF Counted
    <3> QED BY <1>3, <1>4, <1>11, <2>1, <3>1
  <2>3. Counted(p, Len(next))' => Counted(p, n)'
    BY <1>1, <1>7 DEF Counted
  <2> QED BY <1>1, <1>4, <1>7, <2>2, <2>3 DEF InProgress
<1>13. Finished(p)'
  <2>1. ASSUME NEW i \in 1 .. n - 1
        PROVE  /\ next[i].start + p <= next[n].start
               /\ Counted(p, i)' => Traded(p, next[i].start)' # {} /\ next[i].volume = (Bar(p, next[i].start)').volume
    <3>1. i \in 1 .. n /\ next[i] = cs[i] /\ cs[i].start \in Minute
      BY <1>2, <1>7
    <3>2. /\ cs[i].start + p <= last.start
          /\ Counted(p, i) => Traded(p, cs[i].start) # {} /\ cs[i].volume = Bar(p, cs[i].start).volume
      BY <1>3 DEF CandlesInv, Finished
    <3>3. Traded(p, next[i].start)' = Traded(p, next[i].start) /\ Bar(p, next[i].start)' = Bar(p, next[i].start)
      BY <1>3, <3>1, SameBars
    <3>4. Counted(p, i)' => Counted(p, i)
      BY <1>2 DEF Counted
    <3> QED BY <1>4, <1>7, <3>1, <3>2, <3>3, <3>4
  <2> HIDE DEF n
  <2> QED BY <1>1, <1>7, <2>1 DEF Finished
<1> QED BY <1>9, <1>10, <1>12, <1>13 DEF CandlesInv

\* The offer begins a candle: the one before it is complete.
LEMMA TurnNext ==
  ASSUME VolumesInv, HandleOffer, NEW o, o = Head(inHand), NEW p \in Period,
         NEW cs, cs = m_Candles[p], cs # <<>>, cs[Len(cs)].start < StartOf(p, o.minute)
  PROVE  CandlesInv(p)'
<1> DEFINE start == StartOf(p, o.minute)
           n == Len(cs)
           last == cs[Len(cs)]
           c == NextCandle(last, start, o)
<1>1. PICK next : next = m_Candles'[p]
  OBVIOUS
<1>2. /\ cs \in Seq(Candle) /\ next \in Seq(Candle) /\ n \in Nat /\ DOMAIN cs = 1 .. n
      /\ next = Handle(p, cs, m_Offer, o) /\ Kept(cs, next) /\ exact' = exact
      /\ start \in Minute /\ start <= o.minute /\ o.minute < start + p /\ n \in DOMAIN cs
      /\ \A i \in DOMAIN cs : cs[i].start \in Minute /\ cs[i].volume \in Int
      /\ \A i \in DOMAIN cs : Counted(p, i) => Number(m_Offer) = Before
  BY <1>1, TurnKeeps
<1>3. /\ FoldTypeOK /\ MarketInv /\ OffersInv /\ CandlesInv(p) /\ m_Offer \in Offered /\ IsOffer(m_Offer)
      /\ o \in Offered /\ IsOffer(o) /\ Number(o) = Before + 1
      /\ m_Offer.minute \in Minute /\ o.minute \in Minute /\ m_Offer.minute <= o.minute
      /\ m_Offer'.minute = o.minute /\ Number(m_Offer)' = Number(o) /\ bars' = bars /\ Before \in Int
  BY Turn, WaitingIs DEF VolumesInv, FoldTypeOK, OffersInv, HandleOffer, serverVars
<1>4. /\ p \in Nat /\ p > 0 /\ Minute \subseteq Nat /\ start \in Nat /\ last.start \in Nat
      /\ m_Offer.minute \in Nat /\ o.minute \in Nat
  BY <1>2, <1>3, FoldAssumption DEF Minute
<1>5. c.start = start /\ c.volume = o.volume
  <2>1. Proper(last)
    BY <1>2, <1>3 DEF CandlesInv, ShapeInv
  <2>2. c.start = start
    BY <1>2, <1>3, <2>1, NextProper
  <2>3. c.volume = o.volume
    BY DEF NextCandle, HighLow, NewCandle, FullCandle
  <2> QED BY <2>2, <2>3
<1>6. next = Append(cs, c)
  <2>1. last.start # start
    BY <1>4
  <2> QED BY <1>2, <2>1 DEF Handle
<1> HIDE DEF c
<1>7. /\ Len(next) = n + 1 /\ DOMAIN next = 1 .. n + 1 /\ next[n + 1] = c /\ next # <<>>
      /\ \A i \in 1 .. n : next[i] = cs[i]
  <2>1. DOMAIN next = 1 .. n + 1 /\ Len(next) = n + 1
    BY <1>2, <1>6
  <2>2. next[n + 1] = c /\ \A i \in 1 .. n : next[i] = cs[i]
    BY <1>2, <1>6
  <2> QED BY <1>2, <2>1, <2>2
<1>8. PICK m \in Minute : last.start = StartOf(p, m)
  BY <1>2, <1>3 DEF CandlesInv, ShapeInv
<1>9. last.start + p <= start
  BY <1>3, <1>8, SideBySide
<1>10. ShapeInv(p)'
  <2>1. \A i \in DOMAIN cs : \E k \in Minute : cs[i].start = StartOf(p, k)
    BY <1>3 DEF CandlesInv, ShapeInv
  <2>2. \A i \in DOMAIN next : i \in 1 .. n \/ i = n + 1
    BY <1>2, <1>7
  <2>3. \A i \in DOMAIN next : \E k \in Minute : next[i].start = StartOf(p, k)
    BY <1>2, <1>3, <1>5, <1>7, <2>1, <2>2
  <2> QED BY <1>1, <1>2, <1>7, <2>3 DEF ShapeInv, Kept
<1>11. ReachInv(p)'
  <2>1. start <= start
    BY <1>4
  <2> QED BY <1>1, <1>4, <1>5, <1>7, <2>1, TurnReachInv
<1>12. ASSUME NEW k \in Traded(p, start)  PROVE o.minute <= k
  <2>1. k \in Minute /\ start <= k /\ Opened(k) /\ k \in Nat
    BY <1>2, <1>4, TradedIs
  <2>2. ASSUME k < o.minute  PROVE FALSE
    <3>1. bars[k][1].last < Number(o)
      BY <1>3, <2>1, <2>2, NumberOrder
    <3>2. bars[k][1].first <= bars[k][1].last /\ bars[k][1].first \in Nat /\ bars[k][1].last \in Nat
      BY <1>3, <2>1, OpenedBar DEF MarketInv, WholeBar
    <3>3. bars[k][1].first <= Before
      BY <1>3, <3>1, <3>2
    <3>4. k < last.start + p
      BY <1>3, <2>1, <3>3 DEF CandlesInv, ReachInv
    <3> QED BY <1>4, <1>9, <2>1, <3>4
  <2> QED BY <1>4, <2>1, <2>2
<1>13. InProgress(p)'
  <2>1. o.minute \in Traded(p, start)
    BY <1>2, <1>3, TradedIs DEF IsOffer
  <2>2. FirstOf(p, start) = bars[o.minute][1].first
    BY <1>2, <1>12, <2>1, FirstTick
  <2>3. o.volume = Number(o) - FirstOf(p, start) + 1
    <3>1. PICK first \in Int : first = bars[o.minute][1].first
      BY <1>3, OpenedBar DEF IsOffer
    <3>2. PICK v \in Int : v = o.volume
      BY <1>3 DEF Offered
    <3>3. Number(o) = first + v - 1
      BY <3>1, <3>2 DEF Number
    <3>4. v = (first + v - 1) - first + 1
      OBVIOUS
    <3> QED BY <2>2, <3>1, <3>2, <3>3, <3>4, Zenon
  <2>4. FirstOf(p, start)' = FirstOf(p, start)
    BY <1>2, <1>3, SameBars
  <2>5. c.start = StartOf(p, m_Offer'.minute) /\ c.volume = Number(m_Offer)' - FirstOf(p, start)' + 1
    BY <1>3, <1>5, <2>3, <2>4
  <2> QED BY <1>1, <1>5, <1>7, <2>5 DEF InProgress
<1>14. ASSUME Counted(p, n)
       PROVE  Traded(p, last.start) # {} /\ last.volume = Bar(p, last.start).volume
  <2>1. /\ Number(m_Offer) = Before /\ last.start = StartOf(p, m_Offer.minute)
        /\ last.volume = Number(m_Offer) - FirstOf(p, last.start) + 1 /\ last.start \in Minute
    BY <1>2, <1>3, <1>14 DEF CandlesInv, InProgress
  <2>2. m_Offer.minute < o.minute
    <3>1. m_Offer.minute < last.start + p
      BY <1>3, <2>1, SideBySide
    <3> QED BY <1>2, <1>4, <1>9, <3>1
  <2>3. m_Offer.minute \in Traded(p, last.start)
    <3>1. last.start <= m_Offer.minute /\ m_Offer.minute < last.start + p
      BY <1>3, <2>1, SideBySide
    <3> QED BY <1>3, <2>1, <3>1, TradedIs DEF IsOffer
  <2>4. ASSUME NEW k \in Traded(p, last.start)  PROVE k <= m_Offer.minute
    <3>1. k \in Minute /\ k < last.start + p /\ Opened(k) /\ k \in Nat
      BY <1>4, <2>1, TradedIs
    <3>2. k < o.minute
      BY <1>2, <1>4, <1>9, <3>1
    <3> QED BY <2>1, <2>2, <3>1, <3>2, MinutesOver
  <2>5. Bar(p, last.start).volume = bars[m_Offer.minute][1].last - FirstOf(p, last.start) + 1
    BY <1>3, <2>1, <2>3, <2>4, LastTick
  <2>6. bars[m_Offer.minute][1].last = Number(m_Offer)
    BY <2>1, <2>2, MinutesOver
  <2> QED BY <2>1, <2>3, <2>5, <2>6
<1>15. Finished(p)'
  <2>1. ASSUME NEW i \in 1 .. n
        PROVE  /\ cs[i].start + p <= start /\ cs[i].start \in Minute
               /\ Counted(p, i) => Traded(p, cs[i].start) # {} /\ cs[i].volume = Bar(p, cs[i].start).volume
    <3>1. cs[i].start \in Minute /\ cs[i].start \in Nat
      BY <1>2, <1>4
    <3>2. CASE i = n
      BY <1>9, <1>14, <3>1, <3>2
    <3>3. CASE i # n
      <4>1. i \in 1 .. n - 1
        BY <1>2, <3>3
      <4>2. /\ cs[i].start + p <= last.start
            /\ Counted(p, i) => Traded(p, cs[i].start) # {} /\ cs[i].volume = Bar(p, cs[i].start).volume
        BY <1>3, <4>1 DEF CandlesInv, Finished
      <4>3. cs[i].start + p <= start
        BY <1>4, <3>1, <4>2
      <4> QED BY <3>1, <4>2, <4>3
    <3> QED BY <3>2, <3>3
  <2>2. ASSUME NEW i \in 1 .. n
        PROVE  /\ next[i].start + p <= next[n + 1].start
               /\ Counted(p, i)' => Traded(p, next[i].start)' # {} /\ next[i].volume = (Bar(p, next[i].start)').volume
    <3>1. next[i] = cs[i] /\ next[n + 1].start = start
      BY <1>5, <1>7
    <3>2. Traded(p, next[i].start)' = Traded(p, next[i].start) /\ Bar(p, next[i].start)' = Bar(p, next[i].start)
      BY <1>3, <2>1, <3>1, SameBars
    <3>3. Counted(p, i)' => Counted(p, i)
      BY <1>2 DEF Counted
    <3> QED BY <2>1, <3>1, <3>2, <3>3
  <2>3. 1 .. Len(next) - 1 = 1 .. n
    BY <1>2, <1>7
  <2> QED BY <1>1, <1>7, <2>2, <2>3 DEF Finished
<1> QED BY <1>10, <1>11, <1>13, <1>15 DEF CandlesInv

\* The offer is older than the last candle: that came with the history.
LEMMA TurnOlder ==
  ASSUME VolumesInv, HandleOffer, NEW o, o = Head(inHand), NEW p \in Period,
         NEW cs, cs = m_Candles[p], cs # <<>>, ~(cs[Len(cs)].start <= StartOf(p, o.minute))
  PROVE  CandlesInv(p)'
<1> DEFINE start == StartOf(p, o.minute)
           n == Len(cs)
           last == cs[Len(cs)]
<1>1. PICK next : next = m_Candles'[p]
  OBVIOUS
<1>2. /\ cs \in Seq(Candle) /\ n \in Nat /\ DOMAIN cs = 1 .. n
      /\ next = Handle(p, cs, m_Offer, o) /\ exact' = exact
      /\ start \in Minute /\ n \in DOMAIN cs
      /\ \A i \in DOMAIN cs : cs[i].start \in Minute
  BY <1>1, TurnKeeps
<1>3. CandlesInv(p) /\ m_Offer.minute \in Minute /\ o.minute \in Minute /\ m_Offer.minute <= o.minute
  BY Turn DEF VolumesInv
<1>4. start \in Nat /\ last.start \in Nat
  BY <1>2, FoldAssumption DEF Minute
<1>5. next = cs
  <2>1. last.start # start /\ ~(last.start < start)
    BY <1>4
  <2> QED BY <1>2, <2>1 DEF Handle
<1>6. ~Counted(p, n)
  <2>1. StartOf(p, m_Offer.minute) <= start
    BY <1>3, SideBySide
  <2>2. last.start # StartOf(p, m_Offer.minute)
    BY <2>1
  <2> QED BY <1>3, <2>2 DEF CandlesInv, InProgress
<1>7. n = 1
  <2>1. ~(n > 1) /\ n \in 1 .. n
    BY <1>2, <1>6 DEF Counted
  <2>2. \A k \in Nat : ~(k > 1) /\ k \in 1 .. k => k = 1
    OBVIOUS
  <2> QED BY <1>2, <2>1, <2>2, Zenon
<1>8. ShapeInv(p)'
  BY <1>1, <1>2, <1>3, <1>5 DEF CandlesInv, ShapeInv
<1>9. ReachInv(p)'
  <2>1. start <= last.start
    BY <1>4
  <2> QED BY <1>1, <1>4, <1>5, <2>1, TurnReachInv
<1>10. InProgress(p)' /\ Finished(p)'
  <2>1. Len(next) = 1 /\ p \notin exact' /\ 1 .. Len(next) - 1 = {}
    BY <1>2, <1>5, <1>6, <1>7 DEF Counted
  <2> QED BY <1>1, <2>1 DEF InProgress, Finished, Counted
<1> QED BY <1>8, <1>9, <1>10 DEF CandlesInv

LEMMA TurnCandles ==
  ASSUME VolumesInv, HandleOffer, NEW p \in Period
  PROVE  CandlesInv(p)'
<1>1. PICK o : o = Head(inHand)
  OBVIOUS
<1>2. PICK cs : cs = m_Candles[p]
  OBVIOUS
<1>3. CASE cs = <<>>
  BY <1>1, <1>2, <1>3, TurnFirst
<1>4. CASE cs # <<>>
  <2>1. cs[Len(cs)].start \in Minute /\ StartOf(p, o.minute) \in Minute
    <3>1. PICK next : next = m_Candles'[p]
      OBVIOUS
    <3> QED BY <1>1, <1>2, <1>4, <3>1, TurnKeeps
  <2>2. cs[Len(cs)].start \in Nat /\ StartOf(p, o.minute) \in Nat
    BY <2>1, FoldAssumption DEF Minute
  <2>3. CASE cs[Len(cs)].start = StartOf(p, o.minute)
    BY <1>1, <1>2, <1>4, <2>3, TurnSame
  <2>4. CASE cs[Len(cs)].start < StartOf(p, o.minute)
    BY <1>1, <1>2, <1>4, <2>4, TurnNext
  <2>5. CASE ~(cs[Len(cs)].start <= StartOf(p, o.minute))
    BY <1>1, <1>2, <1>4, <2>5, TurnOlder
  <2> QED BY <2>2, <2>3, <2>4, <2>5
<1> QED BY <1>3, <1>4

LEMMA TurnVolumes ==
  ASSUME VolumesInv, HandleOffer
  PROVE  VolumesInv'
<1>1. PICK o : o = Head(inHand)
  OBVIOUS
<1>2. /\ o \in Offered /\ IsOffer(o) /\ Number(o) = Before + 1
      /\ Waiting = inHand /\ Waiting' = Tail(inHand) /\ Tail(inHand) \in Seq(Offered)
      /\ Len(Tail(inHand)) = Len(inHand) - 1 /\ Before' = Before + 1
      /\ m_Offer' \in Offered /\ m_Offer'.minute = o.minute /\ m_Offer'.volume = o.volume
      /\ Number(m_Offer)' = Number(o)
  BY <1>1, Turn
<1>3. /\ FoldTypeOK /\ MarketInv /\ OffersInv /\ inHand # <<>> /\ inHand' = Tail(inHand)
      /\ bars' = bars /\ tick' = tick /\ ticks' = ticks /\ m_State' = m_State
      /\ m_Pending' = m_Pending /\ toLoad' = toLoad /\ exact' = exact
      /\ m_Candles' = [p \in Period |-> Handle(p, m_Candles[p], m_Offer, o)]
  BY <1>1 DEF VolumesInv, HandleOffer, serverVars
<1>4. m_State = "READY" /\ m_Pending = <<>>
  BY <1>3 DEF OffersInv
<1>5. FoldTypeOK'
  <2>1. \A p \in Period : m_Candles'[p] \in Seq(Candle)
    <3> TAKE p \in Period
    <3>1. PICK cs : cs = m_Candles[p]
      OBVIOUS
    <3>2. PICK next : next = m_Candles'[p]
      OBVIOUS
    <3> QED BY <1>1, <3>1, <3>2, TurnKeeps
  <2>2. m_Candles' \in [Period -> Seq(Candle)]
    BY <1>3, <2>1
  <2> QED BY <1>2, <1>3, <2>2 DEF FoldTypeOK
<1>6. MarketInv'
  BY <1>3 DEF MarketInv, Opened, Number
<1>7. \A x \in Offered : IsOffer(x) => IsOffer(x)' /\ Number(x)' = Number(x)
  BY <1>3 DEF IsOffer, Opened, Number
<1>8. OffersInv'
  <2>1. IsOffer(m_Offer)' /\ Number(m_Offer)' = Before'
    BY <1>2, <1>3 DEF IsOffer, Opened, Number
  <2>2. ASSUME NEW n \in 1 .. Len(Tail(inHand)), NEW x, x = Tail(inHand)[n]
        PROVE  IsOffer(x)' /\ Number(x)' = Before' + n
    <3>1. \A s \in Seq(Offered) : s # <<>> =>
            \A k \in 1 .. Len(Tail(s)) : Tail(s)[k] = s[k + 1] /\ k + 1 \in 1 .. Len(s) /\ s[k + 1] \in Offered
      OBVIOUS
    <3>2. inHand \in Seq(Offered)
      BY <1>3 DEF FoldTypeOK
    <3>3. x = inHand[n + 1] /\ n + 1 \in 1 .. Len(inHand) /\ x \in Offered
      BY <1>3, <2>2, <3>1, <3>2, Zenon
    <3>4. IsOffer(x) /\ Number(x) = Before + (n + 1)
      BY <1>2, <1>3, <3>3 DEF OffersInv
    <3>5. Before + (n + 1) = Before' + n
      <4>1. Before \in Int /\ n \in Int
        BY <1>3, WaitingIs
      <4> QED BY <1>2, <4>1
    <3> QED BY <1>7, <3>3, <3>4, <3>5
  <2>3. \A n \in 1 .. Len(Waiting') : IsOffer(Waiting[n])' /\ Number(Waiting[n])' = Before' + n
    <3>1. PICK ws : ws = Tail(inHand)
      OBVIOUS
    <3>2. \A n \in 1 .. Len(ws) : IsOffer(ws[n])' /\ Number(ws[n])' = Before' + n
      BY <2>2, <3>1
    <3> QED BY <1>2, <3>1, <3>2 DEF IsOffer, Opened, Number
  <2>4. Number(m_Offer)' <= Before'
    <3>1. Before' \in Int
      BY <1>5, WaitingIs, <1>2, <1>3
    <3> QED BY <2>1, <3>1
  <2> QED BY <1>3, <1>4, <2>1, <2>3, <2>4 DEF OffersInv
<1>9. \A p \in Period : CandlesInv(p)'
  BY TurnCandles
<1> QED BY <1>5, <1>6, <1>8, <1>9 DEF VolumesInv

-----------------------------------------------------------------------------
(* CandleFold: the load worker                                             *)

\* Nothing that the candles of a period are measured by changes.
LEMMA SameCandles ==
  ASSUME VolumesInv, NEW p \in Period, UNCHANGED <<bars, m_Offer>>, Before' = Before,
         m_Candles'[p] = m_Candles[p], p \in exact' <=> p \in exact
  PROVE  CandlesInv(p)'
<1>1. PICK cs : cs = m_Candles[p]
  OBVIOUS
<1>2. FoldTypeOK /\ CandlesInv(p) /\ cs = m_Candles'[p]
  BY <1>1 DEF VolumesInv
<1>3. \A i : Counted(p, i)' <=> Counted(p, i)
  BY DEF Counted
<1>4. ShapeInv(p)'
  BY <1>1, <1>2 DEF CandlesInv, ShapeInv
<1>5. ReachInv(p)'
  BY <1>1, <1>2 DEF CandlesInv, ReachInv, Opened
<1>6. \A i \in DOMAIN cs : cs[i].start \in Minute
  BY <1>1, <1>2 DEF CandlesInv, ShapeInv, Proper, Candle
<1>7. cs \in Seq(Candle) /\ Len(cs) \in Nat /\ DOMAIN cs = 1 .. Len(cs) /\ (cs # <<>> => Len(cs) \in DOMAIN cs)
  <2>1. cs \in Seq(Candle)
    BY <1>1, <1>2 DEF FoldTypeOK
  <2>2. \A s \in Seq(Candle) : Len(s) \in Nat /\ DOMAIN s = 1 .. Len(s) /\ (s # <<>> => Len(s) \in 1 .. Len(s))
    OBVIOUS
  <2> QED BY <2>1, <2>2
<1>8. InProgress(p)'
  <2>1. ASSUME cs # <<>>, Counted(p, Len(cs))
        PROVE  /\ cs[Len(cs)].start = StartOf(p, m_Offer'.minute)
               /\ cs[Len(cs)].volume = Number(m_Offer)' - FirstOf(p, cs[Len(cs)].start)' + 1
    <3>1. /\ cs[Len(cs)].start = StartOf(p, m_Offer.minute)
          /\ cs[Len(cs)].volume = Number(m_Offer) - FirstOf(p, cs[Len(cs)].start) + 1
      BY <1>1, <1>2, <2>1 DEF CandlesInv, InProgress
    <3>2. FirstOf(p, cs[Len(cs)].start)' = FirstOf(p, cs[Len(cs)].start)
      BY <1>6, <1>7, <2>1, SameBars
    <3>3. Number(m_Offer)' = Number(m_Offer)
      BY DEF Number
    <3> QED BY <3>1, <3>2, <3>3
  <2> QED BY <1>2, <1>3, <2>1 DEF InProgress
<1>9. Finished(p)'
  <2>1. ASSUME NEW i \in 1 .. Len(cs) - 1
        PROVE  /\ cs[i].start + p <= cs[Len(cs)].start
               /\ Counted(p, i) => Traded(p, cs[i].start)' # {} /\ cs[i].volume = (Bar(p, cs[i].start)').volume
    <3>1. i \in DOMAIN cs /\ cs[i].start \in Minute
      BY <1>6, <1>7
    <3>2. Traded(p, cs[i].start)' = Traded(p, cs[i].start) /\ Bar(p, cs[i].start)' = Bar(p, cs[i].start)
      BY <3>1, SameBars
    <3> QED BY <1>1, <1>2, <3>2 DEF CandlesInv, Finished
  <2> QED BY <1>2, <1>3, <2>1 DEF Finished
<1> QED BY <1>4, <1>5, <1>8, <1>9 DEF CandlesInv

LEMMA NoCandles ==
  ASSUME NEW p \in Period, m_Candles[p] = <<>>, p \notin exact
  PROVE  CandlesInv(p)
BY DEF CandlesInv, ShapeInv, ReachInv, InProgress, Finished, Counted, Ascending

LEMMA SameWaiting ==
  ASSUME UNCHANGED <<ticks, m_Pending, inHand>>
  PROVE  Waiting' = Waiting /\ Before' = Before
<1>1. Waiting' = Waiting
  BY DEF Waiting
<1> QED BY <1>1 DEF Before

LEMMA SameOffers ==
  ASSUME FoldTypeOK, OffersInv, UNCHANGED <<bars, ticks, m_Pending, inHand>>
  PROVE  \A n \in 1 .. Len(Waiting') : IsOffer(Waiting[n])' /\ Number(Waiting[n])' = Before' + n
<1>1. Waiting' = Waiting /\ Before' = Before
  BY SameWaiting
<1>2. \A n \in 1 .. Len(Waiting) : IsOffer(Waiting[n]) /\ Number(Waiting[n]) = Before + n
  BY DEF OffersInv
<1> QED BY <1>1, <1>2 DEF IsOffer, Opened, Number

\* The candle of the history is that of the newest tick.
LEMMA HistoryCandle ==
  ASSUME VolumesInv, NEW q \in Period, NEW start, start = StartOf(q, tick.minute)
  PROVE  /\ start \in Minute /\ tick.minute \in Minute /\ start <= tick.minute /\ tick.minute < start + q
         /\ Proper(Bar(q, start)) /\ Bar(q, start).start = start
         /\ Bar(q, start).volume = ticks - FirstOf(q, start) + 1
<1>1. FoldTypeOK /\ MarketInv /\ tick.minute \in Minute /\ Opened(tick.minute)
  BY DEF VolumesInv, FoldTypeOK, MarketInv, Offered
<1>2. start \in Minute /\ start <= tick.minute /\ tick.minute < start + q
  BY <1>1, Starts, SideBySide
<1>3. tick.minute \in Traded(q, start)
  BY <1>1, <1>2, TradedIs
<1>4. \A m \in Traded(q, start) : m <= tick.minute
  BY <1>1, <1>2, TradedIs DEF MarketInv
<1>5. Bar(q, start).volume = bars[tick.minute][1].last - FirstOf(q, start) + 1
  BY <1>1, <1>2, <1>3, <1>4, LastTick
<1>6. bars[tick.minute][1].last = ticks
  BY <1>1 DEF MarketInv
<1>7. Proper(Bar(q, start)) /\ Bar(q, start).start = start
  BY <1>1, <1>2, <1>3, BarIs
<1> QED BY <1>1, <1>2, <1>5, <1>6, <1>7

LEMMA HistoryVolumes ==
  ASSUME VolumesInv, NEW q \in Period, LoadHistory(q)
  PROVE  VolumesInv'
<1>1. PICK start : start = StartOf(q, tick.minute)
  OBVIOUS
<1>2. PICK c : c = Bar(q, start)
  OBVIOUS
<1>3. /\ FoldTypeOK /\ MarketInv /\ OffersInv /\ \A p \in Period : CandlesInv(p)
      /\ m_State = "FILLED" /\ q \in toLoad /\ toLoad' = toLoad \ {q} /\ bars' = bars /\ tick' = tick
      /\ ticks' = ticks /\ m_State' = m_State /\ m_Offer' = m_Offer
      /\ m_Pending' = m_Pending /\ inHand' = inHand
  BY DEF VolumesInv, LoadHistory, serverVars
<1>4. q \notin exact /\ inHand = <<>>
  BY <1>3 DEF OffersInv
<1>5. /\ start \in Minute /\ tick.minute \in Minute /\ start <= tick.minute /\ tick.minute < start + q
      /\ Proper(c) /\ c.start = start /\ c.volume = ticks - FirstOf(q, start) + 1
  BY <1>1, <1>2, HistoryCandle
<1>6. Waiting' = Waiting /\ Before' = Before /\ Before \in Int /\ Len(Waiting) \in Nat
  BY <1>3, SameWaiting, WaitingIs
<1>7. /\ MarketInv' /\ IsOffer(m_Offer)' /\ Number(m_Offer)' = Number(m_Offer) /\ Number(m_Offer) <= Before
      /\ \A n \in 1 .. Len(Waiting') : IsOffer(Waiting[n])' /\ Number(Waiting[n])' = Before' + n
  <2>1. MarketInv' /\ IsOffer(m_Offer)' /\ Number(m_Offer)' = Number(m_Offer)
    BY <1>3 DEF MarketInv, OffersInv, IsOffer, Opened, Number
  <2> QED BY <1>3, <2>1, SameOffers DEF OffersInv
<1>8. CASE UNCHANGED <<m_Candles, exact>>
  <2>1. FoldTypeOK'
    BY <1>3, <1>8 DEF FoldTypeOK
  <2>2. OffersInv'
    BY <1>3, <1>6, <1>7, <1>8 DEF OffersInv
  <2>3. ASSUME NEW p \in Period  PROVE CandlesInv(p)'
    BY <1>3, <1>6, <1>8, SameCandles
  <2> QED BY <1>7, <2>1, <2>2, <2>3 DEF VolumesInv
<1>9. CASE /\ m_Candles' = [m_Candles EXCEPT ![q] = <<c>>]
           /\ exact' = IF m_Offer = tick THEN exact \cup {q} ELSE exact
  <2>1. c \in Candle /\ <<c>> \in Seq(Candle) /\ Len(<<c>>) = 1 /\ DOMAIN <<c>> = {1} /\ <<c>>[1] = c /\ <<c>> # <<>>
    <3>1. c \in Candle
      BY <1>5 DEF Proper
    <3> QED BY <3>1
  <2>2. m_Candles \in [Period -> Seq(Candle)] /\ exact \subseteq Period
    BY <1>3 DEF FoldTypeOK
  <2>3. m_Candles'[q] = <<c>> /\ \A p \in Period : p # q => m_Candles'[p] = m_Candles[p]
    BY <1>9, <2>2
  <2>4. exact' \subseteq Period /\ \A p \in Period : p # q => (p \in exact' <=> p \in exact)
    BY <1>9, <2>2
  <2>5. m_Offer = tick => Number(m_Offer) = ticks /\ Number(m_Offer) = Before
    <3>1. ASSUME m_Offer = tick  PROVE Number(m_Offer) = ticks
      BY <1>3, <3>1 DEF MarketInv
    <3>2. Before = ticks - Len(Waiting) /\ ticks \in Nat
      BY <1>3 DEF Before, FoldTypeOK
    <3> QED BY <1>6, <1>7, <3>1, <3>2
  <2>6. FoldTypeOK'
    <3>1. m_Candles' \in [Period -> Seq(Candle)]
      BY <1>9, <2>1, <2>2
    <3> QED BY <1>3, <2>4, <3>1 DEF FoldTypeOK
  <2>7. OffersInv'
    <3>1. exact' \cap toLoad' = {}
      BY <1>3, <1>9 DEF OffersInv
    <3>2. ASSUME NEW p \in Period, p \in exact' \/ Len(m_Candles'[p]) > 1  PROVE Number(m_Offer) = Before
      <4>1. CASE p # q
        BY <1>3, <2>3, <2>4, <3>2, <4>1 DEF OffersInv
      <4>2. CASE p = q
        <5>1. ~(Len(m_Candles'[p]) > 1)
          <6>1. Len(m_Candles'[p]) = 1
            BY <2>1, <2>3, <4>2, Zenon
          <6> QED BY <6>1
        <5>2. m_Offer = tick
          BY <1>4, <1>9, <3>2, <4>2, <5>1
        <5> QED BY <2>5, <5>2
      <4> QED BY <4>1, <4>2
    <3>3. (\E p \in Period : p \in exact' \/ Len(m_Candles'[p]) > 1) => Number(m_Offer)' = Before'
      BY <1>6, <1>7, <3>2
    <3> QED BY <1>3, <1>6, <1>7, <3>1, <3>3 DEF OffersInv
  <2>8. ASSUME NEW p \in Period, p # q  PROVE CandlesInv(p)'
    BY <1>3, <1>6, <2>3, <2>4, <2>8, SameCandles
  <2>9. CandlesInv(q)'
    <3>1. ShapeInv(q)'
      <4>1. Ascending(<<c>>)
        BY <2>1 DEF Ascending
      <4>2. Proper(<<c>>[1]) /\ <<c>>[1].start = StartOf(q, tick.minute)
        BY <1>5, <1>1, <2>1
      <4> QED BY <1>5, <2>1, <2>3, <4>1, <4>2 DEF ShapeInv
    <3>2. ReachInv(q)'
      <4>1. ASSUME NEW m \in Minute, Opened(m)  PROVE m < c.start + q
        <5>1. m <= tick.minute
          BY <1>3, <4>1 DEF MarketInv
        <5>2. m \in Nat /\ tick.minute \in Nat /\ start \in Nat /\ q \in Nat
          BY <1>5, FoldAssumption DEF Minute
        <5> QED BY <1>5, <5>1, <5>2
      <4> QED BY <1>3, <2>1, <2>3, <4>1 DEF ReachInv, Opened
    <3>3. InProgress(q)'
      <4>1. ASSUME q \in exact'
            PROVE  /\ c.start = StartOf(q, m_Offer'.minute)
                   /\ c.volume = Number(m_Offer)' - FirstOf(q, c.start)' + 1
        <5>1. m_Offer = tick
          BY <1>4, <1>9, <4>1
        <5>2. c.start = StartOf(q, m_Offer'.minute)
          BY <1>3, <1>5, <1>1, <5>1
        <5>3. FirstOf(q, c.start)' = FirstOf(q, c.start)
          BY <1>3, <1>5, SameBars
        <5> QED BY <1>5, <1>7, <2>5, <5>1, <5>2, <5>3
      <4>2. Counted(q, 1)' => q \in exact'
        BY DEF Counted
      <4> QED BY <2>1, <2>3, <4>1, <4>2 DEF InProgress, Counted
    <3>4. Finished(q)'
      <4>1. 1 .. Len(<<c>>) - 1 = {}
        BY <2>1
      <4> QED BY <2>3, <4>1 DEF Finished
    <3> QED BY <3>1, <3>2, <3>3, <3>4 DEF CandlesInv
  <2> QED BY <1>7, <2>6, <2>7, <2>8, <2>9 DEF VolumesInv
<1> QED BY <1>8, <1>9, <1>1, <1>2 DEF LoadHistory

\* The steps that only change the state, and the reading of the offer.
LEMMA WorkerVolumes ==
  ASSUME VolumesInv, Filled \/ Ready
  PROVE  VolumesInv'
<1>1. /\ FoldTypeOK /\ MarketInv /\ OffersInv /\ \A p \in Period : CandlesInv(p)
      /\ m_State \in {"UNFILL", "FILLED"} /\ m_State' \in {"FILLED", "READY"}
      /\ bars' = bars /\ tick' = tick /\ ticks' = ticks /\ m_Offer' = m_Offer
      /\ m_Pending' = m_Pending /\ inHand' = inHand /\ m_Candles' = m_Candles /\ toLoad' = toLoad
      /\ exact' = exact
  BY DEF VolumesInv, Filled, Ready, serverVars
<1>2. Waiting' = Waiting /\ Before' = Before
  BY <1>1, SameWaiting
<1>3. inHand = <<>>
  BY <1>1 DEF OffersInv
<1>4. FoldTypeOK'
  BY <1>1 DEF FoldTypeOK
<1>5. MarketInv' /\ IsOffer(m_Offer)' /\ Number(m_Offer)' = Number(m_Offer)
  BY <1>1 DEF MarketInv, OffersInv, IsOffer, Opened, Number
<1>6. OffersInv'
  BY <1>1, <1>2, <1>3, <1>5, SameOffers DEF OffersInv
<1>7. ASSUME NEW p \in Period  PROVE CandlesInv(p)'
  BY <1>1, <1>2, SameCandles
<1> QED BY <1>4, <1>5, <1>6, <1>7 DEF VolumesInv

LEMMA ReadVolumes ==
  ASSUME VolumesInv, ReadOffer
  PROVE  VolumesInv'
<1>1. /\ FoldTypeOK /\ MarketInv /\ OffersInv
      /\ m_State = "UNFILL" /\ m_State' = m_State
      /\ bars' = bars /\ tick' = tick /\ ticks' = ticks /\ m_Offer' = tick
      /\ m_Pending' = m_Pending /\ inHand' = inHand /\ m_Candles' = m_Candles /\ toLoad' = toLoad
      /\ exact' = exact
  BY DEF VolumesInv, ReadOffer, serverVars
<1>2. m_Pending = <<>> /\ inHand = <<>> /\ exact = {} /\ \A p \in Period : m_Candles[p] = <<>>
  BY <1>1 DEF OffersInv
<1>3. Waiting' = <<>> /\ Before' = ticks /\ ticks \in Nat
  <2>1. Waiting' = <<>>
    BY <1>1, <1>2 DEF Waiting
  <2>2. Len(<<>>) = 0 /\ ticks \in Nat
    BY <1>1 DEF FoldTypeOK
  <2> QED BY <1>1, <2>1, <2>2 DEF Before
<1>4. FoldTypeOK'
  BY <1>1 DEF FoldTypeOK
<1>5. MarketInv'
  BY <1>1 DEF MarketInv, Opened, Number
<1>6. IsOffer(m_Offer)' /\ Number(m_Offer)' = Before'
  <2>1. IsOffer(tick) /\ Number(tick) = ticks
    <3>1. Opened(tick.minute) /\ tick.volume >= 1 /\ Number(tick) = ticks /\ bars[tick.minute][1].last = ticks
      BY <1>1 DEF MarketInv
    <3> QED BY <1>3, <3>1 DEF IsOffer
  <2> QED BY <1>1, <1>3, <2>1 DEF IsOffer, Opened, Number
<1>7. OffersInv'
  <2>1. Number(m_Offer)' <= Before'
    BY <1>3, <1>6
  <2>2. \A n \in 1 .. Len(Waiting') : FALSE
    BY <1>3
  <2> QED BY <1>1, <1>2, <1>6, <2>1, <2>2 DEF OffersInv
<1>8. ASSUME NEW p \in Period  PROVE CandlesInv(p)'
  <2>1. m_Candles'[p] = <<>> /\ p \notin exact'
    BY <1>1, <1>2
  <2> QED BY <2>1 DEF CandlesInv, ShapeInv, ReachInv, InProgress, Finished, Counted, Ascending
<1> QED BY <1>4, <1>5, <1>7, <1>8 DEF VolumesInv

-----------------------------------------------------------------------------
(* CandleFold: a tick of the market                                        *)

\* The bar of a minute takes one more price.
LEMMA BarGrows ==
  ASSUME NEW b, WholeBar(b), NEW price \in Price, NEW t \in Nat, b.last <= t,
         NEW high, high = IF b.high < price THEN price ELSE b.high,
         NEW low, low = IF b.low > price THEN price ELSE b.low,
         NEW d, d = [open |-> b.open, high |-> high, low |-> low, close |-> price,
                     first |-> b.first, last |-> t]
  PROVE  WholeBar(d) /\ d.first = b.first /\ d.last = t
<1>1. /\ b \in MinuteBar /\ b.low <= b.open /\ b.open <= b.high
      /\ 1 <= b.first /\ b.first <= b.last
  BY DEF WholeBar
<1>2. /\ price \in Nat /\ b.open \in Nat /\ b.high \in Nat /\ b.low \in Nat
      /\ b.first \in Nat /\ b.last \in Nat
  BY <1>1, FoldAssumption DEF MinuteBar
<1>3. high \in Price /\ low \in Price /\ b.open \in Price
  BY <1>1 DEF MinuteBar
<1>4. /\ b.high <= high /\ price <= high /\ low <= b.low /\ low <= price
      /\ high \in Nat /\ low \in Nat
  BY <1>2
<1>5. d \in MinuteBar
  BY <1>2, <1>3 DEF MinuteBar
<1>6. /\ d.open = b.open /\ d.high = high /\ d.low = low /\ d.close = price /\ d.first = b.first
      /\ d.last = t
  OBVIOUS
<1> QED BY <1>1, <1>2, <1>4, <1>5, <1>6 DEF WholeBar

\* What a tick does at the server.
LEMMA TickBars ==
  ASSUME VolumesInv, NEW minute \in Minute, NEW price \in Price, NEW given \in BOOLEAN,
         Tick(minute, price, given)
  PROVE  /\ bars' \in [Minute -> Seq(MinuteBar)] /\ \A m \in Minute : Len(bars'[m]) <= 1
         /\ \A m \in Minute : m # minute => bars'[m] = bars[m]
         /\ Opened(minute)' /\ WholeBar(bars'[minute][1]) /\ bars'[minute][1].last = ticks + 1
         /\ Opened(minute) =>
              minute = tick.minute /\ bars'[minute][1].first = bars[minute][1].first
         /\ ~Opened(minute) => tick.minute < minute /\ bars'[minute][1].first = ticks + 1
         /\ ticks' = ticks + 1 /\ tick.minute <= minute
         /\ tick' \in Offered /\ tick'.price \in Price /\ tick'.minute = minute /\ tick'.volume >= 1
         /\ bars'[minute][1].first + tick'.volume - 1 = ticks + 1
<1>1. FoldTypeOK /\ MarketInv /\ ticks \in Nat /\ tick \in Offered /\ bars \in [Minute -> Seq(MinuteBar)]
  BY DEF VolumesInv, FoldTypeOK
<1>2. PICK volume : volume = IF minute = tick.minute THEN tick.volume + 1 ELSE 1
  OBVIOUS
<1>3. PICK b : b = IF bars[minute] = <<>>
           THEN [open |-> price, high |-> price, low |-> price, close |-> price,
                 first |-> ticks + 1, last |-> ticks + 1]
           ELSE HighLow([bars[minute][1] EXCEPT !.close = price, !.last = ticks + 1], price)
  OBVIOUS
<1>4. /\ minute >= tick.minute /\ ticks' = ticks + 1
      /\ tick' = [minute |-> minute, price |-> price, volume |-> volume]
      /\ bars' = [bars EXCEPT ![minute] = <<b>>]
  BY <1>2, <1>3 DEF Tick
<1>5. tick.minute \in Nat /\ minute \in Nat /\ tick.volume \in Nat /\ tick.minute \in Minute
  BY <1>1, FoldAssumption DEF Offered, Minute
<1>6. volume \in Nat /\ volume >= 1
  BY <1>2, <1>5
<1>7. Opened(tick.minute) /\ bars[tick.minute][1].last = ticks /\ Number(tick) = ticks
  BY <1>1 DEF MarketInv
<1>8. Opened(minute) => minute = tick.minute
  <2>1. Opened(minute) => minute <= tick.minute
    BY <1>1 DEF MarketInv
  <2> QED BY <1>4, <1>5, <2>1
<1>9. ~Opened(minute) => tick.minute < minute
  <2>1. ~Opened(minute) => tick.minute # minute
    BY <1>7
  <2> QED BY <1>4, <1>5, <2>1
<1>10. WholeBar(b) /\ b.last = ticks + 1 /\ (Opened(minute) => b.first = bars[minute][1].first)
       /\ (~Opened(minute) => b.first = ticks + 1)
  <2>1. CASE Opened(minute)
    <3>1. PICK a : a = bars[minute][1]
      OBVIOUS
    <3>2. PICK t \in Nat : t = ticks + 1
      BY <1>1
    <3>3. WholeBar(a) /\ a.last <= t
      <4>1. WholeBar(a) /\ a.last = ticks
        BY <1>1, <1>7, <1>8, <2>1, <3>1 DEF MarketInv
      <4> QED BY <1>1, <3>2, <4>1
    <3>4. PICK high : high = IF a.high < price THEN price ELSE a.high
      OBVIOUS
    <3>5. PICK low : low = IF a.low > price THEN price ELSE a.low
      OBVIOUS
    <3>6. b = [open |-> a.open, high |-> high, low |-> low, close |-> price,
               first |-> a.first, last |-> t]
      <4>1. b = HighLow([a EXCEPT !.close = price, !.last = t], price)
        BY <1>3, <2>1, <3>1, <3>2 DEF Opened
      <4> QED BY <3>3, <3>4, <3>5, <4>1 DEF HighLow, WholeBar, MinuteBar
    <3>7. WholeBar(b) /\ b.first = a.first /\ b.last = t
      BY <3>3, <3>4, <3>5, <3>6, BarGrows
    <3> QED BY <2>1, <3>1, <3>2, <3>7
  <2>2. CASE ~Opened(minute)
    <3>1. b = [open |-> price, high |-> price, low |-> price, close |-> price,
               first |-> ticks + 1, last |-> ticks + 1]
      BY <1>3, <2>2 DEF Opened
    <3>2. price \in Nat /\ ticks + 1 \in Nat
      BY <1>1, FoldAssumption
    <3>3. /\ b.open = price /\ b.high = price /\ b.low = price /\ b.close = price
          /\ b.first = ticks + 1 /\ b.last = ticks + 1
      BY <3>1
    <3>4. b \in MinuteBar
      BY <3>1, <3>2 DEF MinuteBar
    <3>5. 1 <= ticks + 1 /\ ticks + 1 <= ticks + 1 /\ price <= price
      BY <1>1, <3>2
    <3> QED BY <2>2, <3>3, <3>4, <3>5 DEF WholeBar
  <2> QED BY <2>1, <2>2
<1>11. b \in MinuteBar /\ <<b>> \in Seq(MinuteBar) /\ Len(<<b>>) = 1 /\ <<b>>[1] = b /\ <<b>> # <<>>
  <2>1. b \in MinuteBar
    BY <1>10 DEF WholeBar
  <2> QED BY <2>1
<1>12. bars'[minute] = <<b>> /\ \A m \in Minute : m # minute => bars'[m] = bars[m]
  BY <1>1, <1>4
<1>13. bars' \in [Minute -> Seq(MinuteBar)]
  BY <1>1, <1>4, <1>11
<1>14. \A m \in Minute : Len(bars'[m]) <= 1
  <2> TAKE m \in Minute
  <2>1. CASE m = minute
    <3>1. Len(bars'[m]) = 1
      BY <1>11, <1>12, <2>1, Zenon
    <3> QED BY <3>1
  <2>2. CASE m # minute
    BY <1>1, <1>12, <2>2 DEF FoldTypeOK
  <2> QED BY <2>1, <2>2
<1>15. tick' \in Offered /\ tick'.price \in Price /\ tick'.minute = minute /\ tick'.volume = volume
  BY <1>4, <1>6 DEF Offered
<1>16. bars'[minute][1] = b /\ bars'[minute] # <<>>
  BY <1>11, <1>12, Zenon
<1>17. b.first + volume - 1 = ticks + 1
  <2>1. CASE Opened(minute)
    <3>1. bars[minute][1].first + tick.volume - 1 = ticks /\ b.first = bars[minute][1].first
      BY <1>7, <1>8, <1>10, <2>1 DEF Number
    <3>2. volume = tick.volume + 1
      BY <1>2, <1>8, <2>1
    <3>3. b.first \in Nat
      BY <1>11 DEF MinuteBar
    <3> QED BY <1>1, <1>5, <3>1, <3>2, <3>3
  <2>2. CASE ~Opened(minute)
    <3>1. volume = 1
      BY <1>2, <1>5, <1>9, <2>2
    <3> QED BY <1>1, <1>10, <2>2, <3>1
  <2> QED BY <2>1, <2>2
<1>18. Opened(minute)'
  BY <1>16 DEF Opened
<1>19. tick.minute <= minute
  BY <1>4, <1>5
<1> QED
  BY <1>4, <1>6, <1>8, <1>9, <1>10, <1>12, <1>13, <1>14, <1>15, <1>16, <1>17, <1>18, <1>19

\* Every minute and every offer before keeps its numbers.
LEMMA TickKeeps ==
  ASSUME VolumesInv, NEW minute \in Minute, NEW price \in Price, NEW given \in BOOLEAN,
         Tick(minute, price, given)
  PROVE  /\ \A m \in Minute : Opened(m) => /\ Opened(m)' /\ bars'[m][1].first = bars[m][1].first
                                           /\ bars[m][1].last <= bars'[m][1].last
                                           /\ bars[m][1].last <= ticks
         /\ \A o \in Offered : IsOffer(o) => IsOffer(o)' /\ Number(o)' = Number(o)
<1>1. FoldTypeOK /\ MarketInv /\ ticks \in Nat /\ tick.minute \in Minute
  BY DEF VolumesInv, FoldTypeOK, Offered
<1>2. /\ \A m \in Minute : m # minute => bars'[m] = bars[m]
      /\ Opened(minute)' /\ WholeBar(bars'[minute][1]) /\ bars'[minute][1].last = ticks + 1
      /\ Opened(minute) => minute = tick.minute /\ bars'[minute][1].first = bars[minute][1].first
  BY TickBars
<1>3. ASSUME NEW m \in Minute, Opened(m)  PROVE bars[m][1].last <= ticks /\ bars[m][1].last \in Nat
  <2>1. m <= tick.minute /\ Opened(tick.minute) /\ bars[tick.minute][1].last = ticks
    BY <1>1, <1>3 DEF MarketInv
  <2>2. bars[m][1].last \in Nat /\ bars[tick.minute][1].first \in Nat
    BY <1>1, <1>3, <2>1, OpenedBar
  <2>3. CASE m = tick.minute
    BY <2>1, <2>2, <2>3
  <2>4. CASE m # tick.minute
    <3>1. m < tick.minute
      BY <1>1, <2>1, <2>4, FoldAssumption DEF Minute
    <3>2. bars[m][1].last < bars[tick.minute][1].first
      BY <1>1, <1>3, <2>1, <3>1 DEF MarketInv
    <3>3. bars[tick.minute][1].first <= ticks
      BY <1>1, <2>1 DEF MarketInv, WholeBar
    <3> QED BY <1>1, <2>2, <3>2, <3>3
  <2> QED BY <2>3, <2>4
<1>4. ASSUME NEW m \in Minute, Opened(m)
      PROVE  /\ Opened(m)' /\ bars'[m][1].first = bars[m][1].first
             /\ bars[m][1].last <= bars'[m][1].last
  <2>1. bars[m][1].last <= ticks /\ bars[m][1].last \in Nat
    BY <1>3, <1>4
  <2>2. CASE m = minute
    BY <1>1, <1>2, <1>4, <2>1, <2>2
  <2>3. CASE m # minute
    <3>1. bars'[m] = bars[m]
      BY <1>2, <2>3
    <3> QED BY <1>4, <2>1, <3>1 DEF Opened
  <2> QED BY <2>2, <2>3
<1>5. ASSUME NEW o \in Offered, IsOffer(o)  PROVE IsOffer(o)' /\ Number(o)' = Number(o)
  <2>1. o.minute \in Minute /\ Opened(o.minute) /\ o.volume >= 1
    BY <1>5 DEF Offered, IsOffer
  <2>2. Opened(o.minute)' /\ bars'[o.minute][1].first = bars[o.minute][1].first
        /\ bars[o.minute][1].last <= bars'[o.minute][1].last
    BY <1>4, <2>1
  <2>3. Number(o)' = Number(o)
    BY <2>2 DEF Number
  <2>4. Number(o) <= bars'[o.minute][1].last
    <3>1. Number(o) <= bars[o.minute][1].last /\ Number(o) \in Nat
      BY <1>1, <1>5, NumberOrder
    <3>2. bars[o.minute][1].last \in Nat
      BY <1>3, <2>1
    <3>3. bars'[o.minute][1].last \in Nat
      BY <1>1, <1>2, <1>3, <2>1
    <3> QED BY <2>2, <3>1, <3>2, <3>3
  <2> QED BY <2>1, <2>2, <2>3, <2>4 DEF IsOffer
<1> QED BY <1>3, <1>4, <1>5

LEMMA TickMarket ==
  ASSUME VolumesInv, NEW minute \in Minute, NEW price \in Price, NEW given \in BOOLEAN,
         Tick(minute, price, given)
  PROVE  MarketInv'
<1>1. FoldTypeOK /\ MarketInv /\ ticks \in Nat /\ tick.minute \in Minute
  BY DEF VolumesInv, FoldTypeOK, Offered
<1>2. /\ \A m \in Minute : m # minute => bars'[m] = bars[m]
      /\ Opened(minute)' /\ WholeBar(bars'[minute][1]) /\ bars'[minute][1].last = ticks + 1
      /\ Opened(minute) => minute = tick.minute /\ bars'[minute][1].first = bars[minute][1].first
      /\ ~Opened(minute) => tick.minute < minute /\ bars'[minute][1].first = ticks + 1
      /\ ticks' = ticks + 1 /\ tick.minute <= minute
      /\ tick'.minute = minute /\ tick'.volume >= 1
      /\ bars'[minute][1].first + tick'.volume - 1 = ticks + 1
  BY TickBars
<1>3. \A m \in Minute : m \in Nat
  BY FoldAssumption DEF Minute
<1>4. Number(tick)' = ticks'
  BY <1>2 DEF Number
<1>5. ASSUME NEW m \in Minute, Opened(m)', m # minute
      PROVE  Opened(m) /\ m < minute /\ bars'[m] = bars[m] /\ WholeBar(bars[m][1])
  <2>1. bars'[m] = bars[m] /\ Opened(m)
    BY <1>2, <1>5 DEF Opened
  <2>2. m <= tick.minute /\ WholeBar(bars[m][1])
    BY <1>1, <2>1 DEF MarketInv
  <2>3. m < minute
    <3>1. m \in Nat /\ minute \in Nat /\ tick.minute \in Nat
      BY <1>1, <1>3
    <3> QED BY <1>2, <1>5, <2>2, <3>1
  <2> QED BY <2>1, <2>2, <2>3
<1>6. ASSUME NEW m \in Minute, Opened(m)'  PROVE m <= minute /\ WholeBar(bars'[m][1])
  <2>1. CASE m = minute
    BY <1>2, <1>3, <2>1
  <2>2. CASE m # minute
    BY <1>3, <1>5, <1>6, <2>2
  <2> QED BY <2>1, <2>2
<1>7. ASSUME NEW m \in Minute, NEW n \in Minute, Opened(m)', Opened(n)', m < n
      PROVE  bars'[m][1].last < bars'[n][1].first
  <2>1. m \in Nat /\ n \in Nat /\ minute \in Nat /\ m <= minute /\ n <= minute
    BY <1>3, <1>6, <1>7
  <2>2. m # minute
    BY <1>7, <2>1
  <2>3. Opened(m) /\ bars'[m] = bars[m]
    BY <1>5, <1>7, <2>2
  <2>4. CASE n # minute
    <3>1. Opened(n) /\ bars'[n] = bars[n]
      BY <1>5, <1>7, <2>4
    <3> QED BY <1>1, <1>7, <2>3, <3>1 DEF MarketInv
  <2>5. CASE n = minute
    <3>1. CASE Opened(minute)
      <4>1. bars[m][1].last < bars[minute][1].first
        BY <1>1, <1>7, <2>3, <2>5, <3>1 DEF MarketInv
      <4> QED BY <1>2, <2>3, <2>5, <3>1, <4>1
    <3>2. CASE ~Opened(minute)
      <4>1. bars[m][1].last <= ticks /\ bars[m][1].last \in Nat
        BY <1>1, <2>3, TickKeeps, OpenedBar
      <4>2. bars'[n][1].first = ticks + 1
        BY <1>2, <2>5, <3>2
      <4> QED BY <1>1, <2>3, <4>1, <4>2
    <3> QED BY <3>1, <3>2
  <2> QED BY <2>4, <2>5
<1> QED BY <1>2, <1>4, <1>6, <1>7 DEF MarketInv

\* The tick is in no candle that is finished, and in none as its first minute but a new one.
LEMMA TickTraded ==
  ASSUME VolumesInv, NEW minute \in Minute, NEW price \in Price, NEW given \in BOOLEAN,
         Tick(minute, price, given), NEW p \in Period, NEW start \in Minute
  PROVE  /\ Traded(p, start) # {} => FirstOf(p, start)' = FirstOf(p, start)
         /\ Traded(p, start) # {} /\ start + p <= tick.minute =>
              Traded(p, start)' = Traded(p, start) /\ (Bar(p, start)').volume = Bar(p, start).volume
<1>1. FoldTypeOK /\ MarketInv /\ tick.minute \in Minute
  BY DEF VolumesInv, FoldTypeOK, Offered
<1>2. /\ \A m \in Minute : m # minute => bars'[m] = bars[m]
      /\ Opened(minute)' /\ tick.minute <= minute
      /\ Opened(minute) => minute = tick.minute
  BY TickBars
<1>3. \A m \in Minute : m \in Nat
  BY FoldAssumption DEF Minute
<1>4. start \in Nat /\ p \in Nat /\ minute \in Nat /\ tick.minute \in Nat
  BY <1>1, <1>3, FoldAssumption
<1>5. PICK M : M = Traded(p, start)
  OBVIOUS
<1>6. M \in SUBSET Minute /\ \A m \in Minute : m \in M <=> start <= m /\ m < start + p /\ Opened(m)
  BY <1>5, TradedIs
<1>7. PICK N : N = Traded(p, start)'
  OBVIOUS
<1>8. N \in SUBSET Minute /\ \A m \in Minute : m \in N <=> start <= m /\ m < start + p /\ Opened(m)'
  <2>1. \A m \in Minute : m \in start .. start + p - 1 <=> start <= m /\ m < start + p
    BY <1>3, <1>4
  <2> QED BY <1>7, <2>1 DEF Traded, Opened
<1>9. M \subseteq N /\ N \subseteq M \cup {minute}
  <2>1. \A m \in Minute : Opened(m) => Opened(m)'
    BY TickKeeps
  <2>2. \A m \in Minute : m # minute /\ Opened(m)' => Opened(m)
    BY <1>2 DEF Opened
  <2> QED BY <1>6, <1>8, <2>1, <2>2
<1>10. \A m \in M : Opened(m) /\ m <= minute
  <2> TAKE m \in M
  <2>1. Opened(m) /\ m <= tick.minute /\ m \in Nat
    BY <1>1, <1>3, <1>6 DEF MarketInv
  <2> QED BY <1>2, <1>4, <2>1
<1>11. ASSUME M # {}  PROVE FirstOf(p, start)' = FirstOf(p, start)
  <2>1. PICK e \in M : e = Earliest(M) /\ \A m \in M : e <= m
    BY <1>6, <1>11, EarliestLatest
  <2>2. Earliest(N) \in N /\ \A m \in N : Earliest(N) <= m
    <3>1. N # {}
      BY <1>9, <1>11
    <3> QED BY <1>8, <3>1, EarliestLatest
  <2>3. PICK f \in N : f = Earliest(N) /\ \A m \in N : f <= m
    BY <2>2
  <2>4. e \in Nat /\ f \in Nat /\ f <= e
    BY <1>3, <1>6, <1>8, <1>9, <2>1, <2>3
  <2>5. e <= f
    <3>1. CASE f \in M
      BY <2>1, <3>1
    <3>2. CASE f = minute
      BY <1>10, <2>1, <3>2
    <3> QED BY <1>9, <2>3, <3>1, <3>2
  <2>6. e = f
    BY <2>4, <2>5
  <2>7. bars'[e][1].first = bars[e][1].first
    <3>1. e \in Minute /\ Opened(e)
      BY <1>6, <1>10, <2>1
    <3> QED BY <3>1, TickKeeps
  <2>8. FirstOf(p, start) = bars[e][1].first /\ FirstOf(p, start)' = bars'[e][1].first
    BY <1>5, <1>7, <2>1, <2>3, <2>6 DEF FirstOf
  <2> QED BY <2>7, <2>8
<1>12. ASSUME M # {}, start + p <= tick.minute
       PROVE  N = M /\ (Bar(p, start)').volume = Bar(p, start).volume
  <2>1. minute \notin N
    <3>1. ~(minute < start + p)
      BY <1>2, <1>4, <1>12
    <3> QED BY <1>8, <3>1
  <2>2. N = M
    BY <1>9, <2>1
  <2>3. PICK e : e = Earliest(M)
    OBVIOUS
  <2>4. PICK l : l = Latest(M)
    OBVIOUS
  <2>5. e \in M /\ l \in M /\ minute \notin M
    BY <1>6, <1>12, <2>1, <2>2, <2>3, <2>4, EarliestLatest
  <2>6. bars'[e] = bars[e] /\ bars'[l] = bars[l]
    BY <1>2, <1>6, <2>5
  <2>7. Bar(p, start).volume = bars[l][1].last - bars[e][1].first + 1
    BY <1>5, <2>3, <2>4, <2>5 DEF Bar, FullCandle
  <2>8. (Bar(p, start)').volume = bars'[l][1].last - bars'[e][1].first + 1
    BY <1>7, <2>2, <2>3, <2>4, <2>5 DEF Bar, FullCandle
  <2> QED BY <2>2, <2>6, <2>7, <2>8
<1> QED BY <1>5, <1>7, <1>11, <1>12

LEMMA TickCandles ==
  ASSUME VolumesInv, NEW minute \in Minute, NEW price \in Price, NEW given \in BOOLEAN,
         Tick(minute, price, given), NEW p \in Period, m_State # "UNFILL", Before' = Before
  PROVE  CandlesInv(p)'
<1>1. PICK cs : cs = m_Candles[p]
  OBVIOUS
<1>2. /\ FoldTypeOK /\ MarketInv /\ OffersInv /\ CandlesInv(p) /\ m_Candles' = m_Candles /\ exact' = exact
      /\ m_Offer' = m_Offer /\ m_Offer \in Offered /\ IsOffer(m_Offer) /\ tick.minute \in Minute
  BY DEF VolumesInv, Tick, FoldTypeOK, OffersInv, Offered
<1>3. \A i : Counted(p, i)' <=> Counted(p, i)
  BY <1>2 DEF Counted
<1>4. \A i \in DOMAIN cs : cs[i].start \in Minute
  BY <1>1, <1>2 DEF CandlesInv, ShapeInv, Proper, Candle
<1>5. cs \in Seq(Candle) /\ Len(cs) \in Nat /\ DOMAIN cs = 1 .. Len(cs) /\ (cs # <<>> => Len(cs) \in DOMAIN cs)
  <2>1. cs \in Seq(Candle)
    BY <1>1, <1>2 DEF FoldTypeOK
  <2>2. \A s \in Seq(Candle) : Len(s) \in Nat /\ DOMAIN s = 1 .. Len(s) /\ (s # <<>> => Len(s) \in 1 .. Len(s))
    OBVIOUS
  <2> QED BY <2>1, <2>2
<1>6. m_Offer.minute \in Minute /\ Opened(m_Offer.minute) /\ m_Offer.minute <= tick.minute
  BY <1>2 DEF Offered, IsOffer, MarketInv
<1>7. \A m \in Minute : m \in Nat
  BY FoldAssumption DEF Minute
<1>8. ShapeInv(p)'
  BY <1>1, <1>2 DEF CandlesInv, ShapeInv
<1>9. ReachInv(p)'
  <2>1. ASSUME NEW m \in Minute, Opened(m)', bars'[m][1].first <= Before
        PROVE  Opened(m) /\ bars[m][1].first <= Before
    <3>1. CASE Opened(m)
      BY <2>1, <3>1, TickKeeps
    <3>2. CASE ~Opened(m)
      <4>1. m = minute
        BY <2>1, <3>2, TickBars DEF Opened
      <4>2. bars'[m][1].first = ticks + 1
        BY <3>2, <4>1, TickBars
      <4>3. Before = ticks - Len(Waiting) /\ ticks \in Nat /\ Len(Waiting) \in Nat
        BY <1>2, WaitingIs DEF Before, FoldTypeOK
      <4> QED BY <2>1, <4>2, <4>3
    <3> QED BY <3>1, <3>2
  <2> QED BY <1>2, <2>1 DEF CandlesInv, ReachInv
<1>10. ASSUME cs # <<>>, Counted(p, Len(cs))
       PROVE  /\ cs[Len(cs)].start = StartOf(p, m_Offer.minute)
              /\ cs[Len(cs)].volume = Number(m_Offer) - FirstOf(p, cs[Len(cs)].start) + 1
              /\ cs[Len(cs)].start \in Minute /\ cs[Len(cs)].start <= tick.minute
              /\ Traded(p, cs[Len(cs)].start) # {}
  <2>1. /\ cs[Len(cs)].start = StartOf(p, m_Offer.minute) /\ cs[Len(cs)].start \in Minute
        /\ cs[Len(cs)].volume = Number(m_Offer) - FirstOf(p, cs[Len(cs)].start) + 1
    BY <1>1, <1>2, <1>4, <1>5, <1>10 DEF CandlesInv, InProgress
  <2>2. cs[Len(cs)].start <= m_Offer.minute /\ m_Offer.minute < cs[Len(cs)].start + p
    BY <1>6, <2>1, SideBySide
  <2>3. m_Offer.minute \in Traded(p, cs[Len(cs)].start)
    BY <1>6, <2>1, <2>2, TradedIs
  <2>4. cs[Len(cs)].start <= tick.minute
    <3>1. cs[Len(cs)].start \in Nat /\ m_Offer.minute \in Nat /\ tick.minute \in Nat
      BY <1>2, <1>6, <1>7, <2>1
    <3> QED BY <1>6, <2>2, <3>1
  <2> QED BY <2>1, <2>3, <2>4
<1>11. InProgress(p)'
  <2>1. ASSUME cs # <<>>, Counted(p, Len(cs))
        PROVE  /\ cs[Len(cs)].start = StartOf(p, m_Offer'.minute)
               /\ cs[Len(cs)].volume = Number(m_Offer)' - FirstOf(p, cs[Len(cs)].start)' + 1
    <3>1. FirstOf(p, cs[Len(cs)].start)' = FirstOf(p, cs[Len(cs)].start)
      BY <1>10, <2>1, TickTraded
    <3>2. Number(m_Offer)' = Number(m_Offer)
      <4>1. PICK o \in Offered : o = m_Offer
        BY <1>2
      <4>2. Number(o)' = Number(o)
        BY <1>2, <4>1, TickKeeps
      <4> QED BY <1>2, <4>1, <4>2 DEF Number
    <3> QED BY <1>2, <1>10, <2>1, <3>1, <3>2
  <2> QED BY <1>1, <1>2, <1>3, <2>1 DEF InProgress
<1>12. Finished(p)'
  <2>1. ASSUME NEW i \in 1 .. Len(cs) - 1
        PROVE  /\ cs[i].start + p <= cs[Len(cs)].start
               /\ Counted(p, i) => Traded(p, cs[i].start)' # {} /\ cs[i].volume = (Bar(p, cs[i].start)').volume
    <3>1. i \in DOMAIN cs /\ cs[i].start \in Minute /\ cs # <<>> /\ Len(cs) > 1
      <4>1. i \in DOMAIN cs /\ cs[i].start \in Minute /\ Len(cs) > 1
        BY <1>4, <1>5
      <4>2. cs # <<>>
        BY <4>1
      <4> QED BY <4>1, <4>2
    <3>2. /\ cs[i].start + p <= cs[Len(cs)].start
          /\ Counted(p, i) => Traded(p, cs[i].start) # {} /\ cs[i].volume = Bar(p, cs[i].start).volume
      BY <1>1, <1>2 DEF CandlesInv, Finished
    <3>3. cs[Len(cs)].start <= tick.minute /\ cs[Len(cs)].start \in Minute
      BY <1>10, <3>1 DEF Counted
    <3>4. cs[i].start + p <= tick.minute
      <4>1. cs[i].start \in Nat /\ cs[Len(cs)].start \in Nat /\ tick.minute \in Nat /\ p \in Nat
        BY <1>2, <1>7, <3>1, <3>3, FoldAssumption
      <4> QED BY <3>2, <3>3, <4>1
    <3>5. PICK s \in Minute : s = cs[i].start
      BY <3>1
    <3>6. Traded(p, s) # {} => Traded(p, s)' = Traded(p, s) /\ (Bar(p, s)').volume = Bar(p, s).volume
      BY <3>4, <3>5, TickTraded
    <3> QED BY <3>2, <3>5, <3>6
  <2> QED BY <1>1, <1>2, <1>3, <2>1 DEF Finished
<1> QED BY <1>8, <1>9, <1>11, <1>12 DEF CandlesInv

\* The tick is the last of the offers that wait, or the newest that the worker can read.
LEMMA TickOffers ==
  ASSUME VolumesInv, NEW minute \in Minute, NEW price \in Price, NEW given \in BOOLEAN,
         Tick(minute, price, given)
  PROVE  /\ OffersInv'
         /\ m_Pending' \in Seq(Offered) /\ inHand' \in Seq(Offered)
         /\ m_State # "UNFILL" => Before' = Before
<1>1. /\ FoldTypeOK /\ OffersInv /\ m_Offer \in Offered /\ IsOffer(m_Offer) /\ Number(m_Offer) <= Before
      /\ ticks \in Nat /\ m_Pending \in Seq(Offered) /\ m_Candles' = m_Candles /\ exact' = exact
      /\ m_Offer' = m_Offer /\ m_State' = m_State /\ inHand = <<>> /\ toLoad' = toLoad
      /\ m_State \in {"UNFILL", "FILLED", "READY"}
  BY DEF VolumesInv, Tick, FoldTypeOK, OffersInv
<1>2. PICK o : o = IF given THEN tick' ELSE [tick' EXCEPT !.price = NoPrice]
  OBVIOUS
<1>3. onOfferUpdate(o) /\ ticks' = ticks + 1
  BY <1>2 DEF Tick
<1>4. /\ o \in Offered /\ o.minute = minute /\ o.volume >= 1
      /\ Opened(minute)' /\ bars'[minute][1].last = ticks + 1
      /\ bars'[minute][1].first + o.volume - 1 = ticks + 1
  <2>1. tick' \in Offered /\ tick'.minute = minute /\ tick'.volume >= 1
    BY TickBars
  <2>2. o \in Offered /\ o.minute = tick'.minute /\ o.volume = tick'.volume
    BY <1>2, <2>1 DEF Offered
  <2> QED BY <2>1, <2>2, TickBars
<1>5. Waiting = m_Pending /\ Len(m_Pending) \in Nat /\ Before = ticks - Len(m_Pending)
  <2>1. Waiting = m_Pending
    BY <1>1 DEF Waiting
  <2> QED BY <1>1, <2>1 DEF Before
<1>6. IsOffer(m_Offer)' /\ Number(m_Offer)' = Number(m_Offer)
  <2>1. PICK x \in Offered : x = m_Offer
    BY <1>1
  <2>2. IsOffer(x)' /\ Number(x)' = Number(x)
    BY <1>1, <2>1, TickKeeps
  <2> QED BY <1>1, <2>1, <2>2 DEF IsOffer, Number, Opened
<1>7. IsOffer(o)' /\ Number(o)' = ticks + 1
  <2>1. Number(o)' = ticks + 1
    BY <1>4 DEF Number
  <2>2. ticks + 1 <= ticks + 1
    BY <1>1
  <2> QED BY <1>4, <2>1, <2>2 DEF IsOffer
<1>8. CASE m_State = "UNFILL"
  <2>1. m_Pending = <<>> /\ m_Pending' = <<>> /\ inHand' = <<>>
    BY <1>1, <1>3, <1>8 DEF onOfferUpdate, OffersInv
  <2>2. Waiting' = <<>> /\ Before' = ticks + 1
    <3>1. Waiting' = <<>> /\ Len(<<>>) = 0
      BY <2>1 DEF Waiting
    <3> QED BY <1>1, <1>3, <3>1 DEF Before
  <2>3. Before = ticks
    BY <1>1, <1>5, <2>1
  <2>4. Number(m_Offer)' <= Before'
    <3>1. Number(m_Offer) \in Nat
      BY <1>1, NumberOrder DEF VolumesInv
    <3> QED BY <1>1, <1>6, <2>2, <2>3, <3>1
  <2>5. exact = {} /\ \A p \in Period : m_Candles[p] = <<>>
    BY <1>1, <1>8 DEF OffersInv
  <2>6. \A p \in Period : ~(Len(m_Candles[p]) > 1)
    <3>1. ~(Len(<<>>) > 1)
      OBVIOUS
    <3> QED BY <2>5, <3>1
  <2>7. \A n \in 1 .. Len(Waiting') : FALSE
    BY <2>2
  <2>8. OffersInv'
    BY <1>1, <1>6, <1>8, <2>1, <2>4, <2>5, <2>6, <2>7 DEF OffersInv
  <2> QED BY <1>8, <2>1, <2>8
<1>9. CASE m_State # "UNFILL"
  <2>1. PICK ws : ws = Append(m_Pending, o)
    OBVIOUS
  <2>2. /\ ws \in Seq(Offered) /\ Len(ws) = Len(m_Pending) + 1 /\ ws # <<>>
        /\ ws[Len(ws)] = o /\ \A n \in 1 .. Len(m_Pending) : ws[n] = m_Pending[n]
    <3>1. \A s \in Seq(Offered) : /\ Append(s, o) \in Seq(Offered) /\ Len(Append(s, o)) = Len(s) + 1
                                  /\ Append(s, o) # <<>> /\ Append(s, o)[Len(s) + 1] = o
                                  /\ \A n \in 1 .. Len(s) : Append(s, o)[n] = s[n]
      BY <1>4
    <3> QED BY <1>1, <2>1, <3>1, Zenon
  <2>3. \/ m_State = "FILLED" /\ m_Pending' = ws /\ inHand' = <<>>
        \/ m_State = "READY" /\ inHand' = ws /\ m_Pending' = <<>>
    BY <1>1, <1>3, <1>9, <2>1 DEF onOfferUpdate
  <2>4. Waiting' = ws /\ m_Pending' \in Seq(Offered) /\ inHand' \in Seq(Offered)
    <3>1. <<>> \in Seq(Offered)
      OBVIOUS
    <3> QED BY <2>2, <2>3, <3>1 DEF Waiting
  <2>5. Before' = Before
    <3>1. Before' = (ticks + 1) - (Len(m_Pending) + 1)
      BY <1>3, <2>2, <2>4 DEF Before
    <3> QED BY <1>1, <1>5, <3>1
  <2>6. ASSUME NEW n \in 1 .. Len(ws)  PROVE IsOffer(ws[n])' /\ Number(ws[n])' = Before + n
    <3>1. CASE n = Len(ws)
      <4>1. ticks + 1 = Before + n
        BY <1>1, <1>5, <2>2, <3>1
      <4> QED BY <1>7, <2>2, <3>1, <4>1
    <3>2. CASE n # Len(ws)
      <4>1. n \in 1 .. Len(m_Pending)
        BY <1>5, <2>2, <3>2
      <4>2. PICK x \in Offered : x = m_Pending[n]
        BY <1>1, <4>1
      <4>3. IsOffer(x) /\ Number(x) = Before + n
        BY <1>1, <1>5, <4>1, <4>2 DEF OffersInv
      <4> QED BY <2>2, <4>1, <4>2, <4>3, TickKeeps
    <3> QED BY <3>1, <3>2
  <2>7. \A n \in 1 .. Len(Waiting') : IsOffer(Waiting[n])' /\ Number(Waiting[n])' = Before' + n
    BY <2>4, <2>5, <2>6 DEF IsOffer, Opened, Number
  <2>8. inHand' # <<>> => m_State' = "READY" /\ m_Pending' = <<>>
    BY <1>1, <2>3
  <2>9. (\E p \in Period : p \in exact' \/ Len(m_Candles'[p]) > 1) => Number(m_Offer)' = Before'
    BY <1>1, <1>6, <2>5 DEF OffersInv
  <2>10. OffersInv'
    <3>1. m_State' # "UNFILL" /\ exact' \cap toLoad' = {} /\ Number(m_Offer)' <= Before'
      BY <1>1, <1>6, <1>9, <2>5 DEF OffersInv
    <3> QED BY <1>6, <2>7, <2>8, <2>9, <3>1 DEF OffersInv
  <2> QED BY <2>4, <2>5, <2>10
<1> QED BY <1>8, <1>9

LEMMA TickVolumes ==
  ASSUME VolumesInv, NEW minute \in Minute, NEW price \in Price, NEW given \in BOOLEAN,
         Tick(minute, price, given)
  PROVE  VolumesInv'
<1>1. /\ FoldTypeOK /\ OffersInv /\ m_Candles' = m_Candles /\ exact' = exact /\ m_Offer' = m_Offer
      /\ m_State' = m_State /\ toLoad' = toLoad
  BY DEF VolumesInv, Tick
<1>2. FoldTypeOK'
  <2>1. /\ tick' \in Offered /\ tick'.price \in Price /\ bars' \in [Minute -> Seq(MinuteBar)]
        /\ (\A m \in Minute : Len(bars'[m]) <= 1) /\ ticks' = ticks + 1
    BY TickBars
  <2>2. m_Pending' \in Seq(Offered) /\ inHand' \in Seq(Offered)
    BY TickOffers
  <2>3. ticks' \in Nat
    BY <1>1, <2>1 DEF FoldTypeOK
  <2> QED BY <1>1, <2>1, <2>2, <2>3 DEF FoldTypeOK
<1>3. MarketInv' /\ OffersInv'
  BY TickMarket, TickOffers
<1>4. ASSUME NEW p \in Period  PROVE CandlesInv(p)'
  <2>1. CASE m_State = "UNFILL"
    <3>1. m_Candles'[p] = <<>> /\ p \notin exact'
      BY <1>1, <2>1 DEF OffersInv
    <3> QED BY <3>1 DEF CandlesInv, ShapeInv, ReachInv, InProgress, Finished, Counted, Ascending
  <2>2. CASE m_State # "UNFILL"
    BY <2>2, TickOffers, TickCandles
  <2> QED BY <2>1, <2>2
<1> QED BY <1>2, <1>3, <1>4 DEF VolumesInv

-----------------------------------------------------------------------------
(* CandleFold: every step                                                  *)

LEMMA InitVolumes == FoldInit => VolumesInv
<1> SUFFICES ASSUME FoldInit  PROVE VolumesInv
  OBVIOUS
<1>1. PICK b : b = [open |-> tick.price, high |-> tick.price, low |-> tick.price,
                    close |-> tick.price, first |-> 1, last |-> 1]
  OBVIOUS
<1>2. /\ tick \in [minute : {0}, price : Price, volume : {1}]
      /\ bars = [m \in Minute |-> IF m = 0 THEN <<b>> ELSE <<>>]
      /\ ticks = 1 /\ m_State = "UNFILL" /\ m_Offer = tick /\ m_Pending = <<>> /\ inHand = <<>>
      /\ m_Candles = [p \in Period |-> <<>>] /\ toLoad = Period /\ exact = {}
  BY <1>1 DEF FoldInit
<1>3. 0 \in Minute /\ \A m \in Minute : m \in Nat
  BY FoldAssumption DEF Minute
<1>4. tick \in Offered /\ tick.price \in Price /\ tick.minute = 0 /\ tick.volume = 1
  BY <1>2, <1>3 DEF Offered
<1>5. WholeBar(b) /\ b.first = 1 /\ b.last = 1
  <2>1. tick.price \in Nat /\ tick.price \in Price
    BY <1>4, FoldAssumption
  <2>2. /\ b.open = tick.price /\ b.high = tick.price /\ b.low = tick.price /\ b.close = tick.price
        /\ b.first = 1 /\ b.last = 1
    BY <1>1
  <2>3. b \in MinuteBar
    BY <1>1, <2>1 DEF MinuteBar
  <2> QED BY <2>1, <2>2, <2>3 DEF WholeBar
<1>6. <<b>> \in Seq(MinuteBar) /\ <<>> \in Seq(MinuteBar) /\ Len(<<b>>) = 1 /\ <<b>>[1] = b /\ <<b>> # <<>>
  <2>1. b \in MinuteBar
    BY <1>5 DEF WholeBar
  <2> QED BY <2>1
<1>7. bars[0] = <<b>> /\ \A m \in Minute : m # 0 => bars[m] = <<>>
  BY <1>2, <1>3
<1>8. \A m \in Minute : Opened(m) <=> m = 0
  BY <1>6, <1>7 DEF Opened
<1>9. FoldTypeOK
  <2>1. bars \in [Minute -> Seq(MinuteBar)]
    BY <1>2, <1>6
  <2>2. \A m \in Minute : Len(bars[m]) <= 1
    <3> TAKE m \in Minute
    <3>1. CASE m = 0
      <4>1. Len(bars[m]) = 1
        BY <1>6, <1>7, <3>1, Zenon
      <4> QED BY <4>1
    <3>2. CASE m # 0
      <4>1. bars[m] = <<>>
        BY <1>7, <3>2
      <4> QED BY <4>1
    <3> QED BY <3>1, <3>2
  <2>3. m_Candles \in [Period -> Seq(Candle)]
    BY <1>2
  <2> QED BY <1>2, <1>4, <2>1, <2>2, <2>3 DEF FoldTypeOK
<1>10. bars[0][1] = b
  BY <1>6, <1>7, Zenon
<1>11. MarketInv
  <2>1. Number(tick) = 1
    BY <1>4, <1>5, <1>10 DEF Number
  <2>2. \A m \in Minute : Opened(m) => m <= tick.minute /\ WholeBar(bars[m][1])
    BY <1>4, <1>5, <1>8, <1>10
  <2>3. \A m, n \in Minute : Opened(m) /\ Opened(n) => ~(m < n)
    BY <1>8
  <2>4. Opened(tick.minute) /\ bars[tick.minute][1].last = ticks /\ tick.volume >= 1
    BY <1>2, <1>3, <1>4, <1>5, <1>8, <1>10
  <2> QED BY <1>2, <2>1, <2>2, <2>3, <2>4 DEF MarketInv
<1>12. Waiting = <<>> /\ Before = 1
  <2>1. Waiting = <<>> /\ Len(<<>>) = 0
    BY <1>2 DEF Waiting
  <2> QED BY <1>2, <2>1 DEF Before
<1>13. OffersInv
  <2>1. Number(m_Offer) = 1 /\ IsOffer(m_Offer)
    BY <1>2, <1>11 DEF MarketInv, IsOffer
  <2>2. \A n \in 1 .. Len(Waiting) : FALSE
    BY <1>12
  <2>3. \A p \in Period : m_Candles[p] = <<>> /\ ~(Len(m_Candles[p]) > 1)
    <3>1. ~(Len(<<>>) > 1)
      OBVIOUS
    <3> QED BY <1>2, <3>1
  <2> QED BY <1>2, <1>12, <2>1, <2>2, <2>3 DEF OffersInv
<1>14. \A p \in Period : CandlesInv(p)
  BY <1>2, NoCandles
<1> QED BY <1>9, <1>11, <1>13, <1>14 DEF VolumesInv

LEMMA NextVolumes == VolumesInv /\ [FoldNext]_foldVars => VolumesInv'
<1> SUFFICES ASSUME VolumesInv, [FoldNext]_foldVars  PROVE VolumesInv'
  OBVIOUS
<1>1. CASE UNCHANGED foldVars
  <2>1. /\ FoldTypeOK /\ MarketInv /\ OffersInv /\ \A p \in Period : CandlesInv(p)
        /\ bars' = bars /\ tick' = tick /\ ticks' = ticks /\ m_Offer' = m_Offer /\ m_State' = m_State
        /\ m_Pending' = m_Pending /\ inHand' = inHand /\ m_Candles' = m_Candles /\ toLoad' = toLoad
        /\ exact' = exact
    BY <1>1 DEF VolumesInv, foldVars, serverVars, collector
  <2>2. Waiting' = Waiting /\ Before' = Before
    BY <2>1, SameWaiting
  <2>3. FoldTypeOK' /\ MarketInv' /\ IsOffer(m_Offer)' /\ Number(m_Offer)' = Number(m_Offer)
    BY <2>1 DEF FoldTypeOK, MarketInv, OffersInv, IsOffer, Opened, Number
  <2>4. OffersInv'
    BY <2>1, <2>2, <2>3, SameOffers DEF OffersInv
  <2>5. ASSUME NEW p \in Period  PROVE CandlesInv(p)'
    BY <2>1, <2>2, SameCandles
  <2> QED BY <2>3, <2>4, <2>5 DEF VolumesInv
<1>2. CASE FoldNext
  BY <1>2, ReadVolumes, WorkerVolumes, TurnVolumes, HistoryVolumes, TickVolumes DEF FoldNext
<1> QED BY <1>1, <1>2

LEMMA VolumesInvariance == FoldSpec => []VolumesInv
BY InitVolumes, NextVolumes, PTL DEF FoldSpec

\* Once nothing waits, the candle in progress has all its ticks.
LEMMA AllCounted ==
  ASSUME VolumesInv, Folded, NEW p \in Period, NEW i \in DOMAIN m_Candles[p], Counted(p, i)
  PROVE  m_Candles[p][i].volume = Bar(p, m_Candles[p][i].start).volume
<1>1. PICK cs : cs = m_Candles[p]
  OBVIOUS
<1>2. /\ FoldTypeOK /\ MarketInv /\ OffersInv /\ CandlesInv(p) /\ ticks \in Nat
      /\ m_Offer \in Offered /\ IsOffer(m_Offer) /\ tick.minute \in Minute
  BY DEF VolumesInv, FoldTypeOK, OffersInv, Offered
<1>3. cs \in Seq(Candle) /\ Len(cs) \in Nat /\ DOMAIN cs = 1 .. Len(cs) /\ i \in DOMAIN cs
  <2>1. cs \in Seq(Candle)
    BY <1>1, <1>2 DEF FoldTypeOK
  <2> QED BY <1>1, <2>1
<1>4. CASE i # Len(cs)
  <2>1. i \in 1 .. Len(cs) - 1
    BY <1>3, <1>4
  <2> QED BY <1>1, <1>2, <2>1 DEF CandlesInv, Finished
<1>5. CASE i = Len(cs)
  <2>1. Before = ticks
    <3>1. Waiting = <<>> /\ Len(<<>>) = 0
      BY DEF Folded, Waiting
    <3> QED BY <1>2, <3>1 DEF Before
  <2>2. Number(m_Offer) = ticks
    <3>1. i > 1 => Len(m_Candles[p]) > 1
      BY <1>1, <1>5
    <3> QED BY <1>2, <2>1, <3>1 DEF OffersInv, Counted
  <2>3. cs # <<>>
    BY <1>3
  <2>4. PICK start \in Minute : start = cs[i].start
    BY <1>1, <1>2, <1>3 DEF CandlesInv, ShapeInv, Proper, Candle
  <2>5. start = StartOf(p, m_Offer.minute) /\ cs[i].volume = ticks - FirstOf(p, start) + 1
    BY <1>1, <1>2, <1>5, <2>2, <2>3, <2>4 DEF CandlesInv, InProgress
  <2>6. m_Offer.minute \in Minute /\ Opened(m_Offer.minute)
    BY <1>2 DEF Offered, IsOffer
  <2>7. m_Offer.minute = tick.minute
    <3>1. m_Offer.minute <= tick.minute
      BY <1>2, <2>6 DEF MarketInv
    <3>2. ASSUME m_Offer.minute < tick.minute  PROVE FALSE
      <4>1. Opened(tick.minute) /\ bars[tick.minute][1].last = ticks
        BY <1>2 DEF MarketInv
      <4>2. Number(m_Offer) < bars[tick.minute][1].first
        BY <1>2, <3>2, <4>1, NumberOrder
      <4>3. bars[tick.minute][1].first <= bars[tick.minute][1].last /\ bars[tick.minute][1].first \in Nat
        BY <1>2, <4>1, OpenedBar DEF MarketInv, WholeBar
      <4> QED BY <1>2, <2>2, <4>1, <4>2, <4>3
    <3>3. m_Offer.minute \in Nat /\ tick.minute \in Nat
      BY <1>2, <2>6, FoldAssumption DEF Minute
    <3> QED BY <3>1, <3>2, <3>3
  <2>8. Bar(p, start).volume = ticks - FirstOf(p, start) + 1
    BY <2>5, <2>7, HistoryCandle
  <2> QED BY <1>1, <2>4, <2>5, <2>8
<1> QED BY <1>4, <1>5

\* The volume of every candle that the collector began, and of one that came with the
\* history of the stored offer, is the number of the server's ticks in it.
THEOREM VolumesAreExact == FoldSpec => []VolumeIsExact
<1>1. ASSUME VolumesInv  PROVE VolumeIsExact
  <2> SUFFICES ASSUME Folded, NEW p \in Period, NEW i \in DOMAIN m_Candles[p], i > 1 \/ p \in exact
               PROVE  m_Candles[p][i].volume = Bar(p, m_Candles[p][i].start).volume
    BY DEF VolumeIsExact, CandleValue
  <2> QED BY <1>1, AllCounted DEF Counted
<1>2. QED
  BY <1>1, VolumesInvariance, PTL

\* The candles of a period are in the order of their times, and the open and the close
\* of each lie between its low and its high.
CandlesAreWhole ==
  \A p \in Period :
    Ascending(m_Candles[p]) /\ \A i \in DOMAIN m_Candles[p] : Proper(m_Candles[p][i])

\* The candles are whole at all times, those of the history and those that the offers
\* that PriceCollector::handleOffer is given have changed or begun.
THEOREM CandlesStayWhole == FoldSpec => [](FoldTypeOK /\ CandlesAreWhole)
<1>1. VolumesInv => FoldTypeOK /\ CandlesAreWhole
  BY DEF VolumesInv, CandlesInv, ShapeInv, CandlesAreWhole
<1>2. QED
  BY <1>1, VolumesInvariance, PTL

-----------------------------------------------------------------------------
(* Rows: the columns                                                       *)

\* Each table: what is shown is copied, and what is stored is shown.
LEMMA AccountColumnFacts ==
  ASSUME kind = "account"
  PROVE  /\ Shown[kind] \subseteq Members[kind] /\ Shown[kind] \ Live \subseteq Copied[kind]
         /\ Columns[kind] \ Live \subseteq Shown[kind] /\ Copied[kind] \subseteq Members[kind]
<1>1. /\ Members.account = AccountFields \cup AccountFigures
      /\ Shown[kind] = AccountFields \cup AccountFigures
      /\ Members[kind] = AccountFields \cup AccountFigures
  BY DEF Members, Shown, AccountKeys
<1>2. Copied[kind] = AccountFields \cup AccountFigures
  BY <1>1 DEF Copied, AccountPlain, AccountComputed, AccountFigures
<1>3. Columns[kind] = AccountColumns /\ Live = {"currency"}
  BY DEF Columns, Live
<1>4. AccountColumns \ {"currency"} \subseteq AccountFields \cup AccountFigures
  BY DEF AccountColumns, AccountFields, AccountFigures
<1> QED
  BY <1>1, <1>2, <1>3, <1>4

LEMMA OfferColumnFacts ==
  ASSUME kind = "offer"
  PROVE  /\ Shown[kind] \subseteq Members[kind] /\ Shown[kind] \ Live \subseteq Copied[kind]
         /\ Columns[kind] \ Live \subseteq Shown[kind] /\ Copied[kind] \subseteq Members[kind]
<1>1. /\ Members.offer = OfferFields \cup OfferTerms
      /\ Shown[kind] = OfferFields \cup OfferTerms
      /\ Members[kind] = OfferFields \cup OfferTerms
  BY DEF Members, Shown, OfferKeys
<1>2. Copied[kind] = OfferFields \cup OfferTerms
  BY <1>1 DEF Copied, OfferPlain, OfferComputed, OfferFields
<1>3. Columns[kind] = OfferColumns
  BY DEF Columns
<1>4. OfferColumns \subseteq OfferFields \cup OfferTerms
  BY DEF OfferColumns, OfferFields, OfferTerms
<1> QED
  BY <1>1, <1>2, <1>3, <1>4

LEMMA OrderColumnFacts ==
  ASSUME kind = "order"
  PROVE  /\ Shown[kind] \subseteq Members[kind] /\ Shown[kind] \ Live \subseteq Copied[kind]
         /\ Columns[kind] \ Live \subseteq Shown[kind] /\ Copied[kind] \subseteq Members[kind]
<1> DEFINE Fields == OrderFields \cup OrderTerms \cup OrderRest
<1>1. Members.order = Fields /\ Shown[kind] = Fields /\ Members[kind] = Fields
  BY DEF Members, Shown, OrderKeys
<1>2. Copied[kind] = Fields
  BY <1>1 DEF Copied, OrderPlain, OrderComputed, OrderTerms
<1>3. Columns[kind] = OrderColumns
  BY DEF Columns
<1>4. OrderColumns \subseteq Fields
  BY DEF OrderColumns, OrderFields, OrderTerms, OrderRest
<1> QED
  BY <1>1, <1>2, <1>3, <1>4

LEMMA TradeColumnFacts ==
  ASSUME kind = "trade"
  PROVE  /\ Shown[kind] \subseteq Members[kind] /\ Shown[kind] \ Live \subseteq Copied[kind]
         /\ Columns[kind] \ Live \subseteq Shown[kind] /\ Copied[kind] \subseteq Members[kind]
         /\ "close" \in Shown[kind] \cap Copied[kind]
         /\ {"high", "low"} \cap Shown[kind] = {}
         /\ {"high", "low"} \subseteq Columns[kind]
         /\ "close" \in Live
<1> DEFINE Fields == TradeFields \cup TradeRest
<1>1. Members.trade = Fields /\ Shown[kind] = Fields /\ Members[kind] = Fields
  BY DEF Members, Shown, TradeKeys
<1>2. Copied[kind] = Fields
  BY <1>1 DEF Copied, TradePlain, TradeComputed, TradeFields
<1>3. Columns[kind] = PositionColumns /\ Live = {"close", "high", "low"}
  BY DEF Columns, Live
<1>4. PositionColumns \ {"close", "high", "low"} \subseteq Fields
  BY DEF PositionColumns, TradeFields, TradeRest
<1>5. "close" \in Fields /\ "high" \notin Fields /\ "low" \notin Fields
  BY DEF TradeFields, TradeRest
<1>6. {"high", "low"} \subseteq PositionColumns
  BY DEF PositionColumns
<1> QED
  BY <1>1, <1>2, <1>3, <1>4, <1>5, <1>6

LEMMA ClosedColumnFacts ==
  ASSUME kind = "closed_trade"
  PROVE  /\ Shown[kind] \subseteq Members[kind] /\ Shown[kind] \ Live \subseteq Copied[kind]
         /\ Columns[kind] \ Live \subseteq Shown[kind] /\ Copied[kind] \subseteq Members[kind]
<1> DEFINE Fields == TradeFields \cup TradeRest \cup ClosedFields
<1>1. /\ Members.closed_trade = Fields /\ Members[kind] = Fields
      /\ Shown[kind] = ClosedKeys /\ ClosedKeys = Fields \ {"used_margin", "close", "stop", "limit"}
  BY DEF Members, Shown, ClosedKeys
<1>2. Copied[kind] = ClosedPlain \cup ClosedComputed
  BY DEF Copied
<1>5. ClosedComputed \subseteq ClosedKeys
  BY <1>1 DEF ClosedComputed, TradeFields, ClosedFields
<1>6. Copied[kind] = ClosedKeys
  BY <1>2, <1>5 DEF ClosedPlain
<1>3. Columns[kind] = ClosedColumns
  BY DEF Columns
<1>4. ClosedColumns \subseteq Fields \ {"used_margin", "close", "stop", "limit"}
  BY DEF ClosedColumns, TradeFields, TradeRest, ClosedFields
<1> QED
  BY <1>1, <1>3, <1>4, <1>6

LEMMA SummaryColumnFacts ==
  ASSUME kind = "summary"
  PROVE  /\ Shown[kind] \subseteq Members[kind] /\ Shown[kind] \ Live \subseteq Copied[kind]
         /\ Columns[kind] \ Live \subseteq Shown[kind] /\ Copied[kind] \subseteq Members[kind]
  BY DEF Members, Shown, SummaryKeys, Copied, SummaryPlain, Columns

LEMMA ColumnFacts ==
  ASSUME kind \in Kind
  PROVE  /\ Shown[kind] \subseteq Members[kind] /\ Shown[kind] \ Live \subseteq Copied[kind]
         /\ Columns[kind] \ Live \subseteq Shown[kind] /\ Copied[kind] \subseteq Members[kind]
  BY AccountColumnFacts, OfferColumnFacts, OrderColumnFacts, TradeColumnFacts, ClosedColumnFacts,
     SummaryColumnFacts DEF Kind

-----------------------------------------------------------------------------
(* Rows: a row on its way                                                  *)

LiveOf(k) ==
  IF k = "offer" THEN {"bid", "ask", "high", "low", "volume", "time", "symbol"}
  ELSE IF k = "account" THEN {"currency"} ELSE {"close", "high", "low"}

\* The columns come from one of the first n versions of the row.
FromOne(k, o, columns, n) == \E v \in 1 .. n : \A c \in columns \ LiveOf(k) : o[c] = v

Object(k, o, n) == FromOne(k, o, Copied[k], n) /\ (k = "trade" => o["close"] \in Close)
Entity(k, o, n) ==
  FromOne(k, o, Shown[k], n) /\ Shown[k] \subseteq DOMAIN o /\ (k = "trade" => o["close"] \in Close)
StoredRow(k, o, n) == FromOne(k, o, Columns[k], n)

RowEvent(k) == [status : {"added", "changed", "deleted"}, object : [Members[k] -> Nat]]

\* The row, the object copied from it, the events that wait, the entity and the row of
\* the database: each is whole, and every step hands wholeness on.
RowsInv ==
  /\ kind \in Kind /\ version \in Nat \ {0}
  /\ row # <<>> => row[1] \in [version : 1 .. version, close : Close]
  /\ kind \in {"account", "offer"} => row # <<>>
  /\ held # <<>> => Object(kind, held[1], version)
  /\ kind = "offer" /\ phase \in {"loading", "running"} => held # <<>>
  /\ queued \in Seq(RowEvent(kind))
  /\ kind # "offer" => \A i \in DOMAIN queued : Object(kind, queued[i].object, version)
  /\ shown # <<>> => Entity(kind, shown[1], version)
  /\ stored # <<>> => StoredRow(kind, stored[1], version)

LEMMA Later ==
  ASSUME NEW m \in Nat, NEW n \in Nat, m <= n, NEW k, NEW o
  PROVE  /\ Object(k, o, m) => Object(k, o, n)
         /\ Entity(k, o, m) => Entity(k, o, n)
         /\ StoredRow(k, o, m) => StoredRow(k, o, n)
<1>1. 1 .. m \subseteq 1 .. n
  OBVIOUS
<1> QED
  BY <1>1 DEF Object, Entity, StoredRow, FromOne

\* valueOfRow makes a whole object of a row ...
LEMMA RowToObject ==
  ASSUME kind \in Kind, NEW n \in Nat \ {0}, NEW r \in [version : 1 .. n, close : Close]
  PROVE  Object(kind, valueOfRow(r), n) /\ valueOfRow(r) \in [Members[kind] -> Nat]
<1>1. Close \subseteq Nat /\ r.version \in 1 .. n /\ r.version \in Nat /\ r.close \in Close
  BY RowsAssumption
<1>2. valueOfRow(r) \in [Members[kind] -> Nat]
  BY <1>1 DEF valueOfRow, Blank
<1>3. ASSUME kind = "trade" PROVE valueOfRow(r)["close"] \in Close
  BY <1>1, <1>3, TradeColumnFacts DEF valueOfRow
<1>4. ASSUME NEW c \in Copied[kind] \ LiveOf(kind) PROVE valueOfRow(r)[c] = r.version
  <2>1. c \in Members[kind]
    BY <1>4, ColumnFacts
  <2>2. ~(kind = "trade" /\ c = "close")
    BY <1>4 DEF LiveOf
  <2> QED
    BY <2>1, <2>2, <1>4 DEF valueOfRow
<1> QED
  BY <1>1, <1>2, <1>3, <1>4 DEF Object, FromOne

\* ... and toValue an entity of it.
LEMMA ObjectToEntity ==
  ASSUME kind \in Kind, NEW n \in Nat \ {0}, NEW o, Object(kind, o, n)
  PROVE  Entity(kind, toValue(o), n) /\ DOMAIN toValue(o) = Shown[kind]
         /\ (kind = "trade" => toValue(o)["close"] = o["close"])
<1>1. Live = LiveOf(kind)
  BY DEF Live, LiveOf
<1>2. \A c \in Shown[kind] : toValue(o)[c] = o[c]
  BY DEF toValue
<1>3. FromOne(kind, toValue(o), Shown[kind], n)
  BY <1>1, <1>2, ColumnFacts DEF Object, FromOne
<1>4. DOMAIN toValue(o) = Shown[kind]
  BY DEF toValue
<1>5. kind = "trade" => toValue(o)["close"] = o["close"]
  BY <1>2, TradeColumnFacts
<1> QED
  BY <1>3, <1>4, <1>5 DEF Entity, Object

\* What a statement writes is whole: it has every column that is not live.
LEMMA EntityToStored ==
  ASSUME kind \in Kind, NEW n \in Nat \ {0}, NEW e, Entity(kind, e, n)
  PROVE  /\ StoredRow(kind, Insert(e), n)
         /\ \A old : StoredRow(kind, Update(e, old), n)
<1>1. Columns[kind] \ LiveOf(kind) \subseteq Shown[kind] /\ Shown[kind] \subseteq DOMAIN e
  BY ColumnFacts DEF Entity, Live, LiveOf
<1>2. PICK v \in 1 .. n : \A c \in Shown[kind] \ LiveOf(kind) : e[c] = v
  BY DEF Entity, FromOne
<1>3. \A c \in Columns[kind] \ LiveOf(kind) : c \in retrieveValues(e) /\ e[c] = v
  BY <1>1, <1>2 DEF retrieveValues
<1>4. \A c \in Columns[kind] \ LiveOf(kind) : Insert(e)[c] = v
  BY <1>3 DEF Insert
<1>5. ASSUME NEW old, NEW c \in Columns[kind] \ LiveOf(kind) PROVE Update(e, old)[c] = v
  BY <1>3 DEF Update
<1> QED
  BY <1>4, <1>5 DEF StoredRow, FromOne

LEMMA InitRowsInv == RowsInit => RowsInv
  BY RowsAssumption DEF RowsInit, RowsInv, Row

\* The broker changes a row, and TableListener makes an event of it.
LEMMA BrokerRowsInv ==
  ASSUME RowsInv, NEW r \in [version : 1 .. version', close : Close], NEW status,
         status \in {"added", "changed", "deleted"},
         version' \in Nat \ {0}, version <= version',
         Listen(status, valueOfRow(r)), Elsewhere,
         row' # <<>> => row'[1] \in [version : 1 .. version', close : Close],
         kind \in {"account", "offer"} => row' # <<>>
  PROVE  RowsInv'
<1> USE DEF RowsInv
<1>1. /\ UNCHANGED <<kind, held, phase, shown, stored>> /\ version \in Nat /\ version' \in Nat
      /\ version <= version'
  BY DEF Elsewhere
<1>2. /\ kind' \in Kind /\ version' \in Nat \ {0}
      /\ row' # <<>> => row'[1] \in [version : 1 .. version', close : Close]
      /\ kind' \in {"account", "offer"} => row' # <<>>
      /\ kind' = "offer" /\ phase' \in {"loading", "running"} => held' # <<>>
  BY <1>1
<1>3. /\ held' # <<>> => Object(kind', held'[1], version')
      /\ shown' # <<>> => Entity(kind', shown'[1], version')
      /\ stored' # <<>> => StoredRow(kind', stored'[1], version')
  BY <1>1, Later
<1> DEFINE e == [status |-> status, object |-> valueOfRow(r)]
<1>4. Object(kind, valueOfRow(r), version') /\ e \in RowEvent(kind)
  BY RowToObject DEF RowEvent
<1>5. queued' = queued \/ queued' = Append(queued, e)
  BY DEF Listen
<1>6. queued' \in Seq(RowEvent(kind'))
  BY <1>1, <1>4, <1>5
<1>7. ASSUME kind' # "offer", NEW i \in DOMAIN queued' PROVE Object(kind', queued'[i].object, version')
  <2>1. CASE i \in DOMAIN queued /\ queued'[i] = queued[i]
    BY <1>1, <1>7, <2>1, Later
  <2>2. CASE queued'[i] = e
    BY <1>1, <1>4, <2>2
  <2> QED
    BY <2>1, <2>2, <1>5, <1>4
<1> QED
  BY <1>2, <1>3, <1>6, <1>7

LEMMA OfferRowsInv ==
  ASSUME RowsInv, NEW given, OfferChanged(given)
  PROVE  RowsInv'
<1> USE DEF RowsInv
<1>1. /\ UNCHANGED <<kind, phase, shown, stored>> /\ kind = "offer"
      /\ version' = version + 1 /\ version \in Nat /\ version' \in Nat /\ version <= version'
      /\ row # <<>> /\ row' = <<[row[1] EXCEPT !.version = @ + 1]>>
  BY DEF OfferChanged
<1>2. row' # <<>> /\ row'[1] \in [version : 1 .. version', close : Close]
  BY <1>1
<1>3. /\ shown' # <<>> => Entity(kind', shown'[1], version')
      /\ stored' # <<>> => StoredRow(kind', stored'[1], version')
  BY <1>1, Later
<1>4. OfferUpdate(given) \in [Members.offer -> Nat]
  BY <1>1 DEF OfferUpdate, Blank
<1>5. Members[kind] = Members.offer
  BY <1>1 DEF Members
<1> DEFINE e == [status |-> "changed", object |-> OfferUpdate(given)]
<1>11. e \in RowEvent(kind)
  BY <1>4, <1>5 DEF RowEvent
<1>12. queued' = queued \/ queued' = Append(queued, e)
  BY DEF OfferChanged
<1> HIDE DEF e
<1>6. queued' \in Seq(RowEvent(kind'))
  <2>1. kind' = kind /\ queued \in Seq(RowEvent(kind))
    BY <1>1
  <2> HIDE DEF RowsInv
  <2>2. queued' \in Seq(RowEvent(kind))
    BY <1>11, <1>12, <2>1
  <2> QED
    BY <2>1, <2>2
<1> DEFINE new == UpdateOffer(held[1], OfferUpdate(given))
<1>7. held' = held \/ (held # <<>> /\ held' = <<new>>)
  BY <1>1 DEF OfferChanged
<1>8. ASSUME held # <<>> PROVE Object(kind, new, version')
  <2>1. PICK v \in 1 .. version : \A c \in Copied[kind] \ LiveOf(kind) : held[1][c] = v
    BY <1>8 DEF Object, FromOne
  <2>2. \A c \in Copied[kind] \ LiveOf(kind) : new[c] = v
    BY <1>1, <1>5, <2>1, ColumnFacts DEF UpdateOffer, LiveOf
  <2> QED
    BY <1>1, <2>2 DEF Object, FromOne
<1> HIDE DEF new
<1>13. held # <<>> => Object(kind, held[1], version')
  BY <1>1, Later
<1>9. held' # <<>> => Object(kind', held'[1], version')
  BY <1>1, <1>7, <1>8, <1>13
<1>14. held # <<>> => held' # <<>>
  BY <1>7
<1>10. kind' = "offer" /\ phase' \in {"loading", "running"} => held' # <<>>
  BY <1>1, <1>14
<1> QED
  BY <1>1, <1>2, <1>3, <1>6, <1>9, <1>10

LEMMA ProcessRowsInv ==
  ASSUME RowsInv, Start \/ ReadRow \/ ShowRow \/ Save \/ Stop
  PROVE  RowsInv'
<1> USE DEF RowsInv
<1>1. UNCHANGED <<kind, row, version>>
  BY DEF Start, ReadRow, ShowRow, Save, Stop
<1>2. CASE Start
  BY <1>1, <1>2 DEF Start
<1>3. CASE ReadRow
  <2>1. row # <<>> => Object(kind, valueOfRow(row[1]), version)
    BY RowToObject
  <2> QED
    BY <1>1, <1>3, <2>1 DEF ReadRow
<1>4. CASE ShowRow
  <2>1. held # <<>> => Entity(kind, toValue(held[1]), version)
    BY ObjectToEntity
  <2> QED
    BY <1>1, <1>4, <2>1 DEF ShowRow
<1>5. CASE Save
  <2>1. \A old : StoredRow(kind, Insert(shown[1]), version) /\ StoredRow(kind, Update(shown[1], old), version)
    BY <1>5, EntityToStored DEF Save
  <2> QED
    BY <1>1, <1>5, <2>1 DEF Save, Upserted
<1>6. CASE Stop
  BY <1>1, <1>6 DEF Stop
<1> QED
  BY <1>2, <1>3, <1>4, <1>5, <1>6

\* An event handler shows what it has shown, the entity of the event or that with other
\* live columns; and it stores what was stored or one of these.
LEMMA HandledRow ==
  ASSUME RowsInv, HandleEvent
  PROVE  /\ shown' # <<>> => Entity(kind, shown'[1], version)
         /\ stored' # <<>> => StoredRow(kind, stored'[1], version)
<1> USE DEF RowsInv
<1> DEFINE e == Head(queued)
           o == toValue(e.object)
           status == e.status
<1>1. queued # <<>> /\ e \in RowEvent(kind) /\ e = queued[1] /\ 1 \in DOMAIN queued
  BY DEF HandleEvent
<1>2. ASSUME kind # "offer"
      PROVE  Entity(kind, o, version) /\ DOMAIN o = Shown[kind]
  BY <1>1, <1>2, ObjectToEntity
<1>3. \A x : Entity(kind, x, version) =>
        /\ StoredRow(kind, Insert(x), version)
        /\ \A old : StoredRow(kind, Update(x, old), version)
  BY EntityToStored
<1>4. CASE kind = "offer"
  <2>1. CASE shown = <<>>
    BY <1>4, <2>1 DEF HandleEvent
  <2>2. CASE shown # <<>>
    <3> DEFINE new == [c \in DOMAIN shown[1] |-> IF c \in validOffer(o) THEN o[c] ELSE shown[1][c]]
    <3>1. shown' = <<new>> /\ stored' = stored
      BY <1>4, <2>2 DEF HandleEvent, onOffer
    <3>2. PICK v \in 1 .. version : \A c \in Shown[kind] \ LiveOf(kind) : shown[1][c] = v
      BY <2>2 DEF Entity, FromOne
    <3>3. \A c \in Shown[kind] \ LiveOf(kind) : c \in DOMAIN shown[1] /\ new[c] = v
      BY <1>4, <2>2, <3>2 DEF Entity, validOffer, LiveOf
    <3> QED
      BY <1>4, <2>2, <3>1, <3>3 DEF Entity, FromOne
  <2> QED
    BY <2>1, <2>2
<1>5. CASE kind = "account"
  <2>1. stored' = stored /\ (shown' = shown \/ shown' = <<o>>)
    BY <1>5 DEF HandleEvent, onAccount
  <2> HIDE DEF o
  <2> QED
    BY <1>2, <1>5, <2>1
<1>6. CASE kind = "order"
  <2>1. onOrder(status, o)
    BY <1>6 DEF HandleEvent
  <2> HIDE DEF o, status
  <2> QED
    BY <1>2, <1>3, <1>6, <2>1 DEF onOrder, Inserted, Updated
<1>7. CASE kind = "trade"
  <2> DEFINE x == WithHighLow(o, o.close, o.close)
  <2>1. onTrade(status, o)
    BY <1>7 DEF HandleEvent
  <2>2. o["close"] \in Close
    BY <1>2, <1>7 DEF Entity
  <2>3. \A y, high, low : Entity(kind, y, version) => Entity(kind, WithHighLow(y, high, low), version)
    <3> SUFFICES ASSUME NEW y, NEW high, NEW low, Entity(kind, y, version)
                 PROVE  Entity(kind, WithHighLow(y, high, low), version)
      OBVIOUS
    <3> DEFINE z == WithHighLow(y, high, low)
    <3>1. PICK v \in 1 .. version : \A c \in Shown[kind] \ LiveOf(kind) : y[c] = v
      BY DEF Entity, FromOne
    <3>2. Shown[kind] \subseteq DOMAIN y /\ y["close"] \in Close /\ "close" \in Shown[kind]
      BY <1>7, TradeColumnFacts DEF Entity
    <3>3. DOMAIN z = DOMAIN y \cup {"high", "low"}
          /\ \A c \in DOMAIN y \ {"high", "low"} : z[c] = y[c]
      BY DEF WithHighLow
    <3>4. \A c \in Shown[kind] \ LiveOf(kind) : c \in DOMAIN y \ {"high", "low"}
      BY <1>7, <3>2 DEF LiveOf
    <3> HIDE DEF z
    <3>5. z["close"] = y["close"]
      BY <3>2, <3>3
    <3> QED
      BY <3>1, <3>2, <3>3, <3>4, <3>5 DEF Entity, FromOne, z
  <2>4. Entity(kind, x, version) /\ Entity(kind, setHighLow(x, shown[1]), version)
    BY <1>2, <1>7, <2>3 DEF setHighLow
  <2> HIDE DEF o, status, x
  <2>5. \/ shown' = <<x>> /\ stored' = Inserted(x)
        \/ shown # <<>> /\ shown' = <<setHighLow(x, shown[1])>> /\ stored' = stored
        \/ shown # <<>> /\ shown' = <<>> /\ stored' = Updated(shown[1])
        \/ shown' = shown /\ stored' = stored
    BY <2>1 DEF onTrade, x
  <2> QED
    BY <1>3, <2>4, <2>5 DEF Inserted, Updated
<1>8. CASE kind = "closed_trade"
  <2>1. onClosedTrade(o)
    BY <1>8 DEF HandleEvent
  <2> HIDE DEF o
  <2> QED
    BY <1>2, <1>3, <1>8, <2>1 DEF onClosedTrade, Inserted
<1>9. CASE kind = "summary"
  <2>1. onSummary(status, o)
    BY <1>9 DEF HandleEvent
  <2> HIDE DEF o, status
  <2> QED
    BY <1>2, <1>9, <2>1 DEF onSummary
<1> QED
  BY <1>4, <1>5, <1>6, <1>7, <1>8, <1>9 DEF Kind

LEMMA NextRowsInv ==
  ASSUME RowsInv, [RowsNext]_rowVars
  PROVE  RowsInv'
<1> USE DEF RowsInv
<1>1. ASSUME NEW close \in Close, RowAdded(close) PROVE RowsInv'
  <2> DEFINE r == [version |-> version + 1, close |-> close]
  <2>1. /\ version' = version + 1 /\ row' = <<r>> /\ Listen("added", valueOfRow(r)) /\ Elsewhere
    BY <1>1 DEF RowAdded
  <2>2. r \in [version : 1 .. version', close : Close]
    BY <2>1
  <2>3. version' \in Nat \ {0} /\ version <= version'
    BY <2>1
  <2>4. row' # <<>> /\ row'[1] = r
    BY <2>1
  <2> HIDE DEF RowsInv, r
  <2> QED
    BY <2>1, <2>2, <2>3, <2>4, BrokerRowsInv
<1>2. ASSUME NEW close \in Close, RowChanged(close) PROVE RowsInv'
  <2> DEFINE r == [version |-> version + 1, close |-> close]
  <2>1. /\ version' = version + 1 /\ row' = <<r>> /\ Listen("changed", valueOfRow(r)) /\ Elsewhere
    BY <1>2 DEF RowChanged
  <2>2. r \in [version : 1 .. version', close : Close]
    BY <2>1
  <2>3. version' \in Nat \ {0} /\ version <= version'
    BY <2>1
  <2>4. row' # <<>> /\ row'[1] = r
    BY <2>1
  <2> HIDE DEF RowsInv, r
  <2> QED
    BY <2>1, <2>2, <2>3, <2>4, BrokerRowsInv
<1>3. ASSUME RowDeleted PROVE RowsInv'
  <2> DEFINE r == row[1]
  <2>1. /\ version' = version /\ row' = <<>> /\ Listen("deleted", valueOfRow(r)) /\ Elsewhere
        /\ kind \notin {"account", "offer"} /\ row # <<>>
    BY <1>3 DEF RowDeleted
  <2>2. r \in [version : 1 .. version', close : Close]
    BY <2>1
  <2>3. version' \in Nat \ {0} /\ version <= version'
    BY <2>1
  <2> HIDE DEF RowsInv, r
  <2> QED
    BY <2>1, <2>2, <2>3, BrokerRowsInv
<1>4. ASSUME HandleEvent PROVE RowsInv'
  <2>1. UNCHANGED <<kind, row, version, held, phase>> /\ queued # <<>> /\ queued' = Tail(queued)
    BY <1>4 DEF HandleEvent
  <2>2. queued' \in Seq(RowEvent(kind)) /\ \A i \in DOMAIN queued' : i + 1 \in DOMAIN queued /\ queued'[i] = queued[i + 1]
    BY <2>1
  <2> QED
    BY <1>4, <2>1, <2>2, HandledRow
<1>5. CASE UNCHANGED rowVars
  BY <1>5 DEF rowVars
<1> QED
  BY <1>1, <1>2, <1>3, <1>4, <1>5, OfferRowsInv, ProcessRowsInv DEF RowsNext

LEMMA RowsInvariance == RowsSpec => []RowsInv
  BY InitRowsInv, NextRowsInv, PTL DEF RowsSpec

\* TableListener::valueOfRow to sql.js: all columns of a row that is shown or stored come
\* from one version of the broker's row, whatever is copied, updated, saved and restarted.
THEOREM RowsAreWhole == RowsSpec => []RowIsWhole
<1>1. RowsInv => RowIsWhole
  BY DEF RowsInv, RowIsWhole, Entity, StoredRow, FromOne, OneVersion, Live, LiveOf
<1> QED
  BY <1>1, RowsInvariance, PTL

-----------------------------------------------------------------------------
(* Rows: the highest and the lowest close                                  *)

Extremes(e) ==
  /\ {"high", "low"} \subseteq DOMAIN e
  /\ e["high"] \in known /\ e["low"] \in known
  /\ \A close \in known : e["low"] <= close /\ close <= e["high"]

\* An entity has a high and a low as soon as an event has brought it a close; both go to
\* the database with it.
ExtremesInv ==
  kind = "trade" =>
    /\ known \subseteq Close
    /\ shown # <<>> /\ known = {} => "high" \notin DOMAIN shown[1]
    /\ shown # <<>> /\ known # {} => Extremes(shown[1])
    /\ shown = <<>> /\ stored # <<>> /\ known # {} =>
         \A close \in known : stored[1]["low"] <= close /\ close <= stored[1]["high"]

\* The handlers of a position's events.
LEMMA TradeExtremes ==
  ASSUME RowsInv, ExtremesInv, HandleEvent, kind = "trade"
  PROVE  ExtremesInv'
<1> USE DEF RowsInv, ExtremesInv
<1> DEFINE e == Head(queued)
           o == toValue(e.object)
           status == e.status
           x == WithHighLow(o, o.close, o.close)
           y == setHighLow(x, shown[1])
<1>1. queued # <<>> /\ e = queued[1] /\ 1 \in DOMAIN queued
  BY DEF HandleEvent
<1>2. Entity(kind, o, version) /\ DOMAIN o = Shown[kind]
  BY <1>1, ObjectToEntity
<1>3. o["close"] \in Close /\ "close" \in DOMAIN o /\ Close \subseteq Nat
  BY <1>2, TradeColumnFacts, RowsAssumption DEF Entity
<1>4. /\ DOMAIN x = DOMAIN o \cup {"high", "low"}
      /\ x["high"] = o["close"] /\ x["low"] = o["close"] /\ x["close"] = o["close"]
  BY <1>2, <1>3, TradeColumnFacts DEF WithHighLow
<1>5. onTrade(status, o) /\ kind' = kind
  BY DEF HandleEvent
<1>6. ASSUME shown # <<>>, known # {}
      PROVE  /\ {"high", "low"} \subseteq DOMAIN y
             /\ y["high"] = IF o["close"] < shown[1]["high"] THEN shown[1]["high"] ELSE o["close"]
             /\ y["low"] = IF o["close"] > shown[1]["low"] THEN shown[1]["low"] ELSE o["close"]
  <2>1. "high" \in DOMAIN shown[1]
    BY <1>6 DEF Extremes
  <2> HIDE DEF x
  <2> QED
    BY <1>4, <1>6, <2>1 DEF setHighLow, WithHighLow
<1>7. ASSUME shown # <<>>, known = {} PROVE y = x
  BY <1>7 DEF setHighLow
<1> HIDE DEF o, status, x, y
<1>8. \/ shown' = <<x>> /\ known' = {x["close"]}
      \/ shown # <<>> /\ shown' = <<y>> /\ known' = known \cup {x["close"]}
      \/ shown # <<>> /\ shown' = <<>> /\ stored' = Updated(shown[1]) /\ known' = known
      \/ shown' = shown /\ stored' = stored /\ known' = known
  BY <1>5 DEF onTrade, x, y
<1>9. CASE shown' = <<x>> /\ known' = {x["close"]}
  <2>1. known' \subseteq Close /\ known' # {} /\ shown' # <<>> /\ shown'[1] = x
    BY <1>3, <1>4, <1>9
  <2>4. known' = {o["close"]} /\ o["close"] \in Nat
    BY <1>3, <1>4, <1>9
  <2>2. \A close \in known' : x["low"] <= close /\ close <= x["high"]
    BY <1>4, <2>4
  <2>3. x["high"] \in known' /\ x["low"] \in known' /\ {"high", "low"} \subseteq DOMAIN x
    BY <1>4, <1>9
  <2> QED
    BY <2>1, <2>2, <2>3 DEF Extremes
<1>10. CASE shown # <<>> /\ shown' = <<y>> /\ known' = known \cup {x["close"]}
  <2>1. CASE known = {}
    BY <1>7, <1>9, <1>10, <2>1
  <2>2. CASE known # {}
    <3>1. /\ shown[1]["high"] \in known /\ shown[1]["low"] \in known
          /\ \A close \in known : shown[1]["low"] <= close /\ close <= shown[1]["high"]
      BY <1>10, <2>2 DEF Extremes
    <3>2. \A close \in known : close \in Nat
      BY <1>3
    <3>3. y["high"] \in known' /\ y["low"] \in known'
      BY <1>4, <1>6, <1>10, <2>2, <3>1
    <3>5. /\ shown[1]["high"] \in Nat /\ shown[1]["low"] \in Nat /\ o["close"] \in Nat
          /\ known' = known \cup {o["close"]}
      BY <1>3, <1>4, <1>10, <3>1, <3>2
    <3>4. \A close \in known' : y["low"] <= close /\ close <= y["high"]
      BY <1>6, <1>10, <2>2, <3>1, <3>2, <3>5
    <3> QED
      BY <1>3, <1>4, <1>5, <1>6, <1>10, <2>2, <3>3, <3>4 DEF Extremes
  <2> QED
    BY <2>1, <2>2
<1>11. CASE shown # <<>> /\ shown' = <<>> /\ stored' = Updated(shown[1]) /\ known' = known
  <2>1. ASSUME known # {}, stored' # <<>>
        PROVE  stored'[1]["high"] = shown[1]["high"] /\ stored'[1]["low"] = shown[1]["low"]
    <3>1. {"high", "low"} \subseteq retrieveValues(shown[1]) /\ {"high", "low"} \subseteq Columns[kind]
      BY <1>11, <2>1, TradeColumnFacts DEF Extremes, retrieveValues
    <3>2. stored' = <<Update(shown[1], stored[1])>>
      BY <1>11, <2>1 DEF Updated
    <3> QED
      BY <3>1, <3>2 DEF Update
  <2> QED
    BY <1>5, <1>11, <2>1 DEF Extremes
<1>12. CASE shown' = shown /\ stored' = stored /\ known' = known
  BY <1>5, <1>12 DEF Extremes
<1> QED
  BY <1>8, <1>9, <1>10, <1>11, <1>12

LEMMA NextExtremesInv ==
  ASSUME RowsInv, ExtremesInv, [RowsNext]_rowVars
  PROVE  ExtremesInv'
<1> USE DEF ExtremesInv
<1> SUFFICES ASSUME kind' = "trade" PROVE ExtremesInv'
  OBVIOUS
<1>1. ASSUME kind = "trade", UNCHANGED <<shown, stored, known>> PROVE ExtremesInv'
  BY <1>1 DEF Extremes
<1>2. kind = "trade"
  BY DEF RowsNext, RowAdded, RowChanged, RowDeleted, OfferChanged, Start, ReadRow, ShowRow, Save, Stop,
         HandleEvent, Elsewhere, rowVars
<1>3. CASE \/ \E close \in Close : RowAdded(close) \/ RowChanged(close)
           \/ RowDeleted \/ Start \/ ReadRow \/ UNCHANGED rowVars
           \/ \E given \in SUBSET {"time", "bid", "volume"} : OfferChanged(given)
  BY <1>1, <1>2, <1>3 DEF RowAdded, RowChanged, RowDeleted, OfferChanged, Start, ReadRow, Elsewhere, rowVars
<1>4. CASE ShowRow
  <2>1. CASE held = <<>>
    BY <1>1, <1>2, <1>4, <2>1 DEF ShowRow
  <2>2. CASE held # <<>>
    <3>1. shown' = <<toValue(held[1])>> /\ known' = {}
      BY <1>4, <2>2 DEF ShowRow
    <3>2. "high" \notin DOMAIN toValue(held[1])
      BY <1>2, TradeColumnFacts DEF toValue
    <3> QED
      BY <3>1, <3>2
  <2> QED
    BY <2>1, <2>2
<1>5. CASE Save
  <2>1. UNCHANGED <<shown, known>> /\ shown # <<>>
    BY <1>5 DEF Save
  <2> QED
    BY <1>2, <2>1 DEF Extremes
<1>6. CASE Stop
  BY <1>6 DEF Stop
<1>7. CASE HandleEvent
  BY <1>2, <1>7, TradeExtremes
<1> QED
  BY <1>3, <1>4, <1>5, <1>6, <1>7 DEF RowsNext

\* Position.setHighLow: the high and the low of a position are the extremes of the closes
\* that it was shown with, and go to the database when it is closed.
THEOREM HighAndLow == RowsSpec => []ExtremesAreKept
<1>1. RowsInit => ExtremesInv
  BY DEF RowsInit, ExtremesInv
<1>2. RowsInv /\ ExtremesInv /\ [RowsNext]_rowVars => ExtremesInv'
  BY NextExtremesInv
<1>3. ExtremesInv => ExtremesAreKept
  BY DEF ExtremesInv, ExtremesAreKept, Extremes
<1> QED
  BY <1>1, <1>2, <1>3, RowsInvariance, PTL DEF RowsSpec
=============================================================================
