--------------------------- MODULE AccountFeed_proofs ---------------------------
(* Proofs about AccountFeed, for every venue, order size and number of sessions:   *)
(* no execution is counted twice, an end that is told is real, and a consumer that *)
(* has read everything knows the order, the position and the balance.              *)
EXTENDS AccountFeed, FiniteSetTheorems, SequenceTheorems, TLAPS

---------------------------------------------------------------------------------
(* The inductive invariant: what each frame on its way will say.                   *)

(* What the connector makes of a frame. *)
Means(f) == ParsePrivate(account, f)

Told(u) == [status |-> u.status, filled |-> u.filled_size]

Truth == [status |-> Status, filled |-> filled]

EndStatuses == {"filled", "canceled", "done"}

\* A status that speaks of an end speaks of the order's own.
IsTrueEnd(status) == status \in EndStatuses => ended # "no" /\ status = Status

IsFill(f, t) ==
  /\ t = FillTopic[account]
  /\ f.execution \in 1 .. filled
  /\ Means(f).is = "OrderUpdate" /\ Means(f).match_size = 1
  /\ Means(f).trade_id = f.execution
  /\ account \notin Split => IsTrueEnd(Means(f).status)

IsOrder(f, t) ==
  /\ t = OrderTopic[account]
  /\ f.execution = 0
  /\ Means(f).is = "OrderUpdate" /\ Means(f).match_size = None
  /\ IsTrueEnd(Means(f).status)

IsBalance(f, t) ==
  t = BalanceTopic[account] /\ f.execution = 0 /\ Means(f).is = "BalanceUpdate"

IsPosition(f, t) == t = "position" /\ f.execution = 0 /\ Means(f).is = "PositionChange"

IsReport(f, t) == IsFill(f, t) \/ IsOrder(f, t) \/ IsBalance(f, t) \/ IsPosition(f, t)

AllData ==
  {FillReport(k) : k \in 1 .. Size}
    \cup {OrderReport(k, TRUE) : k \in 0 .. Size} \cup {OrderReport(k, FALSE) : k \in 0 .. Size}
    \cup {BalanceReport(k, TRUE) : k \in 0 .. Size} \cup {BalanceReport(k, FALSE) : k \in 0 .. Size}
    \cup {PositionReport(k) : k \in 0 .. Size}

AllFrames == {Report(x[1], x[2], x[3]) : x \in Topics \X (0 .. Size) \X AllData}

AccountTypes ==
  /\ account \in AllAccounts /\ direction \in {1, -1}
  /\ filled \in 0 .. Size
  /\ ended \in {"no", "filled", "canceled"}
  /\ ended = "filled" <=> filled = Size
  /\ joined \in Nat
  /\ subscribed \in BOOLEAN /\ lost \in BOOLEAN
  /\ queue \in [Topics -> Seq(AllFrames)]

QueuesAreTrue == \A t \in Topics : \A i \in 1 .. Len(queue[t]) : IsReport(queue[t][i], t)

Counting == executions \subseteq 1 .. filled /\ seen = executions /\ ExecutionsCountedOnce

Sessions ==
  /\ ~ subscribed => \A t \in Topics : queue[t] = <<>>
  /\ joined = 0 => ~ subscribed
  /\ ~ lost /\ joined = 0 => filled = 0 /\ ended = "no"

(* The last frame of a queue, or the consumer where the queue is empty, is up to    *)
(* date.                                                                            *)
Final(t) == queue[t][Len(queue[t])]

OrderInSight ==
  LET t == OrderTopic[account]
  IN  /\ queue[t] = <<>> => told = Truth
      /\ queue[t] # <<>> => Told(Means(Final(t))) = Truth

PositionInSight ==
  /\ queue["position"] = <<>> => position = direction * filled
  /\ queue["position"] # <<>> => Means(Final("position")).current_qty = direction * filled

IsBalanced(available, held) ==
  /\ account # "kraken" =>
       available = Free(filled, ended # "no") /\ held = Held(filled, ended # "no")
  /\ account = "kraken" => available + held = Size - filled

BalanceInSight ==
  LET t == BalanceTopic[account]
  IN  /\ queue[t] = <<>> => IsBalanced(balance.available, balance.held)
      /\ queue[t] # <<>> =>
           IsBalanced(Means(Final(t)).available_balance, Means(Final(t)).hold_balance)

TruthInSight ==
  ~ lost => /\ account \in Split \/ joined <= 1 => OrderInSight
            /\ account \in {"bybit", "kucoin"} => PositionInSight
            /\ BalanceInSight

BalanceIsRecord == balance = [available |-> balance.available, held |-> balance.held]

AccountInv ==
  /\ AccountTypes /\ BalanceIsRecord /\ QueuesAreTrue
  /\ Counting /\ EndIsReal /\ Sessions /\ TruthInSight

---------------------------------------------------------------------------------
(* The connectors: what each report means, from the venue's own fields.            *)

LEMMA StatusOf ==
  /\ BinanceStatus("FILLED") = "filled" /\ BinanceStatus("PARTIALLY_FILLED") = "partialFilled"
  /\ BinanceStatus("CANCELED") = "canceled"
  /\ KrakenStatus("filled") = "filled" /\ KrakenStatus("partially_filled") = "partialFilled"
  /\ KrakenStatus("canceled") = "canceled"
  /\ BybitStatus("Filled") = "filled" /\ BybitStatus("PartiallyFilled") = "partialFilled"
  /\ BybitStatus("Cancelled") = "canceled"
  /\ \A k \in Nat : /\ CryptocomStatus("FILLED", k) = "filled"
                    /\ CryptocomStatus("CANCELED", k) = "canceled"
                    /\ k > 0 => CryptocomStatus("ACTIVE", k) = "partialFilled"
  BY DEF BinanceStatus, KrakenStatus, BybitStatus, CryptocomStatus

\* The report of a fill names the execution and counts one unit.
LEMMA FillMeans ==
  ASSUME account \in AllAccounts, NEW k \in 1 .. Size, NEW u,
         u = Means(Report(FillTopic[account], k, FillReport(k)))
  PROVE  /\ u.is = "OrderUpdate" /\ u.match_size = 1 /\ u.trade_id = k
         /\ account \notin Split =>
              /\ u.status = IF account = "kucoin" THEN "match"
                            ELSE IF k = Size THEN "filled" ELSE "partialFilled"
              /\ u.filled_size = k
<1> DEFINE f == Report(FillTopic[account], k, FillReport(k))
           d == FillReport(k)
<1>1. f.topic = FillTopic[account] /\ f.data = d
  BY DEF Report
<1> HIDE DEF f, d
<1>2. u = Means(f)
  BY DEF f
<1>3. CASE account = "binance"
  <2>1. d = [X |-> Word(k, FALSE), x |-> "TRADE", q |-> Size, z |-> k, l |-> 1, t |-> k]
    BY <1>3 DEF d, FillReport
  <2>2. f.topic = "executionReport"
    BY <1>1, <1>3 DEF FillTopic, OrderTopic
  <2>3. u = BinanceExecutionReport(d)
    BY <1>1, <1>2, <1>3, <2>2 DEF Means, ParsePrivate, ParseBinanceUser
  <2>4. Word(k, FALSE) = IF k = Size THEN "FILLED" ELSE "PARTIALLY_FILLED"
    BY <1>3 DEF Word, StatusWords
  <2>5. u.status = IF k = Size THEN "filled" ELSE "partialFilled"
    <3>1. u.status = BinanceStatus(d.X) /\ d.X = Word(k, FALSE)
      BY <2>1, <2>3 DEF BinanceExecutionReport, OrderUpdate
    <3>2. QED
      BY <2>4, <3>1, StatusOf
  <2>6. u.is = "OrderUpdate" /\ u.match_size = 1 /\ u.trade_id = k /\ u.filled_size = k
    BY <2>1, <2>3 DEF BinanceExecutionReport, OrderUpdate
  <2>7. QED
    BY <1>3, <2>5, <2>6
<1>4. CASE account = "kraken"
  <2>1. d = [order_status |-> Word(k, FALSE), exec_type |-> "trade", order_qty |-> Size,
             cum_qty |-> k, last_qty |-> 1, exec_id |-> k, order_id |-> 0]
    BY <1>4 DEF d, FillReport
  <2>2. f.topic = "executions"
    BY <1>1, <1>4 DEF FillTopic, OrderTopic
  <2>3. u = KrakenExecution(d)
    BY <1>1, <1>2, <1>4, <2>2 DEF Means, ParsePrivate, ParseKraken
  <2>4. Word(k, FALSE) = IF k = Size THEN "filled" ELSE "partially_filled"
    BY <1>4 DEF Word, StatusWords
  <2>5. u.status = IF k = Size THEN "filled" ELSE "partialFilled"
    <3>1. u.status = KrakenStatus(d.order_status) /\ d.order_status = Word(k, FALSE)
      BY <2>1, <2>3 DEF KrakenExecution, OrderUpdate
    <3>2. QED
      BY <2>4, <3>1, StatusOf
  <2>6. u.is = "OrderUpdate" /\ u.match_size = 1 /\ u.trade_id = k /\ u.filled_size = k
    BY <2>1, <2>3 DEF KrakenExecution, OrderUpdate
  <2>7. QED
    BY <1>4, <2>5, <2>6
<1>5. CASE account = "bybit"
  <2>1. d = [orderQty |-> Size, execQty |-> 1, execId |-> k]
    BY <1>5 DEF d, FillReport
  <2>2. f.topic = "execution"
    BY <1>1, <1>5 DEF FillTopic, OrderTopic
  <2>3. u = BybitExecution(d)
    BY <1>1, <1>2, <1>5, <2>2 DEF Means, ParsePrivate, ParseBybitPrivate
  <2>4. QED
    BY <1>5, <2>1, <2>3 DEF BybitExecution, OrderUpdate, Split
<1>6. CASE account = "cryptocom"
  <2>1. d = [traded_quantity |-> 1, trade_id |-> k]
    BY <1>6 DEF d, FillReport
  <2>2. f.topic = "user.trade"
    BY <1>1, <1>6 DEF FillTopic, OrderTopic
  <2>3. u = CryptocomUserTrade(d)
    BY <1>1, <1>2, <1>6, <2>2 DEF Means, ParsePrivate, ParseCryptocomUser
  <2>4. QED
    BY <1>6, <2>1, <2>3 DEF CryptocomUserTrade, OrderUpdate, Split
<1>7. CASE account = "kucoin"
  <2>1. d = KucoinReport("match", k, 1, k)
    BY <1>7 DEF d, FillReport
  <2>2. f.topic = "tradeOrders"
    BY <1>1, <1>7 DEF FillTopic, OrderTopic
  <2>3. u = KucoinOrder(d)
    BY <1>1, <1>2, <1>7, <2>2 DEF Means, ParsePrivate, ParseKucoin
  <2>4. QED
    BY <1>7, <2>1, <2>3 DEF KucoinOrder, KucoinReport, OrderUpdate
<1>8. QED
  BY <1>3, <1>4, <1>5, <1>6, <1>7 DEF AllAccounts

(* The status a connector reads out of a venue's own word. *)
ReadStatus(word, k) ==
  CASE account = "binance" -> BinanceStatus(word)
    [] account = "kraken" -> KrakenStatus(word)
    [] account = "bybit" -> BybitStatus(word)
    [] account = "cryptocom" -> CryptocomStatus(word, k)
    [] account = "kucoin" -> "done"

\* The order's own report counts nothing and tells its status and filled size.
LEMMA OrderMeans ==
  ASSUME account \in AllAccounts, NEW k \in 0 .. Size, NEW canceled \in BOOLEAN,
         NEW u, u = Means(Report(OrderTopic[account], 0, OrderReport(k, canceled)))
  PROVE  /\ u.is = "OrderUpdate" /\ u.match_size = None /\ u.filled_size = k
         /\ u.status = ReadStatus(Word(k, canceled), k)
<1> DEFINE d == OrderReport(k, canceled)
           word == Word(k, canceled)
           f == Report(OrderTopic[account], 0, d)
<1>1. f.topic = OrderTopic[account] /\ f.data = d
  BY DEF Report
<1>2. u = Means(f)
  BY DEF f
<1> HIDE DEF f, d
<1> SUFFICES /\ u.is = "OrderUpdate" /\ u.match_size = None /\ u.filled_size = k
             /\ u.status = CASE account = "binance" -> BinanceStatus(word)
                             [] account = "kraken" -> KrakenStatus(word)
                             [] account = "bybit" -> BybitStatus(word)
                             [] account = "cryptocom" -> CryptocomStatus(word, k)
                             [] account = "kucoin" -> "done"
  BY DEF ReadStatus
<1>w. word = Word(k, canceled)
  OBVIOUS
<1> HIDE DEF word
<1>3. CASE account = "binance"
  <2>1. f.topic = "executionReport"
    BY <1>1, <1>3 DEF OrderTopic
  <2>2. u = BinanceExecutionReport(d)
    BY <1>1, <1>2, <1>3, <2>1 DEF Means, ParsePrivate, ParseBinanceUser
  <2>3. d.X = word /\ d.x = "CANCELED" /\ d.z = k
    BY <1>3, <1>w DEF d, OrderReport
  <2>4. QED
    BY <1>3, <2>2, <2>3 DEF BinanceExecutionReport, OrderUpdate
<1>4. CASE account = "kraken"
  <2>1. f.topic = "executions"
    BY <1>1, <1>4 DEF OrderTopic
  <2>2. u = KrakenExecution(d)
    BY <1>1, <1>2, <1>4, <2>1 DEF Means, ParsePrivate, ParseKraken
  <2>3. d.order_status = word /\ d.exec_type = "canceled" /\ d.cum_qty = k
    BY <1>4, <1>w DEF d, OrderReport
  <2>4. QED
    BY <1>4, <2>2, <2>3 DEF KrakenExecution, OrderUpdate
<1>5. CASE account = "bybit"
  <2>1. f.topic = "order"
    BY <1>1, <1>5 DEF OrderTopic
  <2>2. u = BybitOrder(d)
    BY <1>1, <1>2, <1>5, <2>1 DEF Means, ParsePrivate, ParseBybitPrivate
  <2>3. d.orderStatus = word /\ d.cumExecQty = k
    BY <1>5, <1>w DEF d, OrderReport
  <2>4. QED
    BY <1>5, <2>2, <2>3 DEF BybitOrder, OrderUpdate
<1>6. CASE account = "cryptocom"
  <2>1. f.topic = "user.order"
    BY <1>1, <1>6 DEF OrderTopic
  <2>2. u = CryptocomOrder(d)
    BY <1>1, <1>2, <1>6, <2>1 DEF Means, ParsePrivate, ParseCryptocomUser
  <2>3. d.status = word /\ d.cumulative_quantity = k
    BY <1>6, <1>w DEF d, OrderReport
  <2>4. QED
    BY <1>6, <2>2, <2>3 DEF CryptocomOrder, OrderUpdate
<1>7. CASE account = "kucoin"
  <2>1. f.topic = "tradeOrders"
    BY <1>1, <1>7 DEF OrderTopic
  <2>2. u = KucoinOrder(d)
    BY <1>1, <1>2, <1>7, <2>1 DEF Means, ParsePrivate, ParseKucoin
  <2>3. d = KucoinReport("done", k, None, None)
    BY <1>7, <1>w DEF d, OrderReport
  <2>4. QED
    BY <1>7, <2>2, <2>3 DEF KucoinOrder, KucoinReport, OrderUpdate
<1>8. QED
  BY <1>3, <1>4, <1>5, <1>6, <1>7 DEF AllAccounts

\* The end by a cancel, and the state after a fill where the order has a topic of
\* its own or, on KuCoin, after the last fill.
LEMMA CancelMeans ==
  ASSUME account \in AllAccounts, NEW k \in 0 .. Size, NEW u,
         u = Means(Report(OrderTopic[account], 0, OrderReport(k, TRUE)))
  PROVE  /\ u.is = "OrderUpdate" /\ u.match_size = None /\ u.filled_size = k
         /\ u.status = IF account = "kucoin" THEN "done" ELSE "canceled"
<1> DEFINE word == Word(k, TRUE)
<1>1. /\ account = "binance" => word = "CANCELED"
      /\ account = "kraken" => word = "canceled"
      /\ account = "bybit" => word = "Cancelled"
      /\ account = "cryptocom" => word = "CANCELED"
  BY DEF Word, StatusWords
<1>2. word = Word(k, TRUE)
  OBVIOUS
<1> HIDE DEF word
<1>3. /\ u.is = "OrderUpdate" /\ u.match_size = None /\ u.filled_size = k
      /\ u.status = ReadStatus(word, k)
  BY <1>2, OrderMeans
<1>4. k \in Nat
  BY OrderAssumption
<1>5. QED
  BY <1>1, <1>3, <1>4, StatusOf DEF AllAccounts, ReadStatus

LEMMA OrderFillMeans ==
  ASSUME account \in Split \cup {"kucoin"}, NEW k \in 1 .. Size, NEW u,
         u = Means(Report(OrderTopic[account], 0, OrderReport(k, FALSE)))
  PROVE  /\ u.is = "OrderUpdate" /\ u.match_size = None /\ u.filled_size = k
         /\ u.status = IF account = "kucoin" THEN "done"
                       ELSE IF k = Size THEN "filled" ELSE "partialFilled"
<1> DEFINE word == Word(k, FALSE)
<1>1. /\ account = "bybit" => word = IF k = Size THEN "Filled" ELSE "PartiallyFilled"
      /\ account = "cryptocom" => word = IF k = Size THEN "FILLED" ELSE "ACTIVE"
  BY DEF Word, StatusWords
<1>2. word = Word(k, FALSE)
  OBVIOUS
<1> HIDE DEF word
<1>3. account \in AllAccounts /\ k \in 0 .. Size /\ k \in Nat /\ k > 0
  BY OrderAssumption DEF Split, AllAccounts
<1>4. /\ u.is = "OrderUpdate" /\ u.match_size = None /\ u.filled_size = k
      /\ u.status = ReadStatus(word, k)
  BY <1>2, <1>3, OrderMeans
<1>5. QED
  BY <1>1, <1>3, <1>4, StatusOf DEF Split, ReadStatus

(* The payload of a balance report, by what is free and what is held. *)
BalanceData(free, held) ==
  CASE account = "binance"   -> [f |-> free, l |-> held]
    [] account = "kraken"    -> [balance |-> free + held]
    [] account = "bybit"     -> [availableToWithdraw |-> free, locked |-> held]
    [] account = "cryptocom" -> [max_withdrawal_balance |-> free, quantity |-> free + held,
                                 reserved_qty |-> held]
    [] account = "kucoin"    -> [availableBalance |-> free, holdBalance |-> held]

\* Balances and positions.
LEMMA BalanceMeans ==
  ASSUME account \in AllAccounts, NEW free \in Int, NEW held \in Int,
         NEW u, u = Means(Report(BalanceTopic[account], 0, BalanceData(free, held)))
  PROVE  /\ u.is = "BalanceUpdate"
         /\ account # "kraken" => u.available_balance = free /\ u.hold_balance = held
         /\ account = "kraken" => u.available_balance + u.hold_balance = free + held
<1> DEFINE d == BalanceData(free, held)
           f == Report(BalanceTopic[account], 0, d)
<1>1. f.topic = BalanceTopic[account] /\ f.data = d
  BY DEF Report
<1>d. d = BalanceData(free, held)
  OBVIOUS
<1> HIDE DEF f, d
<1>2. u = Means(f)
  BY DEF f, d
<1>3. CASE account = "binance"
  <2>1. u = BinanceAccountPosition(d)
    BY <1>1, <1>2, <1>3 DEF BalanceTopic, Means, ParsePrivate, ParseBinanceUser
  <2>2. QED
    BY <1>3, <1>d, <2>1 DEF BinanceAccountPosition, BalanceUpdate, BalanceData
<1>4. CASE account = "kraken"
  <2>1. u = KrakenBalances(d)
    BY <1>1, <1>2, <1>4 DEF BalanceTopic, Means, ParsePrivate, ParseKraken
  <2>2. u.is = "BalanceUpdate" /\ u.available_balance = free + held /\ u.hold_balance = 0
    BY <1>4, <1>d, <2>1 DEF KrakenBalances, BalanceUpdate, BalanceData
  <2>3. QED
    BY <1>4, <2>2
<1>5. CASE account = "bybit"
  <2>1. u = BybitWallet(d)
    BY <1>1, <1>2, <1>5 DEF BalanceTopic, Means, ParsePrivate, ParseBybitPrivate
  <2>2. QED
    BY <1>5, <1>d, <2>1 DEF BybitWallet, BalanceUpdate, BalanceData
<1>6. CASE account = "cryptocom"
  <2>1. u = CryptocomUserBalance(d)
    BY <1>1, <1>2, <1>6 DEF BalanceTopic, Means, ParsePrivate, ParseCryptocomUser
  <2>2. d.max_withdrawal_balance = free /\ d.reserved_qty = held /\ free # None
    BY <1>6, <1>d, NoMatchAssumption DEF BalanceData
  <2>3. QED
    BY <1>6, <1>d, <2>1, <2>2 DEF BalanceData, CryptocomUserBalance, BalanceUpdate, Or
<1>7. CASE account = "kucoin"
  <2>1. u = KucoinBalance(d)
    BY <1>1, <1>2, <1>7 DEF BalanceTopic, Means, ParsePrivate, ParseKucoin
  <2>2. QED
    BY <1>7, <1>d, <2>1 DEF KucoinBalance, BalanceUpdate, BalanceData
<1>8. QED
  BY <1>3, <1>4, <1>5, <1>6, <1>7 DEF AllAccounts

LEMMA PositionMeans ==
  ASSUME account \in {"bybit", "kucoin"}, direction \in {1, -1}, NEW k \in 0 .. Size, NEW u,
         u = Means(Report("position", 0, PositionReport(k)))
  PROVE  u.is = "PositionChange" /\ u.current_qty = direction * k
<1> DEFINE f == Report("position", 0, PositionReport(k))
           d == PositionReport(k)
<1>1. f.topic = "position" /\ f.data = d
  BY DEF Report
<1> HIDE DEF f, d
<1>2. u = Means(f)
  BY DEF f
<1>3. CASE account = "bybit"
  <2>1. u = BybitPosition(d)
    BY <1>1, <1>2, <1>3 DEF Means, ParsePrivate, ParseBybitPrivate
  <2>2. CASE direction = 1
    <3>1. d.side = "Buy" /\ d.size = k
      BY <1>3, <2>2 DEF d, PositionReport
    <3>2. QED
      BY <2>1, <2>2, <3>1 DEF BybitPosition, PositionChange
  <2>3. CASE direction = -1
    <3>1. d.side = "Sell" /\ d.size = k
      BY <1>3, <2>3 DEF d, PositionReport
    <3>2. QED
      BY <2>1, <2>3, <3>1 DEF BybitPosition, PositionChange
  <2>4. QED
    BY <2>2, <2>3
<1>4. CASE account = "kucoin"
  <2>1. u = KucoinPosition(d)
    BY <1>1, <1>2, <1>4 DEF Means, ParsePrivate, ParseKucoin
  <2>2. d.currentQty = direction * k
    BY <1>4 DEF d, PositionReport
  <2>3. QED
    BY <2>1, <2>2 DEF KucoinPosition, PositionChange
<1>5. QED
  BY <1>3, <1>4

---------------------------------------------------------------------------------
(* Frames on their way.                                                            *)

LEMMA PushedInTurn ==
  ASSUME NEW S, NEW q \in Seq(S), NEW r \in Seq(S)
  PROVE  /\ q \o r \in Seq(S)
         /\ r = <<>> => q \o r = q
         /\ r # <<>> => q \o r # <<>> /\ (q \o r)[Len(q \o r)] = r[Len(r)]
         /\ \A i \in 1 .. Len(q \o r) :
              \/ \E j \in 1 .. Len(q) : (q \o r)[i] = q[j]
              \/ \E j \in 1 .. Len(r) : (q \o r)[i] = r[j]
<1>1. /\ Len(q) \in Nat /\ Len(r) \in Nat
      /\ q \o r \in Seq(S) /\ Len(q \o r) = Len(q) + Len(r)
      /\ \A i \in 1 .. Len(q) : (q \o r)[i] = q[i]
      /\ \A i \in Len(q) + 1 .. Len(q) + Len(r) : (q \o r)[i] = r[i - Len(q)]
  BY ConcatProperties, LenProperties
<1>2. r = <<>> => q \o r = q
  BY ConcatEmptySeq
<1>3. ASSUME r # <<>>
      PROVE  q \o r # <<>> /\ (q \o r)[Len(q \o r)] = r[Len(r)]
  <2>1. Len(r) > 0
    BY <1>1, <1>3, EmptySeq
  <2>2. Len(q) + Len(r) \in Len(q) + 1 .. Len(q) + Len(r) /\ (Len(q) + Len(r)) - Len(q) = Len(r)
    BY <1>1, <2>1
  <2>3. QED
    BY <1>1, <2>1, <2>2, EmptySeq
<1>4. ASSUME NEW i \in 1 .. Len(q \o r)
      PROVE  \/ \E j \in 1 .. Len(q) : (q \o r)[i] = q[j]
             \/ \E j \in 1 .. Len(r) : (q \o r)[i] = r[j]
  <2>1. CASE i \in 1 .. Len(q)
    BY <1>1, <2>1
  <2>2. CASE i \in Len(q) + 1 .. Len(q) + Len(r)
    <3>1. i - Len(q) \in 1 .. Len(r)
      BY <1>1, <2>2
    <3>2. QED
      BY <1>1, <2>2, <3>1
  <2>3. QED
    BY <1>1, <1>4, <2>1, <2>2
<1>5. QED
  BY <1>1, <1>2, <1>3, <1>4

LEMMA PartsOfFour ==
  ASSUME NEW x, NEW y
  PROVE  /\ <<>> \o <<>> \o <<>> \o <<>> = <<>>
         /\ <<x>> \o <<>> \o <<>> \o <<>> = <<x>>
         /\ <<>> \o <<x>> \o <<>> \o <<>> = <<x>>
         /\ <<>> \o <<>> \o <<x>> \o <<>> = <<x>>
         /\ <<>> \o <<>> \o <<>> \o <<x>> = <<x>>
         /\ <<x>> \o <<y>> \o <<>> \o <<>> = <<x, y>>
<1> DEFINE S == {x, y}
<1>1. <<>> \in Seq(S) /\ <<x>> \in Seq(S) /\ <<y>> \in Seq(S) /\ <<x, y>> \in Seq(S)
  OBVIOUS
<1>l. Len(<<x>>) = 1 /\ Len(<<y>>) = 1 /\ Len(<<x, y>>) = 2
  OBVIOUS
<1>e. <<x>>[1] = x /\ <<y>>[1] = y /\ <<x, y>>[1] = x /\ <<x, y>>[2] = y
  OBVIOUS
<1> HIDE DEF S
<1>2. <<x>> \o <<y>> = <<x, y>>
  <2> DEFINE a == <<x>>
             b == <<y>>
             c == <<x, y>>
  <2> HIDE DEF a, b, c
  <2>1. a \in Seq(S) /\ b \in Seq(S) /\ c \in Seq(S) /\ Len(a) = 1 /\ Len(b) = 1 /\ Len(c) = 2
        /\ a[1] = x /\ b[1] = y /\ c[1] = x /\ c[2] = y
    BY <1>1, <1>l, <1>e DEF a, b, c
  <2>2. /\ a \o b \in Seq(S) /\ Len(a \o b) = Len(a) + Len(b)
        /\ \A i \in 1 .. Len(a) + Len(b) :
             (a \o b)[i] = IF i <= Len(a) THEN a[i] ELSE b[i - Len(a)]
    BY <2>1, ConcatProperties
  <2>i. Len(a \o b) = 2 /\ \A i \in 1 .. 2 : (a \o b)[i] = IF i <= 1 THEN a[i] ELSE b[i - 1]
    BY <2>1, <2>2
  <2>3. \A i \in 1 .. 2 : (a \o b)[i] = c[i]
    BY <2>1, <2>i
  <2>4. a \o b = c
    BY <2>1, <2>2, <2>i, <2>3, SeqEqual
  <2>5. QED
    BY <2>4 DEF a, b, c
<1>3. \A q \in Seq(S) : q \o <<>> = q /\ <<>> \o q = q
  BY ConcatEmptySeq
<1>4. QED
  BY <1>1, <1>2, <1>3

\* The sets of topics and of frames do not change while the account does not.
LEMMA FramesStay ==
  ASSUME account' = account, direction' = direction
  PROVE  /\ Topics' = Topics
         /\ AllFrames' = AllFrames
         /\ \A f : Means(f)' = Means(f)
<1>1. Topics' = Topics
  BY DEF Topics
<1>2. AllFrames' = AllFrames
  BY <1>1 DEF AllFrames, AllData, FillReport, OrderReport, BalanceReport, PositionReport, Word,
     KucoinReport, Free, Held
<1>3. \A f : Means(f)' = Means(f)
  BY DEF Means
<1>4. QED
  BY <1>1, <1>2, <1>3

LEMMA TopicsApart ==
  ASSUME account \in AllAccounts
  PROVE  /\ OrderTopic[account] # BalanceTopic[account]
         /\ FillTopic[account] # BalanceTopic[account]
         /\ OrderTopic[account] # "position" /\ FillTopic[account] # "position"
         /\ BalanceTopic[account] # "position"
         /\ account \in Split => OrderTopic[account] # FillTopic[account]
         /\ account \notin Split => OrderTopic[account] = FillTopic[account]
<1>1. CASE account = "binance"
  BY <1>1 DEF OrderTopic, FillTopic, BalanceTopic, Split
<1>2. CASE account = "kraken"
  BY <1>2 DEF OrderTopic, FillTopic, BalanceTopic, Split
<1>3. CASE account = "bybit"
  BY <1>3 DEF OrderTopic, FillTopic, BalanceTopic, Split
<1>4. CASE account = "cryptocom"
  BY <1>4 DEF OrderTopic, FillTopic, BalanceTopic, Split
<1>5. CASE account = "kucoin"
  BY <1>5 DEF OrderTopic, FillTopic, BalanceTopic, Split
<1>6. QED
  BY <1>1, <1>2, <1>3, <1>4, <1>5 DEF AllAccounts

(* What execution number k adds to a topic, and what a cancel after k of them adds. *)
FillAdds(t, k) == Reports(t, k, TRUE, k = Size)

CancelAdds(t, k) == Reports(t, k, FALSE, TRUE)

BalanceReportAfter(k) == BalanceReport(k, k = Size)

LEMMA FillReports ==
  ASSUME account \in AllAccounts, NEW t, NEW cum, NEW r,
         r = FillAdds(t, cum)
  PROVE  /\ t = FillTopic[account] /\ account \in Split =>
              r = <<Report(t, cum, FillReport(cum))>>
         /\ t = OrderTopic[account] /\ account \in Split =>
              r = <<Report(t, 0, OrderReport(cum, FALSE))>>
         /\ t = OrderTopic[account] /\ account \notin Split =>
              r = IF account = "kucoin" /\ cum = Size
                  THEN <<Report(t, cum, FillReport(cum)), Report(t, 0, OrderReport(cum, FALSE))>>
                  ELSE <<Report(t, cum, FillReport(cum))>>
         /\ t = BalanceTopic[account] => r = <<Report(t, 0, BalanceReportAfter(cum))>>
         /\ t = "position" =>
              r = IF account \in {"bybit", "kucoin"} THEN <<Report(t, 0, PositionReport(cum))>>
                  ELSE <<>>
<1> DEFINE F == Report(t, cum, FillReport(cum))
           O == Report(t, 0, OrderReport(cum, FALSE))
           B == Report(t, 0, BalanceReportAfter(cum))
           P == Report(t, 0, PositionReport(cum))
           a == IF t = FillTopic[account] THEN <<F>> ELSE <<>>
           b == IF t = OrderTopic[account]
                   /\ (account \in Split \/ (account = "kucoin" /\ cum = Size)) THEN <<O>> ELSE <<>>
           c == IF t = BalanceTopic[account] THEN <<B>> ELSE <<>>
           d == IF t = "position" /\ account \in {"bybit", "kucoin"} THEN <<P>> ELSE <<>>
<1>1. r = a \o b \o c \o d
  BY DEF FillAdds, BalanceReportAfter, Reports
<1> HIDE DEF F, O, B, P
<1>2. /\ t = FillTopic[account] /\ account \in Split => r = <<F>>
      /\ t = OrderTopic[account] /\ account \in Split => r = <<O>>
      /\ t = OrderTopic[account] /\ account \notin Split =>
           r = IF account = "kucoin" /\ cum = Size THEN <<F, O>> ELSE <<F>>
      /\ t = BalanceTopic[account] => r = <<B>>
      /\ t = "position" => r = IF account \in {"bybit", "kucoin"} THEN <<P>> ELSE <<>>
  BY <1>1, TopicsApart, PartsOfFour
<1>3. QED
  BY <1>2 DEF F, O, B, P

\* What a cancel adds to a topic.
LEMMA CancelReports ==
  ASSUME account \in AllAccounts, NEW t, NEW cum, NEW r,
         r = CancelAdds(t, cum)
  PROVE  /\ t = OrderTopic[account] => r = <<Report(t, 0, OrderReport(cum, TRUE))>>
         /\ t = BalanceTopic[account] => r = <<Report(t, 0, BalanceReport(cum, TRUE))>>
         /\ t \notin {OrderTopic[account], BalanceTopic[account]} => r = <<>>
<1> DEFINE O == Report(t, 0, OrderReport(cum, TRUE))
           B == Report(t, 0, BalanceReport(cum, TRUE))
           e == <<>>
           b == IF t = OrderTopic[account] THEN <<O>> ELSE <<>>
           c == IF t = BalanceTopic[account] THEN <<B>> ELSE <<>>
<1>1. r = <<>> \o b \o c \o <<>>
  BY DEF CancelAdds, Reports
<1> HIDE DEF O, B
<1>2. /\ t = OrderTopic[account] => r = <<O>>
      /\ t = BalanceTopic[account] => r = <<B>>
      /\ t \notin {OrderTopic[account], BalanceTopic[account]} => r = <<>>
  BY <1>1, TopicsApart, PartsOfFour
<1>3. QED
  BY <1>2 DEF O, B

\* Every report the venue makes is one of the frames.
LEMMA FramesMade ==
  ASSUME NEW t \in Topics, NEW k \in 0 .. Size
  PROVE  /\ \A id \in 0 .. Size : k > 0 => Report(t, id, FillReport(k)) \in AllFrames
         /\ Report(t, 0, OrderReport(k, TRUE)) \in AllFrames
         /\ Report(t, 0, OrderReport(k, FALSE)) \in AllFrames
         /\ Report(t, 0, BalanceReport(k, TRUE)) \in AllFrames
         /\ Report(t, 0, BalanceReport(k, FALSE)) \in AllFrames
         /\ Report(t, 0, PositionReport(k)) \in AllFrames
<1>1. 0 \in 0 .. Size /\ (k > 0 => k \in 1 .. Size)
  BY OrderAssumption
<1>2. \A id \in 0 .. Size, d \in AllData : Report(t, id, d) \in AllFrames
  <2> TAKE id \in 0 .. Size, d \in AllData
  <2> DEFINE x == <<t, id, d>>
  <2>1. x \in Topics \X (0 .. Size) \X AllData /\ x[1] = t /\ x[2] = id /\ x[3] = d
    OBVIOUS
  <2> HIDE DEF x
  <2>2. QED
    BY <2>1 DEF AllFrames
<1>3. /\ k > 0 => FillReport(k) \in AllData
      /\ OrderReport(k, TRUE) \in AllData /\ OrderReport(k, FALSE) \in AllData
      /\ BalanceReport(k, TRUE) \in AllData /\ BalanceReport(k, FALSE) \in AllData
      /\ PositionReport(k) \in AllData
  BY <1>1 DEF AllData
<1>4. QED
  BY <1>1, <1>2, <1>3

\* A balance as it is reported after k executions, and once the order is over.
LEMMA BalanceSays ==
  ASSUME account \in AllAccounts, NEW k \in 0 .. Size, NEW u,
         u = Means(Report(BalanceTopic[account], 0, BalanceReportAfter(k)))
  PROVE  /\ u.is = "BalanceUpdate"
         /\ account # "kraken" =>
              u.available_balance = Free(k, k = Size) /\ u.hold_balance = Held(k, k = Size)
         /\ account = "kraken" => u.available_balance + u.hold_balance = Size - k
<1> DEFINE free == Free(k, k = Size)
           held == Held(k, k = Size)
           d == BalanceReportAfter(k)
<1>1. free \in Int /\ held \in Int /\ free + held = Size - k
  BY OrderAssumption DEF Free, Held
<1>2. d = BalanceData(free, held)
  BY DEF BalanceReportAfter, BalanceReport, BalanceData
<1>3. u = Means(Report(BalanceTopic[account], 0, BalanceData(free, held)))
  BY <1>2
<1> HIDE DEF free, held, d
<1>4. /\ u.is = "BalanceUpdate"
      /\ account # "kraken" => u.available_balance = free /\ u.hold_balance = held
      /\ account = "kraken" => u.available_balance + u.hold_balance = free + held
  BY <1>1, <1>2, <1>3, BalanceMeans
<1>5. QED
  BY <1>1, <1>4 DEF free, held

LEMMA LastBalanceSays ==
  ASSUME account \in AllAccounts, NEW k \in 0 .. Size, NEW u,
         u = Means(Report(BalanceTopic[account], 0, BalanceReport(k, TRUE)))
  PROVE  /\ u.is = "BalanceUpdate"
         /\ account # "kraken" => u.available_balance = Free(k, TRUE) /\ u.hold_balance = 0
         /\ account = "kraken" => u.available_balance + u.hold_balance = Size - k
<1> DEFINE free == Free(k, TRUE)
           held == 0
           d == BalanceReport(k, TRUE)
<1>1. free \in Int /\ held \in Int /\ free + held = Size - k
  BY OrderAssumption DEF Free, Held
<1>2. d = BalanceData(free, held)
  BY DEF BalanceReport, BalanceData, Held
<1>3. u = Means(Report(BalanceTopic[account], 0, BalanceData(free, held)))
  BY <1>2
<1> HIDE DEF free, d, held
<1>4. /\ u.is = "BalanceUpdate"
      /\ account # "kraken" => u.available_balance = free /\ u.hold_balance = held
      /\ account = "kraken" => u.available_balance + u.hold_balance = free + held
  BY <1>1, <1>2, <1>3, BalanceMeans
<1>5. QED
  BY <1>1, <1>4 DEF free, held

(* What a frame pushed by a fill, or by a cancel, says. *)
SaysFill(f, t, k) ==
  LET u == Means(f)
  IN  /\ t = FillTopic[account] /\ f.execution = k
      /\ u.is = "OrderUpdate" /\ u.match_size = 1 /\ u.trade_id = k
      /\ account \notin Split =>
           u.status = IF account = "kucoin" THEN "match"
                      ELSE IF k = Size THEN "filled" ELSE "partialFilled"

SaysOrder(f, t, status) ==
  LET u == Means(f)
  IN  /\ t = OrderTopic[account] /\ f.execution = 0
      /\ u.is = "OrderUpdate" /\ u.match_size = None
      /\ u.status = status

StatusAfterFill(k) ==
  IF account = "kucoin" THEN IF k = Size THEN "done" ELSE "match"
  ELSE IF k = Size THEN "filled" ELSE "partialFilled"

StatusAfterCancel == IF account = "kucoin" THEN "done" ELSE "canceled"

LEMMA FillSays ==
  ASSUME account \in AllAccounts, NEW k \in 1 .. Size
  PROVE  LET f == Report(FillTopic[account], k, FillReport(k))
         IN  /\ SaysFill(f, FillTopic[account], k)
             /\ account \notin Split => Means(f).filled_size = k
<1> DEFINE f == Report(FillTopic[account], k, FillReport(k))
           u == Means(f)
<1>1. f.execution = k
  BY DEF Report
<1>2. /\ u.is = "OrderUpdate" /\ u.match_size = 1 /\ u.trade_id = k
      /\ account \notin Split =>
           /\ u.status = IF account = "kucoin" THEN "match"
                         ELSE IF k = Size THEN "filled" ELSE "partialFilled"
           /\ u.filled_size = k
  BY FillMeans
<1>3. QED
  BY <1>1, <1>2 DEF SaysFill

LEMMA OrderSays ==
  ASSUME account \in Split \cup {"kucoin"}, NEW k \in 1 .. Size, account = "kucoin" => k = Size
  PROVE  LET f == Report(OrderTopic[account], 0, OrderReport(k, FALSE))
         IN  SaysOrder(f, OrderTopic[account], StatusAfterFill(k)) /\ Means(f).filled_size = k
<1> DEFINE f == Report(OrderTopic[account], 0, OrderReport(k, FALSE))
           u == Means(f)
<1>1. f.execution = 0
  BY DEF Report
<1>2. /\ u.is = "OrderUpdate" /\ u.match_size = None /\ u.filled_size = k
      /\ u.status = IF account = "kucoin" THEN "done"
                    ELSE IF k = Size THEN "filled" ELSE "partialFilled"
  BY OrderFillMeans
<1> HIDE DEF f
<1>3. u.status = StatusAfterFill(k)
  BY <1>2 DEF StatusAfterFill
<1>4. QED
  BY <1>1, <1>2, <1>3 DEF SaysOrder, f

LEMMA CancelSays ==
  ASSUME account \in AllAccounts, NEW k \in 0 .. Size
  PROVE  LET f == Report(OrderTopic[account], 0, OrderReport(k, TRUE))
         IN  SaysOrder(f, OrderTopic[account], StatusAfterCancel) /\ Means(f).filled_size = k
<1> DEFINE f == Report(OrderTopic[account], 0, OrderReport(k, TRUE))
           u == Means(f)
<1>1. f.execution = 0
  BY DEF Report
<1>2. /\ u.is = "OrderUpdate" /\ u.match_size = None /\ u.filled_size = k
      /\ u.status = IF account = "kucoin" THEN "done" ELSE "canceled"
  BY CancelMeans
<1>3. QED
  BY <1>1, <1>2 DEF SaysOrder, StatusAfterCancel

(* The balance as the account stands after k executions, or a cancel after them. *)
BalanceAfterFill(u, k) ==
  /\ account # "kraken" =>
       u.available_balance = Free(k, k = Size) /\ u.hold_balance = Held(k, k = Size)
  /\ account = "kraken" => u.available_balance + u.hold_balance = Size - k

BalanceAfterCancel(u, k) ==
  /\ account # "kraken" => u.available_balance = Free(k, TRUE) /\ u.hold_balance = 0
  /\ account = "kraken" => u.available_balance + u.hold_balance = Size - k

\* What execution number k pushes on a topic, and what the last of it says.
LEMMA PushedByFill ==
  ASSUME account \in AllAccounts, direction \in {1, -1}, NEW t \in Topics, NEW k \in 1 .. Size,
         NEW r, r = FillAdds(t, k)
  PROVE  /\ r \in Seq(AllFrames)
         /\ \A i \in 1 .. Len(r) :
              \/ SaysFill(r[i], t, k)
              \/ SaysOrder(r[i], t, StatusAfterFill(k))
              \/ IsBalance(r[i], t)
              \/ IsPosition(r[i], t)
         /\ t = OrderTopic[account] =>
              /\ r # <<>>
              /\ Means(r[Len(r)]).status = StatusAfterFill(k)
              /\ Means(r[Len(r)]).filled_size = k
         /\ t = BalanceTopic[account] => r # <<>> /\ BalanceAfterFill(Means(r[Len(r)]), k)
         /\ t = "position" /\ account \in {"bybit", "kucoin"} =>
              r # <<>> /\ Means(r[Len(r)]).current_qty = direction * k
<1> DEFINE F == Report(t, k, FillReport(k))
           O == Report(t, 0, OrderReport(k, FALSE))
           B == Report(t, 0, BalanceReportAfter(k))
           P == Report(t, 0, PositionReport(k))
<1>0. k \in 0 .. Size /\ k > 0 /\ Size \in Nat
  BY OrderAssumption
<1>1. /\ t = FillTopic[account] /\ account \in Split => r = <<F>>
      /\ t = OrderTopic[account] /\ account \in Split => r = <<O>>
      /\ t = OrderTopic[account] /\ account \notin Split =>
           r = IF account = "kucoin" /\ k = Size THEN <<F, O>> ELSE <<F>>
      /\ t = BalanceTopic[account] => r = <<B>>
      /\ t = "position" => r = IF account \in {"bybit", "kucoin"} THEN <<P>> ELSE <<>>
  BY FillReports
<1>2. F \in AllFrames /\ O \in AllFrames /\ P \in AllFrames
  BY <1>0, FramesMade
<1>3. B \in AllFrames
  <2>1. CASE k = Size
    <3>1. BalanceReportAfter(k) = BalanceReport(k, TRUE)
      BY <2>1 DEF BalanceReportAfter, BalanceReport, Free, Held
    <3>2. QED
      BY <1>0, <3>1, FramesMade
  <2>2. CASE k # Size
    <3>1. BalanceReportAfter(k) = BalanceReport(k, FALSE)
      BY <2>2 DEF BalanceReportAfter, BalanceReport, Free, Held
    <3>2. QED
      BY <1>0, <3>1, FramesMade
  <2>3. QED
    BY <2>1, <2>2
<1>4. t = FillTopic[account] => /\ SaysFill(F, t, k)
                                /\ account \notin Split => Means(F).filled_size = k
  BY FillSays
<1>5. t = OrderTopic[account] /\ account \in Split \cup {"kucoin"}
        /\ (account = "kucoin" => k = Size) =>
        SaysOrder(O, t, StatusAfterFill(k)) /\ Means(O).filled_size = k
  BY OrderSays
<1>6. t = BalanceTopic[account] => IsBalance(B, t) /\ BalanceAfterFill(Means(B), k)
  <2> SUFFICES ASSUME t = BalanceTopic[account]
               PROVE  IsBalance(B, t) /\ BalanceAfterFill(Means(B), k)
    OBVIOUS
  <2>1. B.execution = 0
    BY DEF Report
  <2> DEFINE u == Means(B)
  <2>2. /\ u.is = "BalanceUpdate"
        /\ account # "kraken" =>
             u.available_balance = Free(k, k = Size) /\ u.hold_balance = Held(k, k = Size)
        /\ account = "kraken" => u.available_balance + u.hold_balance = Size - k
    BY <1>0, BalanceSays
  <2> HIDE DEF B, u
  <2>3. BalanceAfterFill(u, k)
    BY <2>2 DEF BalanceAfterFill
  <2>4. QED
    BY <2>1, <2>2, <2>3 DEF IsBalance, u
<1>7. t = "position" /\ account \in {"bybit", "kucoin"} =>
        IsPosition(P, t) /\ Means(P).current_qty = direction * k
  <2> SUFFICES ASSUME t = "position", account \in {"bybit", "kucoin"}
               PROVE  IsPosition(P, t) /\ Means(P).current_qty = direction * k
    OBVIOUS
  <2>1. P.execution = 0
    BY DEF Report
  <2>2. Means(P).is = "PositionChange" /\ Means(P).current_qty = direction * k
    BY <1>0, PositionMeans
  <2>3. QED
    BY <2>1, <2>2 DEF IsPosition
<1> HIDE DEF F, O, B, P
<1>8. CASE account \in Split /\ t = FillTopic[account]
  <2>1. r = <<F>>
    BY <1>1, <1>8
  <2>2. r \in Seq(AllFrames) /\ Len(r) = 1 /\ r[1] = F
    BY <1>2, <2>1
  <2>3. t # OrderTopic[account] /\ t # BalanceTopic[account] /\ t # "position"
    BY <1>8, TopicsApart
  <2>4. QED
    BY <1>4, <1>8, <2>2, <2>3
<1>9. CASE account \in Split /\ t = OrderTopic[account]
  <2>1. r = <<O>>
    BY <1>1, <1>9
  <2>2. r \in Seq(AllFrames) /\ Len(r) = 1 /\ r[1] = O /\ r # <<>>
    BY <1>2, <2>1
  <2>3. t # BalanceTopic[account] /\ t # "position" /\ account # "kucoin"
    BY <1>9, TopicsApart DEF Split
  <2>4. SaysOrder(O, t, StatusAfterFill(k)) /\ Means(O).filled_size = k
    BY <1>5, <1>9, <2>3
  <2>5. QED
    BY <2>2, <2>3, <2>4 DEF SaysOrder
<1>10. CASE account \notin Split /\ t = OrderTopic[account]
  <2>1. t # BalanceTopic[account] /\ t # "position" /\ t = FillTopic[account]
    BY <1>10, TopicsApart
  <2>2. CASE account = "kucoin" /\ k = Size
    <3>1. r = <<F, O>>
      BY <1>1, <1>10, <2>2
    <3>2. r \in Seq(AllFrames) /\ Len(r) = 2 /\ r[1] = F /\ r[2] = O /\ r # <<>>
      BY <1>2, <3>1
    <3>3. SaysOrder(O, t, StatusAfterFill(k)) /\ Means(O).filled_size = k
      BY <1>5, <1>10, <2>2
    <3>4. \A i \in 1 .. 2 : i = 1 \/ i = 2
      OBVIOUS
    <3>5. QED
      BY <1>4, <2>1, <3>2, <3>3, <3>4 DEF SaysOrder
  <2>3. CASE ~ (account = "kucoin" /\ k = Size)
    <3>1. r = <<F>>
      BY <1>1, <1>10, <2>3
    <3>2. r \in Seq(AllFrames) /\ Len(r) = 1 /\ r[1] = F /\ r # <<>>
      BY <1>2, <3>1
    <3>3. Means(F).status = StatusAfterFill(k) /\ Means(F).filled_size = k
      BY <1>4, <1>10, <2>1, <2>3 DEF SaysFill, StatusAfterFill
    <3>4. QED
      BY <1>4, <2>1, <3>2, <3>3
  <2>4. QED
    BY <2>2, <2>3
<1>11. CASE t = BalanceTopic[account]
  <2>1. r = <<B>>
    BY <1>1, <1>11
  <2>2. r \in Seq(AllFrames) /\ Len(r) = 1 /\ r[1] = B /\ r # <<>>
    BY <1>3, <2>1
  <2>3. t # OrderTopic[account] /\ t # "position"
    BY <1>11, TopicsApart
  <2>4. QED
    BY <1>6, <1>11, <2>2, <2>3
<1>12. CASE t = "position"
  <2>1. t # OrderTopic[account] /\ t # BalanceTopic[account]
    BY <1>12, TopicsApart
  <2>2. CASE account \in {"bybit", "kucoin"}
    <3>1. r = <<P>>
      BY <1>1, <1>12, <2>2
    <3>2. r \in Seq(AllFrames) /\ Len(r) = 1 /\ r[1] = P /\ r # <<>>
      BY <1>2, <3>1
    <3>3. QED
      BY <1>7, <1>12, <2>1, <2>2, <3>2
  <2>3. CASE account \notin {"bybit", "kucoin"}
    <3>1. r = <<>>
      BY <1>1, <1>12, <2>3
    <3>2. r \in Seq(AllFrames) /\ Len(r) = 0
      BY <3>1
    <3>3. QED
      BY <1>12, <2>1, <2>3, <3>2
  <2>4. QED
    BY <2>2, <2>3
<1>13. QED
  BY <1>8, <1>9, <1>10, <1>11, <1>12, TopicsApart DEF Topics

\* What a cancel pushes on a topic.
LEMMA PushedByCancel ==
  ASSUME account \in AllAccounts, NEW t \in Topics, NEW k \in 0 .. Size,
         NEW r, r = CancelAdds(t, k)
  PROVE  /\ r \in Seq(AllFrames)
         /\ \A i \in 1 .. Len(r) :
              SaysOrder(r[i], t, StatusAfterCancel) \/ IsBalance(r[i], t)
         /\ t = OrderTopic[account] =>
              /\ r # <<>>
              /\ Means(r[Len(r)]).status = StatusAfterCancel
              /\ Means(r[Len(r)]).filled_size = k
         /\ t = BalanceTopic[account] => r # <<>> /\ BalanceAfterCancel(Means(r[Len(r)]), k)
         /\ t = "position" => r = <<>>
<1> DEFINE O == Report(t, 0, OrderReport(k, TRUE))
           B == Report(t, 0, BalanceReport(k, TRUE))
<1>1. /\ t = OrderTopic[account] => r = <<O>>
      /\ t = BalanceTopic[account] => r = <<B>>
      /\ t \notin {OrderTopic[account], BalanceTopic[account]} => r = <<>>
  BY CancelReports
<1>2. O \in AllFrames /\ B \in AllFrames
  BY FramesMade
<1>3. t = OrderTopic[account] => SaysOrder(O, t, StatusAfterCancel) /\ Means(O).filled_size = k
  BY CancelSays
<1>4. t = BalanceTopic[account] => IsBalance(B, t) /\ BalanceAfterCancel(Means(B), k)
  <2> SUFFICES ASSUME t = BalanceTopic[account]
               PROVE  IsBalance(B, t) /\ BalanceAfterCancel(Means(B), k)
    OBVIOUS
  <2>1. B.execution = 0
    BY DEF Report
  <2> DEFINE u == Means(B)
  <2>2. /\ u.is = "BalanceUpdate"
        /\ account # "kraken" => u.available_balance = Free(k, TRUE) /\ u.hold_balance = 0
        /\ account = "kraken" => u.available_balance + u.hold_balance = Size - k
    BY LastBalanceSays
  <2> HIDE DEF B, u
  <2>3. BalanceAfterCancel(u, k)
    BY <2>2 DEF BalanceAfterCancel
  <2>4. QED
    BY <2>1, <2>2, <2>3 DEF IsBalance, u
<1> HIDE DEF O, B
<1>5. CASE t = OrderTopic[account]
  <2>1. r = <<O>>
    BY <1>1, <1>5
  <2>2. r \in Seq(AllFrames) /\ Len(r) = 1 /\ r[1] = O /\ r # <<>>
    BY <1>2, <2>1
  <2>3. t # BalanceTopic[account] /\ t # "position"
    BY <1>5, TopicsApart
  <2>4. QED
    BY <1>3, <1>5, <2>2, <2>3 DEF SaysOrder
<1>6. CASE t = BalanceTopic[account]
  <2>1. r = <<B>>
    BY <1>1, <1>6
  <2>2. r \in Seq(AllFrames) /\ Len(r) = 1 /\ r[1] = B /\ r # <<>>
    BY <1>2, <2>1
  <2>3. t # OrderTopic[account] /\ t # "position"
    BY <1>6, TopicsApart
  <2>4. QED
    BY <1>4, <1>6, <2>2, <2>3
<1>7. CASE t \notin {OrderTopic[account], BalanceTopic[account]}
  <2>1. r = <<>>
    BY <1>1, <1>7
  <2>2. r \in Seq(AllFrames) /\ Len(r) = 0
    BY <2>1
  <2>3. QED
    BY <1>7, <2>1, <2>2
<1>8. QED
  BY <1>5, <1>6, <1>7

---------------------------------------------------------------------------------
(* The venue's steps.                                                              *)

\* An execution keeps every frame on its way true: none speaks of an end yet.
LEMMA FillKeepsTypes ==
  ASSUME AccountTypes, Fill
  PROVE  AccountTypes'
<1>1. /\ account' = account /\ direction' = direction /\ filled' = filled + 1
      /\ joined' = joined /\ subscribed' = subscribed /\ ended = "no"
  BY DEF Fill
<1>2. filled' \in 1 .. Size
  BY <1>1, OrderAssumption DEF AccountTypes
<1>3. ended' \in {"no", "filled", "canceled"} /\ (ended' = "filled" <=> filled' = Size)
  BY <1>1, <1>2 DEF Fill
<1>4. Topics' = Topics /\ AllFrames' = AllFrames
  BY <1>1, FramesStay
<1>5. CASE subscribed
  <2>1. queue' = [t \in Topics |-> queue[t] \o FillAdds(t, filled')] /\ lost' = lost
    BY <1>5 DEF Fill, PushReports, FillAdds
  <2>2. ASSUME NEW t \in Topics
        PROVE  queue[t] \o FillAdds(t, filled') \in Seq(AllFrames)
    <3>1. FillAdds(t, filled') \in Seq(AllFrames)
      BY <1>2, PushedByFill DEF AccountTypes
    <3>2. queue[t] \in Seq(AllFrames)
      BY DEF AccountTypes
    <3>3. QED
      BY <3>1, <3>2, PushedInTurn
  <2>3. queue' \in [Topics -> Seq(AllFrames)]
    BY <2>1, <2>2
  <2>4. QED
    BY <1>1, <1>2, <1>3, <1>4, <2>1, <2>3 DEF AccountTypes
<1>6. CASE ~ subscribed
  <2>1. queue' = queue /\ lost' = TRUE
    BY <1>6 DEF Fill, PushReports
  <2>2. QED
    BY <1>1, <1>2, <1>3, <1>4, <2>1 DEF AccountTypes
<1>7. QED
  BY <1>5, <1>6

LEMMA FillEffect ==
  ASSUME AccountTypes, Fill
  PROVE  /\ account' = account /\ direction' = direction /\ joined' = joined
         /\ subscribed' = subscribed /\ executions' = executions /\ seen' = seen
         /\ counted' = counted /\ told' = told /\ position' = position /\ balance' = balance
         /\ filled' = filled + 1 /\ filled' \in 1 .. Size
         /\ ended = "no" /\ ended' = IF filled' = Size THEN "filled" ELSE "no"
         /\ Topics' = Topics
         /\ subscribed => /\ lost' = lost
                          /\ \A t \in Topics : queue'[t] = queue[t] \o FillAdds(t, filled')
         /\ ~ subscribed => queue' = queue /\ lost'
<1>1. /\ account' = account /\ direction' = direction /\ joined' = joined
      /\ subscribed' = subscribed /\ executions' = executions /\ seen' = seen
      /\ counted' = counted /\ told' = told /\ position' = position /\ balance' = balance
      /\ filled' = filled + 1 /\ ended = "no"
      /\ ended' = IF filled' = Size THEN "filled" ELSE "no"
  BY DEF Fill, consumerVars
<1>2. filled' \in 1 .. Size
  BY <1>1, OrderAssumption DEF AccountTypes
<1>3. Topics' = Topics
  BY <1>1, FramesStay
<1>4. ASSUME subscribed
      PROVE  lost' = lost /\ \A t \in Topics : queue'[t] = queue[t] \o FillAdds(t, filled')
  BY <1>4 DEF Fill, PushReports, FillAdds
<1>5. ASSUME ~ subscribed
      PROVE  queue' = queue /\ lost'
  BY <1>5 DEF Fill, PushReports
<1>6. QED
  BY <1>1, <1>2, <1>3, <1>4, <1>5

\* What a frame said stays true while the order is open, or does not change.
LEMMA ReportsStayTrue ==
  ASSUME account' = account, direction' = direction,
         filled \in Nat, filled' \in Nat, filled' >= filled,
         ended = "no" \/ (ended' = ended /\ filled' = filled),
         NEW f, NEW t, IsReport(f, t)
  PROVE  IsReport(f, t)'
<1>1. Means(f)' = Means(f)
  BY FramesStay
<1>2. ASSUME NEW status, IsTrueEnd(status)
      PROVE  IsTrueEnd(status)'
  <2>1. CASE ended = "no"
    BY <1>2, <2>1 DEF IsTrueEnd
  <2>2. CASE ended' = ended /\ filled' = filled
    <3>1. Status' = Status
      BY <2>2 DEF Status
    <3>2. QED
      BY <1>2, <2>2, <3>1 DEF IsTrueEnd
  <2>3. QED
    BY <2>1, <2>2
<1>3. CASE IsFill(f, t)
  <2>1. f.execution \in 1 .. filled'
    BY <1>3 DEF IsFill
  <2>2. account \notin Split => IsTrueEnd(Means(f).status)'
    BY <1>1, <1>2, <1>3 DEF IsFill
  <2>3. IsFill(f, t)'
    BY <1>1, <1>3, <2>1, <2>2 DEF IsFill
  <2>4. QED
    BY <2>3 DEF IsReport
<1>4. CASE IsOrder(f, t)
  <2>1. IsTrueEnd(Means(f).status)'
    BY <1>1, <1>2, <1>4 DEF IsOrder
  <2>2. IsOrder(f, t)'
    BY <1>1, <1>4, <2>1 DEF IsOrder
  <2>3. QED
    BY <2>2 DEF IsReport
<1>5. CASE IsBalance(f, t)
  BY <1>1, <1>5 DEF IsBalance, IsReport
<1>6. CASE IsPosition(f, t)
  BY <1>1, <1>6 DEF IsPosition, IsReport
<1>7. QED
  BY <1>3, <1>4, <1>5, <1>6 DEF IsReport

\* The status a fill, or a cancel, leads to.
LEMMA StatusFollows ==
  ASSUME account \in AllAccounts, account' = account
  PROVE  /\ filled' \in 1 .. Size /\ ended' = (IF filled' = Size THEN "filled" ELSE "no") =>
              /\ Status' = StatusAfterFill(filled')
              /\ IsTrueEnd(StatusAfterFill(filled))'
         /\ ended' = "canceled" =>
              Status' = StatusAfterCancel /\ IsTrueEnd(StatusAfterCancel)'
<1>1. ASSUME filled' \in 1 .. Size, ended' = IF filled' = Size THEN "filled" ELSE "no"
      PROVE  /\ Status' = StatusAfterFill(filled')
             /\ StatusAfterFill(filled') \in EndStatuses => ended' # "no"
  <2>1. filled' > 0
    BY <1>1, OrderAssumption
  <2>2. QED
    BY <1>1, <2>1 DEF Status, StatusAfterFill, EndStatuses
<1>2. ASSUME ended' = "canceled"
      PROVE  Status' = StatusAfterCancel
  BY <1>2 DEF Status, StatusAfterCancel
<1>3. EndStatuses' = EndStatuses
  BY DEF EndStatuses
<1>4. StatusAfterCancel' = StatusAfterCancel /\ StatusAfterFill(filled)' = StatusAfterFill(filled')
  BY DEF StatusAfterCancel, StatusAfterFill
<1>5. ASSUME filled' \in 1 .. Size, ended' = IF filled' = Size THEN "filled" ELSE "no"
      PROVE  IsTrueEnd(StatusAfterFill(filled))'
  BY <1>1, <1>3, <1>4, <1>5 DEF IsTrueEnd
<1>6. ASSUME ended' = "canceled"
      PROVE  IsTrueEnd(StatusAfterCancel)'
  BY <1>2, <1>4, <1>6 DEF IsTrueEnd
<1>7. QED
  BY <1>1, <1>2, <1>5, <1>6

\* Frames pushed after a fill, or a cancel, are true in the state it leads to.
LEMMA PushedReportsAreTrue ==
  ASSUME account \in AllAccounts, account' = account, direction' = direction, filled' \in Nat,
         NEW f, NEW t
  PROVE  /\ SaysFill(f, t, filled') /\ filled' \in 1 .. Size
              /\ ended' = (IF filled' = Size THEN "filled" ELSE "no") => IsReport(f, t)'
         /\ SaysOrder(f, t, StatusAfterFill(filled')) /\ filled' \in 1 .. Size
              /\ ended' = (IF filled' = Size THEN "filled" ELSE "no") => IsReport(f, t)'
         /\ SaysOrder(f, t, StatusAfterCancel) /\ ended' = "canceled" => IsReport(f, t)'
         /\ IsBalance(f, t) \/ IsPosition(f, t) => IsReport(f, t)'
<1>1. Means(f)' = Means(f)
  BY FramesStay
<1>2. ASSUME SaysFill(f, t, filled'), filled' \in 1 .. Size,
             ended' = IF filled' = Size THEN "filled" ELSE "no"
      PROVE  IsReport(f, t)'
  <2>1. ASSUME account \notin Split
        PROVE  IsTrueEnd(Means(f).status)'
    <3>1. Means(f).status = IF account = "kucoin" THEN "match"
                            ELSE IF filled' = Size THEN "filled" ELSE "partialFilled"
      BY <1>2, <2>1 DEF SaysFill
    <3>2. Means(f).status \in EndStatuses =>
            Means(f).status = "filled" /\ account # "kucoin" /\ ended' = "filled"
      BY <1>2, <3>1 DEF EndStatuses
    <3>3. ended' = "filled" /\ account # "kucoin" => Status' = "filled"
      BY DEF Status
    <3>4. QED
      BY <1>1, <3>2, <3>3 DEF IsTrueEnd, EndStatuses
  <2>2. IsFill(f, t)'
    BY <1>1, <1>2, <2>1 DEF SaysFill, IsFill
  <2>3. QED
    BY <2>2 DEF IsReport
<1>3. ASSUME SaysOrder(f, t, StatusAfterFill(filled')), filled' \in 1 .. Size,
             ended' = IF filled' = Size THEN "filled" ELSE "no"
      PROVE  IsReport(f, t)'
  <2>1. IsTrueEnd(StatusAfterFill(filled))'
    BY <1>3, StatusFollows
  <2>2. StatusAfterFill(filled)' = StatusAfterFill(filled')
    BY DEF StatusAfterFill
  <2>3. Means(f).status = StatusAfterFill(filled')
    BY <1>3 DEF SaysOrder
  <2>4. IsTrueEnd(Means(f).status)'
    BY <1>1, <2>1, <2>2, <2>3 DEF IsTrueEnd
  <2>5. IsOrder(f, t)'
    BY <1>1, <1>3, <2>4 DEF SaysOrder, IsOrder
  <2>6. QED
    BY <2>5 DEF IsReport
<1>4. ASSUME SaysOrder(f, t, StatusAfterCancel), ended' = "canceled"
      PROVE  IsReport(f, t)'
  <2>1. IsTrueEnd(StatusAfterCancel)'
    BY <1>4, StatusFollows
  <2>2. StatusAfterCancel' = StatusAfterCancel
    BY DEF StatusAfterCancel
  <2>3. Means(f).status = StatusAfterCancel
    BY <1>4 DEF SaysOrder
  <2>4. IsTrueEnd(Means(f).status)'
    BY <1>1, <2>1, <2>2, <2>3 DEF IsTrueEnd
  <2>5. IsOrder(f, t)'
    BY <1>1, <1>4, <2>4 DEF SaysOrder, IsOrder
  <2>6. QED
    BY <2>5 DEF IsReport
<1>5. ASSUME IsBalance(f, t) \/ IsPosition(f, t)
      PROVE  IsReport(f, t)'
  BY <1>1, <1>5 DEF IsBalance, IsPosition, IsReport
<1>6. QED
  BY <1>2, <1>3, <1>4, <1>5

LEMMA FillKeepsQueues ==
  ASSUME AccountTypes, QueuesAreTrue, Fill
  PROVE  QueuesAreTrue'
<1>1. /\ account \in AllAccounts /\ account' = account
      /\ direction \in {1, -1} /\ direction' = direction
      /\ filled' = filled + 1 /\ filled' \in 1 .. Size
      /\ ended = "no" /\ ended' = IF filled' = Size THEN "filled" ELSE "no"
      /\ Topics' = Topics
      /\ subscribed => \A t \in Topics : queue'[t] = queue[t] \o FillAdds(t, filled')
      /\ ~ subscribed => queue' = queue
  BY FillEffect DEF AccountTypes
<1>2. filled \in Nat /\ filled' \in Nat /\ filled' >= filled
  BY <1>1, OrderAssumption DEF AccountTypes
<1>3. ASSUME NEW t \in Topics, NEW i \in 1 .. Len(queue[t]), NEW f, f = queue[t][i]
      PROVE  IsReport(f, t)'
  <2>1. IsReport(f, t)
    BY <1>3 DEF QueuesAreTrue
  <2>2. QED
    BY <1>1, <1>2, <2>1, ReportsStayTrue
<1>4. ASSUME NEW t \in Topics, NEW r, r = FillAdds(t, filled'), NEW j \in 1 .. Len(r),
             NEW f, f = r[j]
      PROVE  IsReport(f, t)'
  <2>1. \/ SaysFill(f, t, filled')
        \/ SaysOrder(f, t, StatusAfterFill(filled'))
        \/ IsBalance(f, t)
        \/ IsPosition(f, t)
    BY <1>1, <1>4, PushedByFill
  <2>2. QED
    BY <1>1, <1>2, <2>1, PushedReportsAreTrue
<1>5. ASSUME NEW t \in Topics, NEW i \in 1 .. Len(queue'[t]), NEW f, f = queue'[t][i]
      PROVE  IsReport(f, t)'
  <2>1. CASE ~ subscribed
    BY <1>1, <1>3, <1>5, <2>1
  <2>2. CASE subscribed
    <3> DEFINE r == FillAdds(t, filled')
    <3>1. queue'[t] = queue[t] \o r
      BY <1>1, <2>2
    <3>2. queue[t] \in Seq(AllFrames) /\ r \in Seq(AllFrames)
      BY <1>1, PushedByFill DEF AccountTypes
    <3>r. r = FillAdds(t, filled')
      OBVIOUS
    <3> HIDE DEF r
    <3>3. \/ \E j \in 1 .. Len(queue[t]) : f = queue[t][j]
          \/ \E j \in 1 .. Len(r) : f = r[j]
      BY <1>5, <3>1, <3>2, PushedInTurn
    <3>4. QED
      BY <1>3, <1>4, <3>r, <3>3
  <2>3. QED
    BY <2>1, <2>2
<1>6. QED
  BY <1>1, <1>5 DEF QueuesAreTrue

LEMMA PlainTopics ==
  /\ OrderTopic[account] \in Topics /\ FillTopic[account] \in Topics
  /\ BalanceTopic[account] \in Topics /\ "position" \in Topics
  BY DEF Topics

LEMMA FillKeepsTruth ==
  ASSUME AccountTypes, Fill
  PROVE  TruthInSight'
<1>1. /\ account \in AllAccounts /\ account' = account
      /\ direction \in {1, -1} /\ direction' = direction
      /\ filled' \in 1 .. Size /\ ended' = IF filled' = Size THEN "filled" ELSE "no"
      /\ subscribed => \A t \in Topics : queue'[t] = queue[t] \o FillAdds(t, filled')
      /\ ~ subscribed => lost'
  BY FillEffect DEF AccountTypes
<1>2. CASE ~ subscribed
  BY <1>1, <1>2 DEF TruthInSight
<1>3. CASE subscribed
  <2>1. ASSUME NEW t \in Topics, NEW r, r = FillAdds(t, filled'), r # <<>>
        PROVE  queue'[t] # <<>> /\ queue'[t][Len(queue'[t])] = r[Len(r)]
    <3>1. queue'[t] = queue[t] \o r
      BY <1>1, <1>3, <2>1
    <3>2. queue[t] \in Seq(AllFrames) /\ r \in Seq(AllFrames)
      BY <1>1, <2>1, PushedByFill DEF AccountTypes
    <3>3. QED
      BY <2>1, <3>1, <3>2, PushedInTurn
  <2>2. OrderInSight'
    <3> DEFINE t == OrderTopic[account]
               r == FillAdds(t, filled')
               f == r[Len(r)]
    <3>1. r # <<>> /\ Means(f).status = StatusAfterFill(filled') /\ Means(f).filled_size = filled'
      BY <1>1, PlainTopics, PushedByFill
    <3>2. queue'[t] # <<>> /\ queue'[t][Len(queue'[t])] = f
      BY <2>1, <3>1, PlainTopics
    <3>3. Status' = StatusAfterFill(filled')
      BY <1>1, StatusFollows
    <3>4. (OrderTopic[account])' = t /\ Final(t)' = f
      BY <1>1, <3>2 DEF Final
    <3> HIDE DEF r, f
    <3>5. PICK x : x = f
      OBVIOUS
    <3>6. Means(x)' = Means(x)
      BY <1>1, FramesStay
    <3>7. Told(Means(x)) = [status |-> StatusAfterFill(filled'), filled |-> filled']
      BY <3>1, <3>5 DEF Told
    <3>8. Truth' = [status |-> StatusAfterFill(filled'), filled |-> filled']
      BY <3>3 DEF Truth
    <3>9. QED
      BY <1>1, <3>2, <3>4, <3>5, <3>6, <3>7, <3>8 DEF OrderInSight, Told
  <2>3. ASSUME account \in {"bybit", "kucoin"}
        PROVE  PositionInSight'
    <3> DEFINE r == FillAdds("position", filled')
               f == r[Len(r)]
    <3>1. r # <<>> /\ Means(f).current_qty = direction * filled'
      BY <1>1, <2>3, PlainTopics, PushedByFill
    <3>2. queue'["position"] # <<>> /\ Final("position")' = f
      BY <2>1, <3>1, PlainTopics DEF Final
    <3> HIDE DEF r, f
    <3>3. PICK x : x = f
      OBVIOUS
    <3>4. Means(x)' = Means(x)
      BY <1>1, FramesStay
    <3>5. QED
      BY <1>1, <3>1, <3>2, <3>3, <3>4 DEF PositionInSight
  <2>4. BalanceInSight'
    <3> DEFINE t == BalanceTopic[account]
               r == FillAdds(t, filled')
               f == r[Len(r)]
    <3>1. r # <<>> /\ BalanceAfterFill(Means(f), filled')
      BY <1>1, PlainTopics, PushedByFill
    <3>2. queue'[t] # <<>> /\ (BalanceTopic[account])' = t /\ Final(t)' = f
      BY <1>1, <2>1, <3>1, PlainTopics DEF Final
    <3> HIDE DEF r, f
    <3>3. PICK x : x = f
      OBVIOUS
    <3>4. Means(x)' = Means(x)
      BY <1>1, FramesStay
    <3>5. IsBalanced(Means(x).available_balance, Means(x).hold_balance)'
      <4>1. ended' # "no" <=> filled' = Size
        BY <1>1
      <4>2. BalanceAfterFill(Means(x), filled')
        BY <3>1, <3>3
      <4>3. QED
        BY <1>1, <3>4, <4>1, <4>2 DEF BalanceAfterFill, IsBalanced, Free, Held
    <3>6. QED
      BY <3>2, <3>3, <3>5 DEF BalanceInSight
  <2>5. QED
    BY <1>1, <2>2, <2>3, <2>4 DEF TruthInSight
<1>4. QED
  BY <1>2, <1>3

LEMMA FillStep ==
  ASSUME AccountInv, Fill
  PROVE  AccountInv'
<1>1. /\ AccountTypes /\ BalanceIsRecord /\ QueuesAreTrue
      /\ Counting /\ EndIsReal /\ Sessions /\ TruthInSight
  BY DEF AccountInv
<1>2. AccountTypes' /\ QueuesAreTrue' /\ TruthInSight'
  BY <1>1, FillKeepsTypes, FillKeepsQueues, FillKeepsTruth
<1>3. /\ joined' = joined /\ subscribed' = subscribed /\ executions' = executions /\ seen' = seen
      /\ counted' = counted /\ told' = told /\ filled' = filled + 1 /\ filled' \in 1 .. Size
      /\ ended = "no" /\ Topics' = Topics
      /\ ~ subscribed => queue' = queue /\ lost'
  BY <1>1, FillEffect
<1>4. Counting'
  <2>1. filled \in Nat
    BY <1>1, OrderAssumption DEF AccountTypes
  <2>2. executions' \subseteq 1 .. filled'
    BY <1>1, <1>3, <2>1 DEF Counting
  <2>3. QED
    BY <1>1, <1>3, <2>2 DEF Counting, ExecutionsCountedOnce
<1>5. EndIsReal'
  BY <1>1, <1>3 DEF EndIsReal
<1>6. Sessions'
  BY <1>1, <1>3 DEF Sessions
<1>7. BalanceIsRecord'
  BY <1>1, FillEffect DEF BalanceIsRecord
<1>8. QED
  BY <1>2, <1>4, <1>5, <1>6, <1>7 DEF AccountInv

LEMMA CancelEffect ==
  ASSUME AccountTypes, Cancel
  PROVE  /\ account' = account /\ direction' = direction /\ joined' = joined
         /\ subscribed' = subscribed /\ executions' = executions /\ seen' = seen
         /\ counted' = counted /\ told' = told /\ position' = position /\ balance' = balance
         /\ filled' = filled /\ filled \in 0 .. Size /\ filled # Size
         /\ ended = "no" /\ ended' = "canceled"
         /\ Topics' = Topics
         /\ subscribed => /\ lost' = lost
                          /\ \A t \in Topics : queue'[t] = queue[t] \o CancelAdds(t, filled)
                          /\ queue' = [t \in Topics |-> queue[t] \o CancelAdds(t, filled)]
         /\ ~ subscribed => queue' = queue /\ lost' = TRUE
<1>1. /\ account' = account /\ direction' = direction /\ joined' = joined
      /\ subscribed' = subscribed /\ executions' = executions /\ seen' = seen
      /\ counted' = counted /\ told' = told /\ position' = position /\ balance' = balance
      /\ filled' = filled /\ ended = "no" /\ ended' = "canceled"
  BY DEF Cancel, consumerVars
<1>2. filled \in 0 .. Size /\ filled # Size
  BY <1>1 DEF AccountTypes
<1>3. Topics' = Topics
  BY <1>1, FramesStay
<1>4. ASSUME subscribed
      PROVE  lost' = lost /\ queue' = [t \in Topics |-> queue[t] \o CancelAdds(t, filled)]
  BY <1>4 DEF Cancel, PushReports, CancelAdds
<1>5. ASSUME ~ subscribed
      PROVE  queue' = queue /\ lost' = TRUE
  BY <1>5 DEF Cancel, PushReports
<1>6. QED
  BY <1>1, <1>2, <1>3, <1>4, <1>5

LEMMA CancelKeepsTypes ==
  ASSUME AccountTypes, Cancel
  PROVE  AccountTypes'
<1>1. /\ account' = account /\ direction' = direction /\ filled' = filled
      /\ filled \in 0 .. Size /\ filled # Size /\ account \in AllAccounts
      /\ joined' = joined /\ subscribed' = subscribed /\ ended' = "canceled"
      /\ Topics' = Topics
  BY CancelEffect DEF AccountTypes
<1>2. AllFrames' = AllFrames
  BY <1>1, FramesStay
<1>3. CASE subscribed
  <2>1. queue' = [t \in Topics |-> queue[t] \o CancelAdds(t, filled)] /\ lost' = lost
    BY <1>3, CancelEffect
  <2>2. ASSUME NEW t \in Topics
        PROVE  queue[t] \o CancelAdds(t, filled) \in Seq(AllFrames)
    <3>1. CancelAdds(t, filled) \in Seq(AllFrames)
      BY <1>1, PushedByCancel
    <3>2. queue[t] \in Seq(AllFrames)
      BY DEF AccountTypes
    <3>3. QED
      BY <3>1, <3>2, PushedInTurn
  <2>3. queue' \in [Topics -> Seq(AllFrames)]
    BY <2>1, <2>2
  <2>4. QED
    BY <1>1, <1>2, <2>1, <2>3 DEF AccountTypes
<1>4. CASE ~ subscribed
  <2>1. queue' = queue /\ lost' = TRUE
    BY <1>4, CancelEffect
  <2>2. QED
    BY <1>1, <1>2, <2>1 DEF AccountTypes
<1>5. QED
  BY <1>3, <1>4

LEMMA CancelKeepsQueues ==
  ASSUME AccountTypes, QueuesAreTrue, Cancel
  PROVE  QueuesAreTrue'
<1>1. /\ account \in AllAccounts /\ account' = account /\ direction' = direction
      /\ filled' = filled /\ filled \in 0 .. Size
      /\ ended = "no" /\ ended' = "canceled"
      /\ Topics' = Topics
      /\ subscribed => \A t \in Topics : queue'[t] = queue[t] \o CancelAdds(t, filled)
      /\ ~ subscribed => queue' = queue
  BY CancelEffect DEF AccountTypes
<1>2. filled \in Nat /\ filled' \in Nat /\ filled' >= filled
  BY <1>1, OrderAssumption
<1>3. ASSUME NEW t \in Topics, NEW i \in 1 .. Len(queue[t]), NEW f, f = queue[t][i]
      PROVE  IsReport(f, t)'
  <2>1. IsReport(f, t)
    BY <1>3 DEF QueuesAreTrue
  <2>2. QED
    BY <1>1, <1>2, <2>1, ReportsStayTrue
<1>4. ASSUME NEW t \in Topics, NEW r, r = CancelAdds(t, filled), NEW j \in 1 .. Len(r),
             NEW f, f = r[j]
      PROVE  IsReport(f, t)'
  <2>1. SaysOrder(f, t, StatusAfterCancel) \/ IsBalance(f, t)
    BY <1>1, <1>4, PushedByCancel
  <2>2. QED
    BY <1>1, <1>2, <2>1, PushedReportsAreTrue
<1>5. ASSUME NEW t \in Topics, NEW i \in 1 .. Len(queue'[t]), NEW f, f = queue'[t][i]
      PROVE  IsReport(f, t)'
  <2>1. CASE ~ subscribed
    BY <1>1, <1>3, <1>5, <2>1
  <2>2. CASE subscribed
    <3> DEFINE r == CancelAdds(t, filled)
    <3>1. queue'[t] = queue[t] \o r
      BY <1>1, <2>2
    <3>2. queue[t] \in Seq(AllFrames) /\ r \in Seq(AllFrames)
      BY <1>1, PushedByCancel DEF AccountTypes
    <3>r. r = CancelAdds(t, filled)
      OBVIOUS
    <3> HIDE DEF r
    <3>3. \/ \E j \in 1 .. Len(queue[t]) : f = queue[t][j]
          \/ \E j \in 1 .. Len(r) : f = r[j]
      BY <1>5, <3>1, <3>2, PushedInTurn
    <3>4. QED
      BY <1>3, <1>4, <3>r, <3>3
  <2>3. QED
    BY <2>1, <2>2
<1>6. QED
  BY <1>1, <1>5 DEF QueuesAreTrue

LEMMA CancelKeepsTruth ==
  ASSUME AccountTypes, TruthInSight, Cancel
  PROVE  TruthInSight'
<1>1. /\ account \in AllAccounts /\ account' = account
      /\ direction \in {1, -1} /\ direction' = direction
      /\ filled' = filled /\ filled \in 0 .. Size /\ ended' = "canceled"
      /\ position' = position /\ joined' = joined
      /\ subscribed => /\ lost' = lost
                       /\ \A t \in Topics : queue'[t] = queue[t] \o CancelAdds(t, filled)
      /\ ~ subscribed => lost' = TRUE
  BY CancelEffect DEF AccountTypes
<1>2. CASE ~ subscribed
  BY <1>1, <1>2 DEF TruthInSight
<1>3. CASE subscribed
  <2>1. ASSUME NEW t \in Topics, NEW r, r = CancelAdds(t, filled)
        PROVE  /\ r # <<>> => queue'[t] # <<>> /\ queue'[t][Len(queue'[t])] = r[Len(r)]
               /\ r = <<>> => queue'[t] = queue[t]
    <3>1. queue'[t] = queue[t] \o r
      BY <1>1, <1>3, <2>1
    <3>2. queue[t] \in Seq(AllFrames) /\ r \in Seq(AllFrames)
      BY <1>1, <2>1, PushedByCancel DEF AccountTypes
    <3>3. QED
      BY <2>1, <3>1, <3>2, PushedInTurn
  <2>2. OrderInSight'
    <3> DEFINE t == OrderTopic[account]
               r == CancelAdds(t, filled)
               f == r[Len(r)]
    <3>1. r # <<>> /\ Means(f).status = StatusAfterCancel /\ Means(f).filled_size = filled
      BY <1>1, PlainTopics, PushedByCancel
    <3>2. queue'[t] # <<>> /\ queue'[t][Len(queue'[t])] = f
      BY <2>1, <3>1, PlainTopics
    <3>3. Status' = StatusAfterCancel
      BY <1>1, StatusFollows
    <3>4. (OrderTopic[account])' = t /\ Final(t)' = f
      BY <1>1, <3>2 DEF Final
    <3> HIDE DEF r, f
    <3>5. PICK x : x = f
      OBVIOUS
    <3>6. Means(x)' = Means(x)
      BY <1>1, FramesStay
    <3>7. Told(Means(x)) = [status |-> StatusAfterCancel, filled |-> filled]
      BY <3>1, <3>5 DEF Told
    <3>8. Truth' = [status |-> StatusAfterCancel, filled |-> filled]
      BY <1>1, <3>3 DEF Truth
    <3>9. QED
      BY <1>1, <3>2, <3>4, <3>5, <3>6, <3>7, <3>8 DEF OrderInSight, Told
  <2>3. ASSUME PositionInSight
        PROVE  PositionInSight'
    <3>1. queue'["position"] = queue["position"]
      BY <1>1, <2>1, PlainTopics, PushedByCancel
    <3>2. PICK x : x = Final("position")
      OBVIOUS
    <3>3. Final("position")' = x /\ Means(x)' = Means(x)
      BY <1>1, <3>1, <3>2, FramesStay DEF Final
    <3>4. QED
      BY <1>1, <2>3, <3>1, <3>2, <3>3 DEF PositionInSight
  <2>4. BalanceInSight'
    <3> DEFINE t == BalanceTopic[account]
               r == CancelAdds(t, filled)
               f == r[Len(r)]
    <3>1. r # <<>> /\ BalanceAfterCancel(Means(f), filled)
      BY <1>1, PlainTopics, PushedByCancel
    <3>2. queue'[t] # <<>> /\ (BalanceTopic[account])' = t /\ Final(t)' = f
      BY <1>1, <2>1, <3>1, PlainTopics DEF Final
    <3> HIDE DEF r, f
    <3>3. PICK x : x = f
      OBVIOUS
    <3>4. Means(x)' = Means(x)
      BY <1>1, FramesStay
    <3>5. IsBalanced(Means(x).available_balance, Means(x).hold_balance)'
      <4>1. ended' # "no"
        BY <1>1
      <4>2. BalanceAfterCancel(Means(x), filled)
        BY <3>1, <3>3
      <4>3. QED
        BY <1>1, <3>4, <4>1, <4>2 DEF BalanceAfterCancel, IsBalanced, Free, Held
    <3>6. QED
      BY <3>2, <3>3, <3>5 DEF BalanceInSight
  <2>5. QED
    BY <1>1, <1>3, <2>2, <2>3, <2>4 DEF TruthInSight
<1>4. QED
  BY <1>2, <1>3

LEMMA CancelStep ==
  ASSUME AccountInv, Cancel
  PROVE  AccountInv'
<1>1. /\ AccountTypes /\ BalanceIsRecord /\ QueuesAreTrue
      /\ Counting /\ EndIsReal /\ Sessions /\ TruthInSight
  BY DEF AccountInv
<1>2. AccountTypes' /\ QueuesAreTrue' /\ TruthInSight'
  BY <1>1, CancelKeepsTypes, CancelKeepsQueues, CancelKeepsTruth
<1>3. /\ joined' = joined /\ subscribed' = subscribed /\ executions' = executions /\ seen' = seen
      /\ counted' = counted /\ told' = told /\ filled' = filled
      /\ ended = "no" /\ Topics' = Topics
      /\ ~ subscribed => queue' = queue /\ lost' = TRUE
  BY <1>1, CancelEffect
<1>4. Counting'
  BY <1>1, <1>3 DEF Counting, ExecutionsCountedOnce
<1>5. EndIsReal'
  BY <1>1, <1>3 DEF EndIsReal
<1>6. Sessions'
  BY <1>1, <1>3 DEF Sessions
<1>7. BalanceIsRecord'
  BY <1>1, CancelEffect DEF BalanceIsRecord
<1>8. QED
  BY <1>2, <1>4, <1>5, <1>6, <1>7 DEF AccountInv

LEMMA LeaveStep ==
  ASSUME AccountInv, Leave
  PROVE  AccountInv'
<1>1. /\ AccountTypes /\ BalanceIsRecord /\ QueuesAreTrue
      /\ Counting /\ EndIsReal /\ Sessions /\ TruthInSight
  BY DEF AccountInv
<1>2. /\ account' = account /\ direction' = direction /\ joined' = joined
      /\ executions' = executions /\ seen' = seen /\ counted' = counted /\ told' = told
      /\ position' = position /\ balance' = balance
      /\ filled' = filled /\ ended' = ended
      /\ subscribed /\ subscribed' = FALSE
      /\ queue' = [t \in Topics |-> <<>>]
      /\ lost' = (lost \/ \E t \in Topics : queue[t] # <<>>)
  BY DEF Leave, consumerVars
<1>3. Topics' = Topics /\ AllFrames' = AllFrames /\ Status' = Status
  BY <1>2, FramesStay DEF Status
<1>4. AccountTypes'
  <2>1. queue' \in [Topics -> Seq(AllFrames)]
    BY <1>2, EmptySeq
  <2>2. lost' \in BOOLEAN
    BY <1>2
  <2>3. QED
    BY <1>1, <1>2, <1>3, <2>1, <2>2 DEF AccountTypes
<1>5. QueuesAreTrue'
  BY <1>2, <1>3, EmptySeq DEF QueuesAreTrue
<1>6. Counting' /\ EndIsReal'
  BY <1>1, <1>2, <1>3 DEF Counting, ExecutionsCountedOnce, EndIsReal
<1>7. Sessions'
  BY <1>1, <1>2, <1>3 DEF Sessions
<1>8. ASSUME ~ lost'
      PROVE  ~ lost /\ \A t \in Topics : queue[t] = <<>> /\ queue'[t] = <<>>
  BY <1>2, <1>8
<1>9. TruthInSight'
  <2> SUFFICES ASSUME ~ lost'
               PROVE  /\ account \in Split \/ joined <= 1 => OrderInSight'
                      /\ account \in {"bybit", "kucoin"} => PositionInSight'
                      /\ BalanceInSight'
    BY <1>2, <1>3 DEF TruthInSight
  <2>1. ~ lost /\ \A t \in Topics : queue[t] = <<>> /\ queue'[t] = <<>>
    BY <1>8
  <2>2. /\ account \in Split \/ joined <= 1 => OrderInSight
        /\ account \in {"bybit", "kucoin"} => PositionInSight
        /\ BalanceInSight
    BY <1>1, <2>1 DEF TruthInSight
  <2>3. OrderInSight => OrderInSight'
    BY <1>2, <1>3, <2>1, PlainTopics DEF OrderInSight, Truth
  <2>4. PositionInSight => PositionInSight'
    BY <1>2, <2>1, PlainTopics DEF PositionInSight
  <2>5. BalanceInSight => BalanceInSight'
    <3>1. \A a, h : IsBalanced(a, h)' <=> IsBalanced(a, h)
      BY <1>2 DEF IsBalanced, Free, Held
    <3>2. PICK a, h : a = balance.available /\ h = balance.held
      OBVIOUS
    <3>3. BalanceInSight => IsBalanced(a, h)
      BY <2>1, <3>2, PlainTopics DEF BalanceInSight
    <3>4. IsBalanced(a, h)' => BalanceInSight'
      BY <1>2, <2>1, <3>2, PlainTopics DEF BalanceInSight
    <3>5. QED
      BY <3>1, <3>3, <3>4
  <2>6. QED
    BY <2>2, <2>3, <2>4, <2>5
<1>10. BalanceIsRecord'
  BY <1>1, <1>2 DEF BalanceIsRecord
<1>11. QED
  BY <1>4, <1>5, <1>6, <1>7, <1>9, <1>10 DEF AccountInv

Replay(n) == [i \in 1 .. n |-> Report(FillTopic[account], i, FillReport(i))]

\* A session starts with empty queues and a replay of the past executions at most.
LEMMA ReplaySays ==
  ASSUME account \in AllAccounts, filled \in 0 .. Size, NEW n \in 0 .. filled, NEW r,
         r = Replay(n)
  PROVE  /\ r \in Seq(AllFrames) /\ Len(r) = n
         /\ \A i \in 1 .. n : SaysFill(r[i], FillTopic[account], i)
         /\ n = 0 => r = <<>>
<1>1. \A i \in 1 .. n : i \in 0 .. Size /\ i > 0 /\ i \in 1 .. Size
  BY OrderAssumption
<1>2. \A i \in 1 .. n : Report(FillTopic[account], i, FillReport(i)) \in AllFrames
  BY <1>1, FramesMade, PlainTopics
<1>3. \A i \in 1 .. n : SaysFill(Report(FillTopic[account], i, FillReport(i)), FillTopic[account], i)
  BY <1>1, FillSays
<1>4. n \in Nat
  BY OrderAssumption
<1>5. \A i \in 1 .. n : r[i] = Report(FillTopic[account], i, FillReport(i))
  BY DEF Replay
<1>6. DOMAIN r = 1 .. n
  BY DEF Replay
<1>8. r \in [1 .. n -> AllFrames]
  BY <1>2 DEF Replay
<1>9. r \in Seq(AllFrames) /\ Len(r) = n
  BY <1>4, <1>6, <1>8
<1>10. n = 0 => r = <<>>
  BY <1>9, EmptySeq
<1>11. QED
  BY <1>3, <1>5, <1>9, <1>10

\* The report of a past execution is still true.
LEMMA PastFillIsTrue ==
  ASSUME AccountTypes, account' = account, direction' = direction, filled' = filled,
         ended' = ended, NEW k \in 1 .. filled, NEW f, NEW t, SaysFill(f, t, k)
  PROVE  IsReport(f, t)'
<1>1. Means(f)' = Means(f)
  BY FramesStay
<1>2. filled \in 0 .. Size /\ (filled = Size => ended = "filled")
  BY DEF AccountTypes
<1>3. ASSUME account \notin Split
      PROVE  IsTrueEnd(Means(f).status)'
  <2>1. Means(f).status = IF account = "kucoin" THEN "match"
                          ELSE IF k = Size THEN "filled" ELSE "partialFilled"
    BY <1>3 DEF SaysFill
  <2>2. Means(f).status \in EndStatuses =>
          Means(f).status = "filled" /\ account # "kucoin" /\ ended = "filled"
    BY <1>2, <2>1, OrderAssumption DEF EndStatuses
  <2>3. ended' = "filled" /\ account # "kucoin" => Status' = "filled"
    BY DEF Status
  <2>4. QED
    BY <1>1, <2>2, <2>3 DEF IsTrueEnd, EndStatuses
<1>4. IsFill(f, t)'
  BY <1>1, <1>3 DEF SaysFill, IsFill
<1>5. QED
  BY <1>4 DEF IsReport

LEMMA JoinStep ==
  ASSUME AccountInv, Join
  PROVE  AccountInv'
<1>1. /\ AccountTypes /\ BalanceIsRecord /\ QueuesAreTrue
      /\ Counting /\ EndIsReal /\ Sessions /\ TruthInSight
  BY DEF AccountInv
<1> DEFINE T == FillTopic[account]
<1>2. PICK n \in 0 .. filled :
        queue' = [queue EXCEPT ![T] = Replay(n)]
  BY DEF Join, Replay
<1> DEFINE r == Replay(n)
<1>3. /\ account' = account /\ direction' = direction /\ joined' = joined + 1
      /\ executions' = executions /\ seen' = seen /\ counted' = counted /\ told' = told
      /\ position' = position /\ balance' = balance
      /\ filled' = filled /\ ended' = ended /\ lost' = lost
      /\ ~ subscribed /\ subscribed' = TRUE
  BY DEF Join, consumerVars
<1>4. Topics' = Topics /\ AllFrames' = AllFrames /\ Status' = Status
  BY <1>3, FramesStay DEF Status
<1>5. /\ account \in AllAccounts /\ direction \in {1, -1} /\ filled \in 0 .. Size
      /\ joined \in Nat /\ queue \in [Topics -> Seq(AllFrames)]
  BY <1>1 DEF AccountTypes
<1>6. /\ r \in Seq(AllFrames) /\ Len(r) = n
      /\ \A i \in 1 .. n : SaysFill(r[i], T, i)
      /\ n = 0 => r = <<>>
  BY <1>2, <1>5, ReplaySays
<1>7. queue' = [queue EXCEPT ![T] = r]
  BY <1>2
<1> HIDE DEF r
<1>8. /\ T \in Topics /\ queue'[T] = r
      /\ \A t \in Topics : t # T => queue'[t] = queue[t] /\ queue[t] = <<>>
      /\ \A t \in Topics : queue[t] = <<>>
  BY <1>1, <1>3, <1>5, <1>7, PlainTopics DEF Sessions
<1>9. AccountTypes'
  <2>1. queue' \in [Topics -> Seq(AllFrames)]
    BY <1>5, <1>6, <1>7
  <2>2. joined' \in Nat
    BY <1>3, <1>5
  <2>3. QED
    BY <1>1, <1>3, <1>4, <2>1, <2>2 DEF AccountTypes
<1>10. QueuesAreTrue'
  <2>1. ASSUME NEW t \in Topics, NEW i \in 1 .. Len(queue'[t]), NEW f, f = queue'[t][i]
        PROVE  IsReport(f, t)'
    <3>1. CASE t = T
      <4>1. i \in 1 .. n /\ f = r[i]
        BY <1>6, <1>8, <2>1, <3>1
      <4>2. SaysFill(f, t, i) /\ i \in 1 .. filled
        BY <1>5, <1>6, <3>1, <4>1, OrderAssumption
      <4>3. QED
        BY <1>1, <1>3, <4>2, PastFillIsTrue
    <3>2. CASE t # T
      BY <1>8, <2>1, <3>2, EmptySeq
    <3>3. QED
      BY <3>1, <3>2
  <2>2. QED
    BY <1>4, <2>1 DEF QueuesAreTrue
<1>11. Counting' /\ EndIsReal'
  BY <1>1, <1>3, <1>4 DEF Counting, ExecutionsCountedOnce, EndIsReal
<1>12. Sessions'
  BY <1>3, <1>5 DEF Sessions
<1>13. TruthInSight'
  <2> SUFFICES ASSUME ~ lost
               PROVE  /\ account \in Split \/ joined + 1 <= 1 => OrderInSight'
                      /\ account \in {"bybit", "kucoin"} => PositionInSight'
                      /\ BalanceInSight'
    BY <1>3, <1>4 DEF TruthInSight
  <2>1. /\ account \in Split \/ joined <= 1 => OrderInSight
        /\ account \in {"bybit", "kucoin"} => PositionInSight
        /\ BalanceInSight
    BY <1>1 DEF TruthInSight
  <2>2. ASSUME account \in Split \/ joined + 1 <= 1
        PROVE  OrderInSight'
    <3>1. OrderInSight
      BY <1>5, <2>1, <2>2
    <3>2. queue'[OrderTopic[account]] = <<>>
      <4>1. CASE account \in Split
        BY <1>5, <1>8, <4>1, PlainTopics, TopicsApart
      <4>2. CASE joined + 1 <= 1
        <5>1. joined = 0
          BY <1>5, <4>2
        <5>2. filled = 0
          BY <1>1, <5>1 DEF Sessions
        <5>3. n = 0
          BY <5>2
        <5>4. QED
          BY <1>6, <1>8, <5>3, PlainTopics
      <4>3. QED
        BY <2>2, <4>1, <4>2
    <3>3. told = Truth
      BY <1>8, <3>1, PlainTopics DEF OrderInSight
    <3>4. Truth' = Truth
      BY <1>3, <1>4 DEF Truth
    <3>5. QED
      BY <1>3, <3>2, <3>3, <3>4 DEF OrderInSight
  <2>3. PositionInSight => PositionInSight'
    BY <1>3, <1>5, <1>8, PlainTopics, TopicsApart DEF PositionInSight
  <2>4. BalanceInSight => BalanceInSight'
    <3>1. \A a, h : IsBalanced(a, h)' <=> IsBalanced(a, h)
      BY <1>3 DEF IsBalanced, Free, Held
    <3>2. PICK a, h : a = balance.available /\ h = balance.held
      OBVIOUS
    <3>3. BalanceInSight => IsBalanced(a, h)
      BY <1>8, <3>2, PlainTopics DEF BalanceInSight
    <3>4. queue'[BalanceTopic[account]] = <<>>
      BY <1>5, <1>8, PlainTopics, TopicsApart
    <3>5. IsBalanced(a, h)' => BalanceInSight'
      BY <1>3, <3>2, <3>4 DEF BalanceInSight
    <3>6. QED
      BY <3>1, <3>3, <3>5
  <2>5. QED
    BY <2>1, <2>2, <2>3, <2>4
<1>14. BalanceIsRecord'
  BY <1>1, <1>3 DEF BalanceIsRecord
<1>15. QED
  BY <1>9, <1>10, <1>11, <1>12, <1>13, <1>14 DEF AccountInv

---------------------------------------------------------------------------------
(* The consumer's step.                                                            *)

LEMMA ReadEffect ==
  ASSUME AccountTypes, QueuesAreTrue, NEW t, ReadReport(t), NEW f, f = Head(queue[t])
  PROVE  /\ t \in Topics /\ queue[t] # <<>> /\ f = queue[t][1] /\ IsReport(f, t)
         /\ account' = account /\ direction' = direction /\ joined' = joined
         /\ subscribed' = subscribed /\ filled' = filled /\ ended' = ended /\ lost' = lost
         /\ executions' = executions \cup ({f.execution} \ {0})
         /\ Consume(Means(f))
         /\ queue' = [queue EXCEPT ![t] = Tail(queue[t])]
         /\ \A s \in Topics : s # t => queue'[s] = queue[s]
         /\ queue'[t] \in Seq(AllFrames)
         /\ Len(queue[t]) \in Nat \ {0} /\ Len(queue'[t]) = Len(queue[t]) - 1
         /\ \A i \in 1 .. Len(queue'[t]) :
              i + 1 \in 1 .. Len(queue[t]) /\ queue'[t][i] = queue[t][i + 1]
<1>1. t \in Topics /\ queue[t] # <<>>
  BY DEF ReadReport
<1>2. /\ account' = account /\ direction' = direction /\ joined' = joined
      /\ subscribed' = subscribed /\ filled' = filled /\ ended' = ended /\ lost' = lost
      /\ executions' = executions \cup ({f.execution} \ {0})
      /\ Consume(Means(f))
      /\ queue' = [queue EXCEPT ![t] = Tail(queue[t])]
  BY DEF ReadReport, Means
<1>3. queue \in [Topics -> Seq(AllFrames)] /\ queue[t] \in Seq(AllFrames)
  BY <1>1 DEF AccountTypes
<1>4. /\ queue'[t] = Tail(queue[t])
      /\ \A s \in Topics : s # t => queue'[s] = queue[s]
  BY <1>1, <1>2, <1>3
<1>5. Len(queue[t]) \in Nat \ {0}
  BY <1>1, <1>3, EmptySeq
<1>6. /\ queue'[t] \in Seq(AllFrames) /\ Len(queue'[t]) = Len(queue[t]) - 1
      /\ \A i \in 1 .. Len(queue'[t]) : queue'[t][i] = queue[t][i + 1]
  BY <1>1, <1>3, <1>4, HeadTailProperties
<1>7. f = queue[t][1]
  BY <1>1, <1>3
<1>8. 1 \in 1 .. Len(queue[t]) /\ \A i \in 1 .. Len(queue'[t]) : i + 1 \in 1 .. Len(queue[t])
  BY <1>5, <1>6
<1>9. IsReport(f, t)
  BY <1>1, <1>7, <1>8 DEF QueuesAreTrue
<1>10. QED
  BY <1>1, <1>2, <1>4, <1>5, <1>6, <1>7, <1>8, <1>9

\* What the consumer makes of each kind of frame.
LEMMA ConsumeEffect ==
  ASSUME NEW f, NEW t, Consume(Means(f))
  PROVE  /\ IsFill(f, t) \/ IsOrder(f, t) =>
              /\ CountFill(Means(f)) /\ FollowOrder(Means(f))
              /\ position' = position /\ balance' = balance
         /\ IsBalance(f, t) =>
              /\ balance' = [available |-> Means(f).available_balance,
                             held |-> Means(f).hold_balance]
              /\ seen' = seen /\ counted' = counted /\ told' = told /\ position' = position
         /\ IsPosition(f, t) =>
              /\ position' = Means(f).current_qty
              /\ seen' = seen /\ counted' = counted /\ told' = told /\ balance' = balance
<1> DEFINE u == Means(f)
<1>1. ASSUME u.is = "OrderUpdate"
      PROVE  CountFill(u) /\ FollowOrder(u) /\ position' = position /\ balance' = balance
  BY <1>1 DEF Consume
<1>2. ASSUME u.is = "BalanceUpdate"
      PROVE  /\ balance' = [available |-> u.available_balance, held |-> u.hold_balance]
             /\ seen' = seen /\ counted' = counted /\ told' = told /\ position' = position
  BY <1>2 DEF Consume
<1>3. ASSUME u.is = "PositionChange"
      PROVE  /\ position' = u.current_qty
             /\ seen' = seen /\ counted' = counted /\ told' = told /\ balance' = balance
  BY <1>3 DEF Consume
<1>4. QED
  BY <1>1, <1>2, <1>3 DEF IsFill, IsOrder, IsBalance, IsPosition

\* What the consumer is told of the order by a frame.
LEMMA ToldByFrame ==
  ASSUME NEW f, NEW t, Consume(Means(f)), IsReport(f, t)
  PROVE  /\ IsOrder(f, t) => told' = Told(Means(f))
         /\ IsFill(f, t) /\ account \notin Split => told' = Told(Means(f))
         /\ IsFill(f, t) /\ account \in Split => told' = told
         /\ IsBalance(f, t) \/ IsPosition(f, t) => told' = told
<1>1. 1 # None
  BY NoMatchAssumption
<1>2. ASSUME IsOrder(f, t)
      PROVE  told' = Told(Means(f))
  BY <1>2, ConsumeEffect DEF IsOrder, FollowOrder, Told
<1>3. ASSUME IsFill(f, t), account \notin Split
      PROVE  told' = Told(Means(f))
  BY <1>3, ConsumeEffect DEF FollowOrder, Told
<1>4. ASSUME IsFill(f, t), account \in Split
      PROVE  told' = told
  BY <1>1, <1>4, ConsumeEffect DEF IsFill, FollowOrder
<1>5. QED
  BY <1>2, <1>3, <1>4, ConsumeEffect

LEMMA ReadKeepsCounting ==
  ASSUME AccountTypes, Counting, NEW f, NEW t, Consume(Means(f)), IsReport(f, t),
         filled' = filled, executions' = executions \cup ({f.execution} \ {0})
  PROVE  Counting'
<1>1. executions \subseteq 1 .. filled /\ seen = executions /\ counted = Cardinality(executions)
  BY DEF Counting, ExecutionsCountedOnce
<1>2. filled \in Nat
  BY OrderAssumption DEF AccountTypes
<1>3. IsFiniteSet(executions)
  <2>1. IsFiniteSet(1 .. filled)
    BY <1>2, FS_Interval
  <2>2. QED
    BY <1>1, <2>1, FS_Subset
<1>4. CASE IsFill(f, t)
  <2> DEFINE k == f.execution
  <2>1. k \in 1 .. filled /\ Means(f).match_size = 1 /\ Means(f).trade_id = k
    BY <1>4 DEF IsFill
  <2>2. 1 # None /\ k # None /\ k # 0
    BY <1>2, <2>1, NoMatchAssumption
  <2>3. executions' = executions \cup {k}
    BY <2>2
  <2>4. CountFill(Means(f))
    BY <1>4, ConsumeEffect
  <2> HIDE DEF k
  <2>5. CASE k \in executions
    <3>1. seen' = seen /\ counted' = counted
      BY <1>1, <2>1, <2>4, <2>5 DEF CountFill
    <3>2. executions' = executions
      BY <2>3, <2>5
    <3>3. QED
      BY <1>1, <3>1, <3>2 DEF Counting, ExecutionsCountedOnce
  <2>6. CASE k \notin executions
    <3>1. seen' = seen \cup {k} /\ counted' = counted + 1
      BY <1>1, <2>1, <2>2, <2>4, <2>6 DEF CountFill
    <3>2. Cardinality(executions \cup {k}) = Cardinality(executions) + 1
      BY <1>3, <2>6, FS_AddElement
    <3>3. executions' \subseteq 1 .. filled'
      BY <1>1, <2>1, <2>3
    <3>4. QED
      BY <1>1, <2>3, <3>1, <3>2, <3>3 DEF Counting, ExecutionsCountedOnce
  <2>7. QED
    BY <2>5, <2>6
<1>5. CASE IsOrder(f, t) \/ IsBalance(f, t) \/ IsPosition(f, t)
  <2>1. executions' = executions
    BY <1>5 DEF IsOrder, IsBalance, IsPosition
  <2>2. seen' = seen /\ counted' = counted
    <3>1. CASE IsOrder(f, t)
      BY <3>1, ConsumeEffect DEF IsOrder, CountFill
    <3>2. CASE IsBalance(f, t) \/ IsPosition(f, t)
      BY <3>2, ConsumeEffect
    <3>3. QED
      BY <1>5, <3>1, <3>2
  <2>3. QED
    BY <1>1, <2>1, <2>2 DEF Counting, ExecutionsCountedOnce
<1>6. QED
  BY <1>4, <1>5 DEF IsReport

\* A queue after its head was read: its last frame is the same, or was the head.
LEMMA FinalAfterRead ==
  ASSUME NEW q, NEW q2, Len(q) \in Nat \ {0}, Len(q2) = Len(q) - 1, NEW S, q2 \in Seq(S),
         \A i \in 1 .. Len(q2) : i + 1 \in 1 .. Len(q) /\ q2[i] = q[i + 1]
  PROVE  /\ q2 = <<>> => q[Len(q)] = q[1]
         /\ q2 # <<>> => q2[Len(q2)] = q[Len(q)]
<1>1. q2 = <<>> => Len(q) = 1
  BY EmptySeq
<1>2. q2 # <<>> => Len(q2) \in 1 .. Len(q2)
  BY EmptySeq
<1>3. QED
  BY <1>1, <1>2

LEMMA ReadKeepsTruth ==
  ASSUME AccountTypes, QueuesAreTrue, TruthInSight, NEW t, ReadReport(t)
  PROVE  TruthInSight'
<1>1. PICK f : f = Head(queue[t])
  OBVIOUS
<1>2. /\ t \in Topics /\ queue[t] # <<>> /\ f = queue[t][1] /\ IsReport(f, t)
      /\ account \in AllAccounts /\ account' = account /\ direction' = direction
      /\ joined' = joined /\ filled' = filled /\ ended' = ended /\ lost' = lost
      /\ Consume(Means(f))
      /\ \A s \in Topics : s # t => queue'[s] = queue[s]
  BY <1>1, ReadEffect DEF AccountTypes
<1>3. /\ Topics' = Topics /\ Status' = Status /\ \A x : Means(x)' = Means(x)
  BY <1>2, FramesStay DEF Status
<1>4. /\ queue'[t] = <<>> => queue[t][Len(queue[t])] = f
      /\ queue'[t] # <<>> => queue'[t][Len(queue'[t])] = queue[t][Len(queue[t])]
  <2>1. /\ f = queue[t][1] /\ queue'[t] \in Seq(AllFrames)
        /\ Len(queue[t]) \in Nat \ {0} /\ Len(queue'[t]) = Len(queue[t]) - 1
        /\ \A i \in 1 .. Len(queue'[t]) :
             i + 1 \in 1 .. Len(queue[t]) /\ queue'[t][i] = queue[t][i + 1]
    BY <1>1, ReadEffect
  <2>2. QED
    BY <2>1, FinalAfterRead
<1>5. OrderInSight => OrderInSight'
  <2> SUFFICES ASSUME OrderInSight PROVE OrderInSight'
    OBVIOUS
  <2> DEFINE T == OrderTopic[account]
  <2>1. T' = T /\ Truth' = Truth /\ T \in Topics
    BY <1>2, <1>3, PlainTopics DEF Truth
  <2>2. /\ queue[T] = <<>> => told = Truth
        /\ queue[T] # <<>> => Told(Means(queue[T][Len(queue[T])])) = Truth
    BY DEF OrderInSight, Final
  <2>3. SUFFICES /\ queue'[T] = <<>> => told' = Truth
                 /\ queue'[T] # <<>> => Told(Means(queue'[T][Len(queue'[T])])) = Truth
    <3>1. PICK x : x = queue'[T][Len(queue'[T])]
      OBVIOUS
    <3>2. Means(x)' = Means(x)
      BY <1>3
    <3>3. queue'[T] # <<>> => Told(Means(x)) = Truth
      BY <2>3, <3>1
    <3>4. Told(Means(Final(T)))' = Told(Means(x))
      BY <2>1, <3>1, <3>2 DEF Final, Told
    <3>5. QED
      BY <2>1, <2>3, <3>3, <3>4 DEF OrderInSight
  <2>4. CASE t = T
    <3>1. IsOrder(f, t) \/ (IsFill(f, t) /\ account \notin Split)
      BY <1>2, <2>4, TopicsApart DEF IsReport, IsFill, IsBalance, IsPosition
    <3>2. told' = Told(Means(f))
      BY <1>2, <3>1, ToldByFrame
    <3>3. QED
      BY <1>2, <1>4, <2>2, <2>4, <3>2
  <2>5. CASE t # T
    <3>1. ~ IsOrder(f, t) /\ (IsFill(f, t) => account \in Split)
      BY <1>2, <2>5, TopicsApart DEF IsOrder, IsFill
    <3>2. told' = told
      BY <1>2, <3>1, ToldByFrame DEF IsReport
    <3>3. queue'[T] = queue[T]
      BY <1>2, <2>1, <2>5
    <3>4. QED
      BY <2>2, <3>2, <3>3
  <2>6. QED
    BY <2>4, <2>5
<1>6. PositionInSight => PositionInSight'
  <2> SUFFICES ASSUME PositionInSight PROVE PositionInSight'
    OBVIOUS
  <2> DEFINE T == "position"
  <2>1. T \in Topics
    BY PlainTopics
  <2>2. /\ queue[T] = <<>> => position = direction * filled
        /\ queue[T] # <<>> => Means(queue[T][Len(queue[T])]).current_qty = direction * filled
    BY DEF PositionInSight, Final
  <2>3. SUFFICES /\ queue'[T] = <<>> => position' = direction * filled
                 /\ queue'[T] # <<>> =>
                      Means(queue'[T][Len(queue'[T])]).current_qty = direction * filled
    <3>1. PICK x : x = queue'[T][Len(queue'[T])]
      OBVIOUS
    <3>2. Means(x)' = Means(x)
      BY <1>3
    <3>3. queue'[T] # <<>> => Means(x).current_qty = direction * filled
      BY <2>3, <3>1
    <3>4. Means(Final(T))' = Means(x)
      BY <3>1, <3>2 DEF Final
    <3>5. QED
      BY <1>2, <2>3, <3>3, <3>4 DEF PositionInSight
  <2>4. CASE t = T
    <3>1. IsPosition(f, t)
      BY <1>2, <2>4, TopicsApart DEF IsReport, IsFill, IsOrder, IsBalance
    <3>2. position' = Means(f).current_qty
      BY <1>2, <3>1, ConsumeEffect
    <3>3. QED
      BY <1>2, <1>4, <2>2, <2>4, <3>2
  <2>5. CASE t # T
    <3>1. ~ IsPosition(f, t)
      BY <2>5 DEF IsPosition
    <3>2. position' = position
      BY <1>2, <3>1, ConsumeEffect DEF IsReport
    <3>3. queue'[T] = queue[T]
      BY <1>2, <2>1, <2>5
    <3>4. QED
      BY <2>2, <3>2, <3>3
  <2>6. QED
    BY <2>4, <2>5
<1>7. BalanceInSight => BalanceInSight'
  <2> SUFFICES ASSUME BalanceInSight PROVE BalanceInSight'
    OBVIOUS
  <2> DEFINE T == BalanceTopic[account]
  <2>1. T' = T /\ T \in Topics
    BY <1>2, PlainTopics
  <2>2. /\ queue[T] = <<>> => IsBalanced(balance.available, balance.held)
        /\ queue[T] # <<>> => IsBalanced(Means(queue[T][Len(queue[T])]).available_balance,
                                         Means(queue[T][Len(queue[T])]).hold_balance)
    BY DEF BalanceInSight, Final
  <2>3. \A a, h : IsBalanced(a, h)' <=> IsBalanced(a, h)
    BY <1>2 DEF IsBalanced, Free, Held
  <2>4. SUFFICES /\ queue'[T] = <<>> => IsBalanced(balance'.available, balance'.held)
                 /\ queue'[T] # <<>> =>
                      IsBalanced(Means(queue'[T][Len(queue'[T])]).available_balance,
                                 Means(queue'[T][Len(queue'[T])]).hold_balance)
    <3>1. PICK x : x = queue'[T][Len(queue'[T])]
      OBVIOUS
    <3>2. Means(x)' = Means(x)
      BY <1>3
    <3>3. PICK a, h, b, g : /\ a = Means(x).available_balance /\ h = Means(x).hold_balance
                            /\ b = balance'.available /\ g = balance'.held
      OBVIOUS
    <3>4. /\ queue'[T] = <<>> => IsBalanced(b, g)'
          /\ queue'[T] # <<>> => IsBalanced(a, h)'
      BY <2>3, <2>4, <3>1, <3>3
    <3>5. Means(Final(T))' = Means(x)
      BY <2>1, <3>1, <3>2 DEF Final
    <3>6. QED
      BY <2>1, <3>3, <3>4, <3>5 DEF BalanceInSight
  <2>5. CASE t = T
    <3>1. IsBalance(f, t)
      BY <1>2, <2>5, TopicsApart DEF IsReport, IsFill, IsOrder, IsPosition
    <3>2. balance' = [available |-> Means(f).available_balance, held |-> Means(f).hold_balance]
      BY <1>2, <3>1, ConsumeEffect
    <3>3. QED
      BY <1>2, <1>4, <2>2, <2>5, <3>2
  <2>6. CASE t # T
    <3>1. ~ IsBalance(f, t)
      BY <2>6 DEF IsBalance
    <3>2. balance' = balance
      BY <1>2, <3>1, ConsumeEffect DEF IsReport
    <3>3. queue'[T] = queue[T]
      BY <1>2, <2>1, <2>6
    <3>4. QED
      BY <2>2, <3>2, <3>3
  <2>7. QED
    BY <2>5, <2>6
<1>8. QED
  BY <1>2, <1>5, <1>6, <1>7 DEF TruthInSight

LEMMA ReadStep ==
  ASSUME AccountInv, NEW t, ReadReport(t)
  PROVE  AccountInv'
<1>1. /\ AccountTypes /\ BalanceIsRecord /\ QueuesAreTrue
      /\ Counting /\ EndIsReal /\ Sessions /\ TruthInSight
  BY DEF AccountInv
<1>2. PICK f : f = Head(queue[t])
  OBVIOUS
<1>3. /\ t \in Topics /\ queue[t] # <<>> /\ IsReport(f, t) /\ Consume(Means(f))
      /\ account' = account /\ direction' = direction /\ joined' = joined
      /\ subscribed' = subscribed /\ filled' = filled /\ ended' = ended /\ lost' = lost
      /\ executions' = executions \cup ({f.execution} \ {0})
      /\ queue' = [queue EXCEPT ![t] = Tail(queue[t])]
      /\ \A s \in Topics : s # t => queue'[s] = queue[s]
      /\ queue'[t] \in Seq(AllFrames)
      /\ \A i \in 1 .. Len(queue'[t]) :
           i + 1 \in 1 .. Len(queue[t]) /\ queue'[t][i] = queue[t][i + 1]
  BY <1>1, <1>2, ReadEffect
<1>4. Topics' = Topics /\ AllFrames' = AllFrames /\ Status' = Status
  BY <1>3, FramesStay DEF Status
<1>5. filled \in Nat /\ queue \in [Topics -> Seq(AllFrames)]
  BY <1>1, OrderAssumption DEF AccountTypes
<1>6. AccountTypes'
  <2>1. Tail(queue[t]) \in Seq(AllFrames)
    BY <1>3, <1>5, HeadTailProperties
  <2>2. queue' \in [Topics -> Seq(AllFrames)]
    BY <1>3, <1>5, <2>1
  <2>3. QED
    BY <1>1, <1>3, <1>4, <2>2 DEF AccountTypes
<1>7. QueuesAreTrue'
  <2>1. ASSUME NEW s \in Topics, NEW i \in 1 .. Len(queue'[s]), NEW g, g = queue'[s][i]
        PROVE  IsReport(g, s)'
    <3>1. \E j \in 1 .. Len(queue[s]) : g = queue[s][j]
      BY <1>3, <2>1
    <3>2. IsReport(g, s)
      BY <1>1, <3>1 DEF QueuesAreTrue
    <3>3. QED
      BY <1>3, <1>5, <3>2, ReportsStayTrue
  <2>2. QED
    BY <1>4, <2>1 DEF QueuesAreTrue
<1>8. Counting'
  BY <1>1, <1>3, ReadKeepsCounting
<1>9. EndIsReal'
  <2>1. IsTrueEnd(told'.status)
    <3>1. IsTrueEnd(told.status)
      BY <1>1 DEF EndIsReal, IsTrueEnd, EndStatuses
    <3>2. CASE IsOrder(f, t) \/ (IsFill(f, t) /\ account \notin Split)
      <4>1. told' = Told(Means(f))
        BY <1>3, <3>2, ToldByFrame
      <4>2. IsTrueEnd(Means(f).status)
        BY <3>2 DEF IsOrder, IsFill
      <4>3. told'.status = Means(f).status
        BY <4>1 DEF Told
      <4>4. QED
        BY <4>2, <4>3
    <3>3. CASE ~ (IsOrder(f, t) \/ (IsFill(f, t) /\ account \notin Split))
      <4>1. told' = told
        BY <1>3, <3>3, ToldByFrame DEF IsReport
      <4>2. QED
        BY <3>1, <4>1
    <3>4. QED
      BY <3>2, <3>3
  <2>2. QED
    BY <1>3, <1>4, <2>1 DEF EndIsReal, IsTrueEnd, EndStatuses
<1>10. Sessions'
  BY <1>1, <1>3, <1>4 DEF Sessions
<1>11. TruthInSight'
  BY <1>1, ReadKeepsTruth
<1>12. BalanceIsRecord'
  BY <1>1, <1>3, ConsumeEffect DEF BalanceIsRecord, IsReport
<1>13. QED
  BY <1>6, <1>7, <1>8, <1>9, <1>10, <1>11, <1>12 DEF AccountInv

---------------------------------------------------------------------------------
(* The theorems.                                                                   *)

LEMMA AccountStart ==
  AccountInit => AccountInv
<1> SUFFICES ASSUME AccountInit PROVE AccountInv
  OBVIOUS
<1>1. /\ account \in AllAccounts /\ direction \in {1, -1}
      /\ filled = 0 /\ ended = "no" /\ joined = 0 /\ subscribed = FALSE
      /\ queue = [t \in Topics |-> <<>>] /\ lost = FALSE
      /\ executions = {} /\ seen = {} /\ counted = 0
      /\ told = [status |-> "open", filled |-> 0]
      /\ position = 0
      /\ balance = [available |-> Free(0, FALSE), held |-> Held(0, FALSE)]
  BY AccountsAssumption DEF AccountInit
<1>2. /\ 0 \in 0 .. Size /\ 0 # Size /\ 1 .. 0 = {}
      /\ Free(0, FALSE) = 0 /\ Held(0, FALSE) = Size
  BY OrderAssumption DEF Free, Held
<1>3. \A t \in Topics : queue[t] = <<>> /\ Len(queue[t]) = 0
  BY <1>1
<1>4. AccountTypes
  <2>1. queue \in [Topics -> Seq(AllFrames)]
    BY <1>1
  <2>2. QED
    BY <1>1, <1>2, <2>1 DEF AccountTypes
<1>5. QueuesAreTrue
  BY <1>3 DEF QueuesAreTrue
<1>6. Counting
  BY <1>1, FS_EmptySet DEF Counting, ExecutionsCountedOnce
<1>7. EndIsReal
  BY <1>1 DEF EndIsReal
<1>8. Sessions
  BY <1>1, <1>3 DEF Sessions
<1>9. TruthInSight
  <2>1. OrderInSight
    <3>1. Status = "open"
      BY <1>1 DEF Status
    <3>2. QED
      BY <1>1, <1>3, <3>1, PlainTopics DEF OrderInSight, Truth
  <2>2. PositionInSight
    <3>1. direction * filled = 0
      BY <1>1
    <3>2. QED
      BY <1>1, <1>3, <3>1, PlainTopics DEF PositionInSight
  <2>3. BalanceInSight
    <3>1. IsBalanced(balance.available, balance.held)
      BY <1>1, <1>2, OrderAssumption DEF IsBalanced, Free, Held
    <3>2. QED
      BY <1>3, <3>1, PlainTopics DEF BalanceInSight
  <2>4. QED
    BY <2>1, <2>2, <2>3 DEF TruthInSight
<1>10. BalanceIsRecord
  BY <1>1 DEF BalanceIsRecord
<1>11. QED
  BY <1>4, <1>5, <1>6, <1>7, <1>8, <1>9, <1>10 DEF AccountInv

LEMMA AccountStep ==
  AccountInv /\ [AccountNext]_accountVars => AccountInv'
<1> SUFFICES ASSUME AccountInv, [AccountNext]_accountVars
             PROVE  AccountInv'
  OBVIOUS
<1>1. CASE Fill
  BY <1>1, FillStep
<1>2. CASE Cancel
  BY <1>2, CancelStep
<1>3. CASE Join
  BY <1>3, JoinStep
<1>4. CASE Leave
  BY <1>4, LeaveStep
<1>5. CASE \E t \in {"executionReport", "outboundAccountPosition", "executions", "balances",
                     "order", "execution", "position", "wallet", "user.order", "user.trade",
                     "user.balance", "tradeOrders"} : ReadReport(t)
  BY <1>5, ReadStep
<1>6. CASE UNCHANGED accountVars
  <2>1. /\ account' = account /\ direction' = direction /\ filled' = filled /\ ended' = ended
        /\ joined' = joined /\ subscribed' = subscribed /\ queue' = queue /\ lost' = lost
        /\ executions' = executions /\ seen' = seen /\ counted' = counted /\ told' = told
        /\ position' = position /\ balance' = balance
    BY <1>6 DEF accountVars
  <2>2. Topics' = Topics /\ AllFrames' = AllFrames /\ Status' = Status
    BY <2>1, FramesStay DEF Status
  <2>3. /\ AccountTypes /\ BalanceIsRecord /\ QueuesAreTrue
        /\ Counting /\ EndIsReal /\ Sessions /\ TruthInSight
    BY DEF AccountInv
  <2>4. AccountTypes' /\ Counting' /\ EndIsReal' /\ Sessions'
    BY <2>1, <2>2, <2>3
    DEF AccountTypes, Counting, ExecutionsCountedOnce, EndIsReal, Sessions
  <2>5. QueuesAreTrue'
    <3>1. filled \in Nat
      BY <2>3, OrderAssumption DEF AccountTypes
    <3>2. ASSUME NEW t \in Topics, NEW i \in 1 .. Len(queue'[t]), NEW f, f = queue'[t][i]
          PROVE  IsReport(f, t)'
      <4>1. IsReport(f, t)
        BY <2>1, <2>3, <3>2 DEF QueuesAreTrue
      <4>2. QED
        BY <2>1, <3>1, <4>1, ReportsStayTrue
    <3>3. QED
      BY <2>2, <3>2 DEF QueuesAreTrue
  <2>6. TruthInSight'
    BY <2>1, <2>2, <2>3 DEF TruthInSight, OrderInSight, PositionInSight, BalanceInSight, Truth,
       IsBalanced, Free, Held, Means, Told, Final
  <2>7. BalanceIsRecord'
    BY <2>1, <2>3 DEF BalanceIsRecord
  <2>8. QED
    BY <2>4, <2>5, <2>6, <2>7 DEF AccountInv
<1>7. QED
  BY <1>1, <1>2, <1>3, <1>4, <1>5, <1>6 DEF AccountNext

\* Whatever is replayed after a reconnect, and whichever topic is ahead, the
\* consumer's count of fills is the number of executions it was told of.
THEOREM NoFillIsCountedTwice == AccountSpec => []ExecutionsCountedOnce
<1>1. AccountInv => ExecutionsCountedOnce
  BY DEF AccountInv, Counting
<1>2. QED
  BY <1>1, AccountStart, AccountStep, PTL DEF AccountSpec

\* An end the consumer was told of is the order's end; and once it has read all
\* that was pushed and nothing was lost, it knows the order, position and balance.
THEOREM ConsumerIsTold == AccountSpec => []AccountIsTold
<1>1. AccountInv => AccountIsTold
  <2> SUFFICES ASSUME AccountInv PROVE AccountIsTold
    OBVIOUS
  <2>1. EndIsReal /\ TruthInSight /\ BalanceIsRecord
    BY DEF AccountInv
  <2>2. ASSUME Drained, ~ lost
        PROVE  /\ account \in Split \/ joined = 1 => told = [status |-> Status, filled |-> filled]
               /\ account \in {"bybit", "kucoin"} => position = direction * filled
               /\ IsBalanced(balance.available, balance.held)
    <3>1. \A t \in Topics : queue[t] = <<>>
      BY <2>2 DEF Drained
    <3>2. /\ account \in Split \/ joined <= 1 => OrderInSight
          /\ account \in {"bybit", "kucoin"} => PositionInSight
          /\ BalanceInSight
      BY <2>1, <2>2 DEF TruthInSight
    <3>3. joined = 1 => joined <= 1
      OBVIOUS
    <3>4. OrderInSight => told = Truth
      BY <3>1, PlainTopics DEF OrderInSight
    <3>5. PositionInSight => position = direction * filled
      BY <3>1, PlainTopics DEF PositionInSight
    <3>6. BalanceInSight => IsBalanced(balance.available, balance.held)
      BY <3>1, PlainTopics DEF BalanceInSight
    <3>7. QED
      BY <3>2, <3>3, <3>4, <3>5, <3>6 DEF Truth
  <2>3. ConsumerCatchesUp
    BY <2>1, <2>2 DEF ConsumerCatchesUp, IsBalanced, BalanceIsRecord
  <2>4. QED
    BY <2>1, <2>3 DEF AccountIsTold
<1>2. QED
  BY <1>1, AccountStart, AccountStep, PTL DEF AccountSpec
=================================================================================
