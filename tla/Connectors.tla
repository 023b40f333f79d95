------------------------------ MODULE Connectors ------------------------------
(* parse_message of the connectors: what each venue's frames become.             *)
(*                                                                               *)
(* A frame is [topic, type, data]: the key parse_message routes on (topic,       *)
(* channel or "e"), the frame's snapshot/update mark where the venue has one,    *)
(* and one element of its payload under the venue's field names.  An absent      *)
(* field is None.  Symbols, timestamps, prices of orders and fees are left out.  *)
EXTENDS Integers, Sequences

CONSTANT None

(* A numeric field that is absent reads as 0.0. *)
Amount(x) == IF x = None THEN 0 ELSE x

Or(x, y) == IF x = None THEN y ELSE x

Larger(a, b) == IF a > b THEN a ELSE b

(* The mark of a frame; a venue that leaves it out means `default`. *)
IsSnapshot(f, default) == Or(f.type, default) = "snapshot"

-------------------------------------------------------------------------------
(* Books *)

OrderBook(is_snapshot, first, last, rows) ==
  [is |-> "OrderBook", is_snapshot |-> is_snapshot, first |-> first, last |-> last,
   levels |-> rows]

BinanceDepthUpdate(d) == OrderBook(FALSE, d.U, d.u, d.rows)

BinanceDepthSnapshot(d) == OrderBook(TRUE, d.lastUpdateId, d.lastUpdateId, d.rows)

BybitOrderbook(d, is_snapshot) == OrderBook(is_snapshot, d.u, d.u, d.rows)

\* Mutant of OkxBook: prevSeqId is taken for the first update covered.
OkxBookFromPrev(d, is_snapshot) == OrderBook(is_snapshot, d.prevSeqId, d.seqId, d.rows)

(* prevSeqId is -1 on a snapshot. *)
OkxBook(d, is_snapshot) ==
  OrderBook(is_snapshot,
            IF d.prevSeqId # None /\ d.prevSeqId + 1 >= 0 THEN d.prevSeqId + 1 ELSE d.seqId,
            d.seqId, d.rows)

\* Mutant of CryptocomBooks: the first update covered is left out.
CryptocomBooksLastOnly(d, is_snapshot) == OrderBook(is_snapshot, d.u, d.u, d.rows)

(* pu and u come with the delta subscription only. *)
CryptocomBooks(d, is_snapshot) ==
  OrderBook(is_snapshot, IF d.pu # None THEN d.pu + 1 ELSE d.u, d.u, d.rows)

KrakenBooks(d, is_snapshot) == OrderBook(is_snapshot, None, None, d.rows)

CoinbaseL2(d, is_snapshot) == OrderBook(is_snapshot, None, None, d.rows)

KucoinDepth(d) == OrderBook(TRUE, None, None, d.rows)

(* One change of one level, "price,side,qty". *)
KucoinLevel2(d) ==
  OrderBook(FALSE, d.sequence, d.sequence, [k \in {<<d.side, d.price>>} |-> d.qty])

-------------------------------------------------------------------------------
(* Trades, quotes and candles *)

Trade(side, id) == [is |-> "Trade", side |-> side, trade_id |-> id]

Ticker(price, bid, ask) == [is |-> "Ticker", price |-> price, best_bid |-> bid, best_ask |-> ask]

Candle(close, is_closed) == [is |-> "Candle", close |-> close, is_closed |-> is_closed]

FundingRate(rate, mark) == [is |-> "FundingRate", funding_rate |-> rate, mark_price |-> mark]

(* m: the buyer was the maker, so the seller was the aggressor. *)
BinanceAggTrade(d) == Trade(IF d.m THEN "sell" ELSE "buy", d.a)

SideOf(side) == IF side = "sell" THEN "sell" ELSE "buy"

BybitTrade(d)     == Trade(SideOf(d.S), d.i)
OkxTrade(d)       == Trade(SideOf(d.side), d.tradeId)
CoinbaseTrade(d)  == Trade(SideOf(d.side), d.trade_id)
KrakenTrade(d)    == Trade(SideOf(d.side), d.trade_id)
CryptocomTrade(d) == Trade(SideOf(d.s), d.d)
KucoinTrade(d)    == Trade(SideOf(d.side), Or(d.tradeId, d.makerOrderId))

(* bookTicker carries no last price. *)
BinanceBookTicker(d) == Ticker(0, d.b, d.a)

(* Deltas carry the fields that changed only. *)
BybitTicker(d) == Ticker(Amount(d.lastPrice), Amount(d.bid1Price), Amount(d.ask1Price))

OkxTicker(d)      == Ticker(d.last, d.bidPx, d.askPx)
CoinbaseTicker(d) == Ticker(d.price, d.best_bid, d.best_ask)
KrakenTicker(d)   == Ticker(Amount(d.last), Amount(d.bid), Amount(d.ask))

\* Mutant of CryptocomTicker: "a" read as the ask.
CryptocomTickerByLetter(d) == Ticker(d.k, d.b, d.a)

(* "a" is the last price, "k" the ask. *)
CryptocomTicker(d) == Ticker(d.a, d.b, d.k)

(* Futures tickers have no price: the middle of the quote stands in. *)
KucoinTicker(d) ==
  Ticker(IF Amount(d.price) > 0 THEN d.price
         ELSE IF d.bestBid > 0 /\ d.bestAsk > 0 THEN (d.bestBid + d.bestAsk) \div 2 ELSE 0,
         d.bestBid, d.bestAsk)

BinanceKline(d) == Candle(d.c, d.x)
BybitKline(d)   == Candle(d.close, d.confirm)

(* Neither venue marks the last update of a bar. *)
KrakenKline(d)     == Candle(d.close, FALSE)
CryptocomCandle(d) == Candle(d.c, FALSE)

BinanceMarkPrice(d) == FundingRate(d.r, d.p)

(* Zero and absent are the same. *)
NonZero(x) == IF Amount(x) = 0 THEN None ELSE x
KucoinInstrument(d) == [is |-> "InstrumentEvent", funding_rate |-> NonZero(d.fundingRate),
                        mark_price |-> NonZero(d.markPrice)]

-------------------------------------------------------------------------------
(* Orders and fills *)

OrderUpdate(status, size, filled, remaining, match, id) ==
  [is |-> "OrderUpdate", status |-> status, size |-> size, filled_size |-> filled,
   remaining_size |-> remaining, match_size |-> match, trade_id |-> id]

Remaining(size, filled) == Larger(size - filled, 0)

BinanceStatus(X) ==
  CASE X = "PARTIALLY_FILLED" -> "partialFilled"
    [] X = "FILLED" -> "filled"
    [] X \in {"CANCELED", "REJECTED", "EXPIRED", "PENDING_CANCEL"} -> "canceled"
    [] OTHER -> "open"

(* The trade id t is -1 on a report that is no trade. *)
BinanceExecutionReport(d) ==
  OrderUpdate(BinanceStatus(d.X), d.q, d.z, Remaining(d.q, d.z),
              IF d.x = "TRADE" THEN d.l ELSE None, IF d.t >= 0 THEN d.t ELSE None)

KrakenStatus(s) ==
  CASE s = "partially_filled" -> "partialFilled"
    [] s = "filled" -> "filled"
    [] s \in {"canceled", "expired"} -> "canceled"
    [] OTHER -> "open"

\* Mutant of KrakenExecution: the order's id stands for the execution's.
KrakenExecutionByOrder(d) ==
  OrderUpdate(KrakenStatus(d.order_status), d.order_qty, d.cum_qty,
              Remaining(d.order_qty, d.cum_qty),
              IF d.exec_type = "trade" THEN d.last_qty ELSE None,
              IF d.exec_type = "trade" THEN d.order_id ELSE None)

KrakenExecution(d) ==
  OrderUpdate(KrakenStatus(d.order_status), d.order_qty, d.cum_qty,
              Remaining(d.order_qty, d.cum_qty),
              IF d.exec_type = "trade" THEN d.last_qty ELSE None,
              IF d.exec_type = "trade" THEN d.exec_id ELSE None)

BybitStatus(s) ==
  CASE s = "PartiallyFilled" -> "partialFilled"
    [] s = "Filled" -> "filled"
    [] s \in {"Cancelled", "PartiallyFilledCanceled", "Deactivated", "Rejected"} -> "canceled"
    [] OTHER -> "open"

BybitOrder(d) == OrderUpdate(BybitStatus(d.orderStatus), d.qty, d.cumExecQty, d.leavesQty, None, None)

\* Mutant of BybitExecution: the fill is reported like a state change.
BybitExecutionAsState(d) == OrderUpdate("partialFilled", d.orderQty, d.execQty, 0, None, None)

(* A fill; its status and filled size are not the order's. *)
BybitExecution(d) == OrderUpdate("partialFilled", d.orderQty, d.execQty, 0, d.execQty, d.execId)

(* No status of its own for a partial fill. *)
CryptocomStatus(s, filled) ==
  CASE s = "FILLED" -> "filled"
    [] s \in {"CANCELED", "REJECTED", "EXPIRED"} -> "canceled"
    [] OTHER -> IF filled > 0 THEN "partialFilled" ELSE "open"

CryptocomOrder(d) ==
  OrderUpdate(CryptocomStatus(d.status, d.cumulative_quantity), d.quantity,
              d.cumulative_quantity, Remaining(d.quantity, d.cumulative_quantity), None, None)

CryptocomUserTrade(d) ==
  OrderUpdate("partialFilled", d.traded_quantity, d.traded_quantity, 0,
              d.traded_quantity, d.trade_id)

(* KuCoin's own status goes through. *)
KucoinOrder(d) ==
  OrderUpdate(d.status, d.size, d.filledSize, d.remainSize, d.matchSize, d.tradeId)

(* A stop order; no fills. *)
KucoinAdvancedOrder(d) == [is |-> "AdvancedOrderUpdate", status |-> d.status, size |-> d.size]

-------------------------------------------------------------------------------
(* Positions and balances *)

PositionChange(qty) == [is |-> "PositionChange", current_qty |-> qty]

BalanceUpdate(available, hold) ==
  [is |-> "BalanceUpdate", available_balance |-> available, hold_balance |-> hold]

(* size is unsigned, side gives the direction. *)
BybitPosition(d) ==
  PositionChange(CASE d.side = "Sell" -> -d.size [] d.side = "Buy" -> d.size [] OTHER -> 0)

KucoinPosition(d) == PositionChange(d.currentQty)

BinanceAccountPosition(d) == BalanceUpdate(d.f, d.l)
BybitWallet(d)            == BalanceUpdate(d.availableToWithdraw, d.locked)
CryptocomUserBalance(d)   == BalanceUpdate(Or(d.max_withdrawal_balance, d.quantity), d.reserved_qty)
KucoinBalance(d)          == BalanceUpdate(d.availableBalance, d.holdBalance)

(* The channel has the total only. *)
KrakenBalances(d) == BalanceUpdate(d.balance, 0)

-------------------------------------------------------------------------------
(* parse_message: the message made of one payload element; a frame of any other  *)
(* topic (acks, pongs, heartbeats, unknown channels) makes none.                 *)

ParseBinance(f) ==
  CASE f.topic = "aggTrade"        -> BinanceAggTrade(f.data)
    [] f.topic = "kline"           -> BinanceKline(f.data)
    [] f.topic = "markPriceUpdate" -> BinanceMarkPrice(f.data)
    [] f.topic = "depthUpdate"     -> BinanceDepthUpdate(f.data)
    [] f.topic = "bookTicker"      -> BinanceBookTicker(f.data)
    [] f.topic = "depth20"         -> BinanceDepthSnapshot(f.data)
    [] OTHER -> None

ParseBinanceUser(f) ==
  CASE f.topic = "executionReport"         -> BinanceExecutionReport(f.data)
    [] f.topic = "outboundAccountPosition" -> BinanceAccountPosition(f.data)
    [] OTHER -> None

ParseBybit(f) ==
  CASE f.topic = "publicTrade" -> BybitTrade(f.data)
    [] f.topic = "tickers"     -> BybitTicker(f.data)
    [] f.topic = "kline"       -> BybitKline(f.data)
    [] f.topic = "orderbook"   -> BybitOrderbook(f.data, IsSnapshot(f, "snapshot"))
    [] OTHER -> None

ParseBybitPrivate(f) ==
  CASE f.topic = "order"     -> BybitOrder(f.data)
    [] f.topic = "execution" -> BybitExecution(f.data)
    [] f.topic = "position"  -> BybitPosition(f.data)
    [] f.topic = "wallet"    -> BybitWallet(f.data)
    [] OTHER -> None

ParseOkx(f) ==
  CASE f.topic = "trades"  -> OkxTrade(f.data)
    [] f.topic = "tickers" -> OkxTicker(f.data)
    [] f.topic = "books"   -> OkxBook(f.data, IsSnapshot(f, "snapshot"))
    [] OTHER -> None

ParseCoinbase(f) ==
  CASE f.topic = "market_trades" -> CoinbaseTrade(f.data)
    [] f.topic = "ticker"        -> CoinbaseTicker(f.data)
    [] f.topic = "l2_data"       -> CoinbaseL2(f.data, IsSnapshot(f, "update"))
    [] OTHER -> None

ParseKraken(f) ==
  CASE f.topic = "trade"      -> KrakenTrade(f.data)
    [] f.topic = "ticker"     -> KrakenTicker(f.data)
    [] f.topic = "ohlc"       -> KrakenKline(f.data)
    [] f.topic = "book"       -> KrakenBooks(f.data, IsSnapshot(f, "update"))
    [] f.topic = "executions" -> KrakenExecution(f.data)
    [] f.topic = "balances"   -> KrakenBalances(f.data)
    [] OTHER -> None

ParseCryptocom(f) ==
  CASE f.topic = "trade"        -> CryptocomTrade(f.data)
    [] f.topic = "ticker"       -> CryptocomTicker(f.data)
    [] f.topic = "candlestick"  -> CryptocomCandle(f.data)
    [] f.topic = "book"         -> CryptocomBooks(f.data, IsSnapshot(f, "update"))
    [] OTHER -> None

ParseCryptocomUser(f) ==
  CASE f.topic = "user.order"   -> CryptocomOrder(f.data)
    [] f.topic = "user.trade"   -> CryptocomUserTrade(f.data)
    [] f.topic = "user.balance" -> CryptocomUserBalance(f.data)
    [] OTHER -> None

ParseKucoin(f) ==
  CASE f.topic = "execution"   -> KucoinTrade(f.data)
    [] f.topic = "tickerV2"    -> KucoinTicker(f.data)
    [] f.topic = "level2Depth" -> KucoinDepth(f.data)
    [] f.topic = "level2"      -> KucoinLevel2(f.data)
    [] f.topic = "tradeOrders" -> KucoinOrder(f.data)
    [] f.topic = "position"    -> KucoinPosition(f.data)
    [] f.topic = "wallet"      -> KucoinBalance(f.data)
    [] f.topic = "instrument"  -> KucoinInstrument(f.data)
    [] f.topic = "advancedOrders" -> KucoinAdvancedOrder(f.data)
    [] OTHER -> None

Parse(exchange, f) ==
  CASE exchange = "binance"   -> ParseBinance(f)
    [] exchange = "bybit"     -> ParseBybit(f)
    [] exchange = "okx"       -> ParseOkx(f)
    [] exchange = "coinbase"  -> ParseCoinbase(f)
    [] exchange = "kraken"    -> ParseKraken(f)
    [] exchange = "cryptocom" -> ParseCryptocom(f)
    [] exchange = "kucoin"    -> ParseKucoin(f)

(* Three venues have a connector of its own for the private channels. *)
ParsePrivate(exchange, f) ==
  CASE exchange = "binance"   -> ParseBinanceUser(f)
    [] exchange = "bybit"     -> ParseBybitPrivate(f)
    [] exchange = "kraken"    -> ParseKraken(f)
    [] exchange = "cryptocom" -> ParseCryptocomUser(f)
    [] exchange = "kucoin"    -> ParseKucoin(f)
=============================================================================
