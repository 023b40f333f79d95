---------------------------- MODULE TapeFeed_proofs ----------------------------
(* Proofs about TapeFeed, for every venue and every sequence of trades, quotes and *)
(* candles: what the consumer records is what the venue did, however often the     *)
(* feed reconnects and however much the partial tickers leave out.                 *)
EXTENDS TapeFeed, SequenceTheorems, TLAPS

-------------------------------------------------------------------------------
(* What a frame says.                                                              *)

Means(f) == Parse(tape, f)

\* A trade is told under its own ID and the side that took.
LEMMA TradeSays ==
  ASSUME tape \in AllTapes, NEW id \in Nat, NEW side \in {"buy", "sell"},
         NEW f, f = OnTape(TradeFrame(id, side))
  PROVE  /\ Means(f).is = "Trade" /\ Means(f).trade_id = id /\ Means(f).side = side
         /\ f.quote = quote
<1> DEFINE d == TradeFrame(id, side)
<1>1. CASE tape = "binance"
  <2>1. d = [topic |-> "aggTrade", data |-> [a |-> id, m |-> side = "sell"]]
    BY <1>1 DEF d, TradeFrame
  <2>2. d.topic = "aggTrade" /\ d.data = [a |-> id, m |-> side = "sell"]
    BY <2>1
  <2>3. f.topic = "aggTrade" /\ f.data = [a |-> id, m |-> side = "sell"] /\ f.quote = quote
    BY <2>2 DEF OnTape
  <2>4. Means(f) = BinanceAggTrade([a |-> id, m |-> side = "sell"])
    BY <1>1, <2>3 DEF Means, Parse, ParseBinance
  <2>5. Means(f) = Trade(side, id)
    BY <2>4 DEF BinanceAggTrade
  <2>6. QED
    BY <2>3, <2>5 DEF Trade
<1>2. CASE tape = "bybit"
  <2>1. d = [topic |-> "publicTrade", data |-> [i |-> id, S |-> side]]
    BY <1>2 DEF d, TradeFrame
  <2>2. d.topic = "publicTrade" /\ d.data = [i |-> id, S |-> side]
    BY <2>1
  <2>3. f.topic = "publicTrade" /\ f.data = [i |-> id, S |-> side] /\ f.quote = quote
    BY <2>2 DEF OnTape
  <2>4. Means(f) = BybitTrade([i |-> id, S |-> side])
    BY <1>2, <2>3 DEF Means, Parse, ParseBybit
  <2>5. Means(f) = Trade(side, id)
    BY <2>4 DEF BybitTrade, SideOf
  <2>6. QED
    BY <2>3, <2>5 DEF Trade
<1>3. CASE tape = "okx"
  <2>1. d = [topic |-> "trades", data |-> [tradeId |-> id, side |-> side]]
    BY <1>3 DEF d, TradeFrame
  <2>2. d.topic = "trades" /\ d.data = [tradeId |-> id, side |-> side]
    BY <2>1
  <2>3. f.topic = "trades" /\ f.data = [tradeId |-> id, side |-> side] /\ f.quote = quote
    BY <2>2 DEF OnTape
  <2>4. Means(f) = OkxTrade([tradeId |-> id, side |-> side])
    BY <1>3, <2>3 DEF Means, Parse, ParseOkx
  <2>5. Means(f) = Trade(side, id)
    BY <2>4 DEF OkxTrade, SideOf
  <2>6. QED
    BY <2>3, <2>5 DEF Trade
<1>4. CASE tape = "coinbase"
  <2>1. d = [topic |-> "market_trades", data |-> [trade_id |-> id, side |-> side]]
    BY <1>4 DEF d, TradeFrame
  <2>2. d.topic = "market_trades" /\ d.data = [trade_id |-> id, side |-> side]
    BY <2>1
  <2>3. f.topic = "market_trades" /\ f.data = [trade_id |-> id, side |-> side] /\ f.quote = quote
    BY <2>2 DEF OnTape
  <2>4. Means(f) = CoinbaseTrade([trade_id |-> id, side |-> side])
    BY <1>4, <2>3 DEF Means, Parse, ParseCoinbase
  <2>5. Means(f) = Trade(side, id)
    BY <2>4 DEF CoinbaseTrade, SideOf
  <2>6. QED
    BY <2>3, <2>5 DEF Trade
<1>5. CASE tape = "kraken"
  <2>1. d = [topic |-> "trade", data |-> [trade_id |-> id, side |-> side]]
    BY <1>5 DEF d, TradeFrame
  <2>2. d.topic = "trade" /\ d.data = [trade_id |-> id, side |-> side]
    BY <2>1
  <2>3. f.topic = "trade" /\ f.data = [trade_id |-> id, side |-> side] /\ f.quote = quote
    BY <2>2 DEF OnTape
  <2>4. Means(f) = KrakenTrade([trade_id |-> id, side |-> side])
    BY <1>5, <2>3 DEF Means, Parse, ParseKraken
  <2>5. Means(f) = Trade(side, id)
    BY <2>4 DEF KrakenTrade, SideOf
  <2>6. QED
    BY <2>3, <2>5 DEF Trade
<1>6. CASE tape = "cryptocom"
  <2>1. d = [topic |-> "trade", data |-> [d |-> id, s |-> side]]
    BY <1>6 DEF d, TradeFrame
  <2>2. d.topic = "trade" /\ d.data = [d |-> id, s |-> side]
    BY <2>1
  <2>3. f.topic = "trade" /\ f.data = [d |-> id, s |-> side] /\ f.quote = quote
    BY <2>2 DEF OnTape
  <2>4. Means(f) = CryptocomTrade([d |-> id, s |-> side])
    BY <1>6, <2>3 DEF Means, Parse, ParseCryptocom
  <2>5. Means(f) = Trade(side, id)
    BY <2>4 DEF CryptocomTrade, SideOf
  <2>6. QED
    BY <2>3, <2>5 DEF Trade
<1>7. CASE tape = "kucoin"
  <2>1. d = [topic |-> "execution", data |-> [tradeId |-> id, makerOrderId |-> 0, side |-> side]]
    BY <1>7 DEF d, TradeFrame
  <2>2. d.topic = "execution" /\ d.data = [tradeId |-> id, makerOrderId |-> 0, side |-> side]
    BY <2>1
  <2>3. f.topic = "execution" /\ f.data = [tradeId |-> id, makerOrderId |-> 0, side |-> side] /\ f.quote = quote
    BY <2>2 DEF OnTape
  <2>4. Means(f) = KucoinTrade([tradeId |-> id, makerOrderId |-> 0, side |-> side])
    BY <1>7, <2>3 DEF Means, Parse, ParseKucoin
  <2>5. Means(f) = Trade(side, id)
    BY <2>4, NoFieldAssumption DEF KucoinTrade, SideOf, Or
  <2>6. QED
    BY <2>3, <2>5 DEF Trade
<1>8. QED
  BY <1>1, <1>2, <1>3, <1>4, <1>5, <1>6, <1>7 DEF AllTapes

\* A field of a partial ticker is the venue's, or it is left out and did not change.
LEMMA ChangedSays ==
  ASSUME quote \in Quotes, pushed \in Quotes \cup {None}, NEW field \in {"last", "bid", "ask"}
  PROVE  \/ Amount(Changed(field)) = quote[field]
         \/ Amount(Changed(field)) = 0 /\ pushed \in Quotes /\ pushed[field] = quote[field]
<1>1. quote[field] # None
  BY QuotesAssumption, NoFieldAssumption
<1>2. QED
  BY <1>1 DEF Changed, Amount

\* A ticker shows the venue's quote.
LEMMA TickerSays ==
  ASSUME tape \in AllTapes, quote \in Quotes, NEW f, f = OnTape(TickerFrame)
  PROVE  /\ Means(f).is = "Ticker" /\ f.quote = quote
         /\ tape = "bybit" => /\ Means(f).price = Amount(Changed("last"))
                              /\ Means(f).best_bid = Amount(Changed("bid"))
                              /\ Means(f).best_ask = Amount(Changed("ask"))
         /\ tape # "bybit" =>
              /\ Means(f).best_bid = quote.bid /\ Means(f).best_ask = quote.ask
              /\ tape \notin {"binance", "kucoin"} => Means(f).price = quote.last
              /\ tape = "kucoin" =>
                   quote.bid <= Means(f).price /\ Means(f).price <= quote.ask
              /\ Means(f).price \in Nat
<1> DEFINE d == TickerFrame
<1>0. /\ quote.last \in Nat \ {0} /\ quote.bid \in Nat \ {0} /\ quote.ask \in Nat
      /\ quote.bid <= quote.ask
      /\ quote.last # None /\ quote.bid # None /\ quote.ask # None
  BY QuotesAssumption, NoFieldAssumption
<1>1. CASE tape = "binance"
  <2> DEFINE e == [b |-> quote.bid, a |-> quote.ask]
  <2>1. d = [topic |-> "bookTicker", data |-> e]
    BY <1>1 DEF TickerFrame
  <2> HIDE DEF d, e
  <2>2. d.topic = "bookTicker" /\ d.data = e
    BY <2>1
  <2>3. f.topic = "bookTicker" /\ f.data = e /\ f.quote = quote
    BY <2>2 DEF OnTape, d
  <2>4. Means(f) = BinanceBookTicker(e)
    BY <1>1, <2>3 DEF Means, Parse, ParseBinance
  <2>5. Means(f) = Ticker(0, quote.bid, quote.ask)
    BY <1>0, <2>4 DEF BinanceBookTicker, e
  <2>6. QED
    BY <1>0, <1>1, <2>3, <2>5 DEF Ticker
<1>2. CASE tape = "bybit"
  <2> DEFINE e == [lastPrice |-> Changed("last"), bid1Price |-> Changed("bid"),
               ask1Price |-> Changed("ask")]
  <2>1. d = [topic |-> "tickers", data |-> e]
    BY <1>2 DEF TickerFrame
  <2> HIDE DEF d, e
  <2>2. d.topic = "tickers" /\ d.data = e
    BY <2>1
  <2>3. f.topic = "tickers" /\ f.data = e /\ f.quote = quote
    BY <2>2 DEF OnTape, d
  <2>4. Means(f) = BybitTicker(e)
    BY <1>2, <2>3 DEF Means, Parse, ParseBybit
  <2>5. Means(f) = Ticker(Amount(Changed("last")), Amount(Changed("bid")), Amount(Changed("ask")))
    BY <1>0, <2>4 DEF BybitTicker, e
  <2>6. QED
    BY <1>0, <1>2, <2>3, <2>5 DEF Ticker
<1>3. CASE tape = "okx"
  <2> DEFINE e == [last |-> quote.last, bidPx |-> quote.bid, askPx |-> quote.ask]
  <2>1. d = [topic |-> "tickers", data |-> e]
    BY <1>3 DEF TickerFrame
  <2> HIDE DEF d, e
  <2>2. d.topic = "tickers" /\ d.data = e
    BY <2>1
  <2>3. f.topic = "tickers" /\ f.data = e /\ f.quote = quote
    BY <2>2 DEF OnTape, d
  <2>4. Means(f) = OkxTicker(e)
    BY <1>3, <2>3 DEF Means, Parse, ParseOkx
  <2>5. Means(f) = Ticker(quote.last, quote.bid, quote.ask)
    BY <1>0, <2>4 DEF OkxTicker, e
  <2>6. QED
    BY <1>0, <1>3, <2>3, <2>5 DEF Ticker
<1>4. CASE tape = "coinbase"
  <2> DEFINE e == [price |-> quote.last, best_bid |-> quote.bid, best_ask |-> quote.ask]
  <2>1. d = [topic |-> "ticker", data |-> e]
    BY <1>4 DEF TickerFrame
  <2> HIDE DEF d, e
  <2>2. d.topic = "ticker" /\ d.data = e
    BY <2>1
  <2>3. f.topic = "ticker" /\ f.data = e /\ f.quote = quote
    BY <2>2 DEF OnTape, d
  <2>4. Means(f) = CoinbaseTicker(e)
    BY <1>4, <2>3 DEF Means, Parse, ParseCoinbase
  <2>5. Means(f) = Ticker(quote.last, quote.bid, quote.ask)
    BY <1>0, <2>4 DEF CoinbaseTicker, e
  <2>6. QED
    BY <1>0, <1>4, <2>3, <2>5 DEF Ticker
<1>5. CASE tape = "kraken"
  <2> DEFINE e == [last |-> quote.last, bid |-> quote.bid, ask |-> quote.ask]
  <2>1. d = [topic |-> "ticker", data |-> e]
    BY <1>5 DEF TickerFrame
  <2> HIDE DEF d, e
  <2>2. d.topic = "ticker" /\ d.data = e
    BY <2>1
  <2>3. f.topic = "ticker" /\ f.data = e /\ f.quote = quote
    BY <2>2 DEF OnTape, d
  <2>4. Means(f) = KrakenTicker(e)
    BY <1>5, <2>3 DEF Means, Parse, ParseKraken
  <2>5. Means(f) = Ticker(quote.last, quote.bid, quote.ask)
    BY <1>0, <2>4 DEF KrakenTicker, Amount, e
  <2>6. QED
    BY <1>0, <1>5, <2>3, <2>5 DEF Ticker
<1>6. CASE tape = "cryptocom"
  <2> DEFINE e == [a |-> quote.last, b |-> quote.bid, k |-> quote.ask]
  <2>1. d = [topic |-> "ticker", data |-> e]
    BY <1>6 DEF TickerFrame
  <2> HIDE DEF d, e
  <2>2. d.topic = "ticker" /\ d.data = e
    BY <2>1
  <2>3. f.topic = "ticker" /\ f.data = e /\ f.quote = quote
    BY <2>2 DEF OnTape, d
  <2>4. Means(f) = CryptocomTicker(e)
    BY <1>6, <2>3 DEF Means, Parse, ParseCryptocom
  <2>5. Means(f) = Ticker(quote.last, quote.bid, quote.ask)
    BY <1>0, <2>4 DEF CryptocomTicker, e
  <2>6. QED
    BY <1>0, <1>6, <2>3, <2>5 DEF Ticker
<1>7. CASE tape = "kucoin"
  <2> DEFINE e == [price |-> None, bestBid |-> quote.bid, bestAsk |-> quote.ask]
  <2>1. d = [topic |-> "tickerV2", data |-> e]
    BY <1>7 DEF TickerFrame
  <2> HIDE DEF d, e
  <2>2. d.topic = "tickerV2" /\ d.data = e
    BY <2>1
  <2>3. f.topic = "tickerV2" /\ f.data = e /\ f.quote = quote
    BY <2>2 DEF OnTape, d
  <2>4. Means(f) = KucoinTicker(e)
    BY <1>7, <2>3 DEF Means, Parse, ParseKucoin
  <2>5. Means(f) = Ticker((quote.bid + quote.ask) \div 2, quote.bid, quote.ask)
    BY <1>0, <2>4 DEF KucoinTicker, Amount, e
  <2>m. LET m == (quote.bid + quote.ask) \div 2
        IN  m \in Nat /\ quote.bid <= m /\ m <= quote.ask
    BY <1>0
  <2>6. QED
    BY <1>0, <1>7, <2>3, <2>5, <2>m DEF Ticker
<1>8. QED
  BY <1>1, <1>2, <1>3, <1>4, <1>5, <1>6, <1>7 DEF AllTapes

\* Funding: the venue's rate, KuCoin's rate of zero told as none.
LEMMA FundingSays ==
  ASSUME tape \in {"binance", "kucoin"}, quote \in Quotes, NEW f, f = OnTape(FundingFrame)
  PROVE  /\ Means(f).is \in {"FundingRate", "InstrumentEvent"} /\ f.quote = quote
         /\ \/ Means(f).funding_rate = quote.rate
            \/ Means(f).funding_rate = None /\ quote.rate = 0
<1> DEFINE d == FundingFrame
<1>0. quote.rate \in Int /\ quote.rate # None
  BY QuotesAssumption, NoFieldAssumption
<1>1. CASE tape = "binance"
  <2> DEFINE e == [r |-> quote.rate, p |-> quote.last]
  <2>1. d = [topic |-> "markPriceUpdate", data |-> e]
    BY <1>1 DEF FundingFrame
  <2> HIDE DEF d, e
  <2>2. d.topic = "markPriceUpdate" /\ d.data = e
    BY <2>1
  <2>3. f.topic = "markPriceUpdate" /\ f.data = e /\ f.quote = quote
    BY <2>2 DEF OnTape, d
  <2>4. Means(f) = BinanceMarkPrice(e)
    BY <1>1, <2>3 DEF Means, Parse, ParseBinance
  <2>5. QED
    BY <1>0, <2>3, <2>4 DEF BinanceMarkPrice, FundingRate, e
<1>2. CASE tape = "kucoin"
  <2> DEFINE e == [fundingRate |-> quote.rate, markPrice |-> quote.last]
  <2>1. d = [topic |-> "instrument", data |-> e]
    BY <1>2 DEF FundingFrame
  <2> HIDE DEF d, e
  <2>2. d.topic = "instrument" /\ d.data = e
    BY <2>1
  <2>3. f.topic = "instrument" /\ f.data = e /\ f.quote = quote
    BY <2>2 DEF OnTape, d
  <2>4. Means(f) = KucoinInstrument(e)
    BY <1>2, <2>3 DEF Means, Parse, ParseKucoin
  <2>5. QED
    BY <1>0, <2>3, <2>4 DEF KucoinInstrument, NonZero, Amount, e
<1>3. QED
  BY <1>1, <1>2

\* A candle is flagged closed only when its bar is over.
LEMMA KlineSays ==
  ASSUME tape \in Candlestick, NEW close, NEW over \in BOOLEAN,
         NEW f, f = OnTape(KlineFrame(close, over))
  PROVE  /\ Means(f).is = "Candle" /\ Means(f).close = close
         /\ Means(f).is_closed => over
         /\ f.quote = quote /\ f.bar = Len(bars)
<1> DEFINE d == KlineFrame(close, over)
<1>1. CASE tape = "binance"
  <2> DEFINE e == [c |-> close, x |-> over]
  <2>1. d = [topic |-> "kline", data |-> e]
    BY <1>1 DEF KlineFrame
  <2>0. f = OnTape(d)
    OBVIOUS
  <2> HIDE DEF d, e
  <2>2. d.topic = "kline" /\ d.data = e
    BY <2>1
  <2>3. f.topic = "kline" /\ f.data = e /\ f.quote = quote /\ f.bar = Len(bars)
    BY <2>0, <2>2 DEF OnTape
  <2>4. Means(f) = BinanceKline(e)
    BY <1>1, <2>3 DEF Means, Parse, ParseBinance
  <2>5. Means(f) = Candle(close, over)
    BY <2>4 DEF BinanceKline, e
  <2>6. QED
    BY <2>3, <2>5 DEF Candle
<1>2. CASE tape = "bybit"
  <2> DEFINE e == [close |-> close, confirm |-> over]
  <2>1. d = [topic |-> "kline", data |-> e]
    BY <1>2 DEF KlineFrame
  <2>0. f = OnTape(d)
    OBVIOUS
  <2> HIDE DEF d, e
  <2>2. d.topic = "kline" /\ d.data = e
    BY <2>1
  <2>3. f.topic = "kline" /\ f.data = e /\ f.quote = quote /\ f.bar = Len(bars)
    BY <2>0, <2>2 DEF OnTape
  <2>4. Means(f) = BybitKline(e)
    BY <1>2, <2>3 DEF Means, Parse, ParseBybit
  <2>5. Means(f) = Candle(close, over)
    BY <2>4 DEF BybitKline, e
  <2>6. QED
    BY <2>3, <2>5 DEF Candle
<1>3. CASE tape = "kraken"
  <2> DEFINE e == [close |-> close]
  <2>1. d = [topic |-> "ohlc", data |-> e]
    BY <1>3 DEF KlineFrame
  <2>0. f = OnTape(d)
    OBVIOUS
  <2> HIDE DEF d, e
  <2>2. d.topic = "ohlc" /\ d.data = e
    BY <2>1
  <2>3. f.topic = "ohlc" /\ f.data = e /\ f.quote = quote /\ f.bar = Len(bars)
    BY <2>0, <2>2 DEF OnTape
  <2>4. Means(f) = KrakenKline(e)
    BY <1>3, <2>3 DEF Means, Parse, ParseKraken
  <2>5. Means(f) = Candle(close, FALSE)
    BY <2>4 DEF KrakenKline, e
  <2>6. QED
    BY <2>3, <2>5 DEF Candle
<1>4. CASE tape = "cryptocom"
  <2> DEFINE e == [c |-> close]
  <2>1. d = [topic |-> "candlestick", data |-> e]
    BY <1>4 DEF KlineFrame
  <2>0. f = OnTape(d)
    OBVIOUS
  <2> HIDE DEF d, e
  <2>2. d.topic = "candlestick" /\ d.data = e
    BY <2>1
  <2>3. f.topic = "candlestick" /\ f.data = e /\ f.quote = quote /\ f.bar = Len(bars)
    BY <2>0, <2>2 DEF OnTape
  <2>4. Means(f) = CryptocomCandle(e)
    BY <1>4, <2>3 DEF Means, Parse, ParseCryptocom
  <2>5. Means(f) = Candle(close, FALSE)
    BY <2>4 DEF CryptocomCandle, e
  <2>6. QED
    BY <2>3, <2>5 DEF Candle
<1>5. QED
  BY <1>1, <1>2, <1>3, <1>4 DEF Candlestick

-------------------------------------------------------------------------------
(* The inductive invariant.                                                        *)

IsTicker(f) == Means(f).is = "Ticker"

(* `q` is the quote of the last ticker before place i of a wire w or, where there   *)
(* is none on it, the quote `a` of the last ticker read.                            *)
Before(w, a, i, q) ==
  \/ \E j \in 1 .. i - 1 : /\ IsTicker(w[j]) /\ w[j].quote = q
                           /\ \A k \in j + 1 .. i - 1 : ~ IsTicker(w[k])
  \/ (\A j \in 1 .. i - 1 : ~ IsTicker(w[j])) /\ a = q

(* What a field of the ticker at place i says, or leaves out as unchanged.          *)
News(w, a, i, news, field) ==
  \/ news = w[i].quote[field]
  \/ news = 0 /\ \E q \in Quotes : Before(w, a, i, q) /\ q[field] = w[i].quote[field]

TickerFollows(w, a, i) ==
  IsTicker(w[i]) =>
    /\ News(w, a, i, Means(w[i]).best_bid, "bid")
    /\ News(w, a, i, Means(w[i]).best_ask, "ask")
    /\ tape \notin {"binance", "kucoin"} => News(w, a, i, Means(w[i]).price, "last")

TickersFollow(w, a) == \A i \in 1 .. Len(w) : TickerFollows(w, a, i)

IsTrade(f) ==
  /\ Means(f).is = "Trade"
  /\ Means(f).trade_id \in 1 .. Len(aggressor)
  /\ aggressor[Means(f).trade_id] = Means(f).side

IsQuote(f) ==
  /\ IsTicker(f)
  /\ tape = "kucoin" => f.quote.bid <= Means(f).price /\ Means(f).price <= f.quote.ask
  /\ Means(f).price \in Nat

IsOver(bar, close) == bar \in 1 .. Len(bars) - 1 /\ bars[bar] = close

IsCandle(f) == Means(f).is = "Candle" /\ (Means(f).is_closed => IsOver(f.bar, Means(f).close))

IsFunding(f) ==
  /\ Means(f).is \in {"FundingRate", "InstrumentEvent"}
  /\ \/ Means(f).funding_rate = f.quote.rate
     \/ Means(f).funding_rate = None /\ f.quote.rate = 0

IsTrueFrame(f) == f.quote \in Quotes /\ (IsTrade(f) \/ IsQuote(f) \/ IsCandle(f) \/ IsFunding(f))

TapeTypes ==
  /\ tape \in AllTapes
  /\ aggressor \in Seq({"buy", "sell"})
  /\ quote \in Quotes /\ pushed \in Quotes \cup {None} /\ asOf \in Quotes \cup {None}
  /\ bars \in Seq(Closes) /\ Len(bars) > 0

(* The frames are a sequence of something: their shape depends on the venue. *)
WireIsSequence == \E S : tapeWire \in Seq(S)

WireIsTrue == \A i \in 1 .. Len(tapeWire) : IsTrueFrame(tapeWire[i])

WireFollows ==
  /\ TickersFollow(tapeWire, asOf)
  /\ pushed # None => Before(tapeWire, asOf, Len(tapeWire) + 1, pushed)

RecordedIsTrue ==
  \A r \in recorded : r.id \in 1 .. Len(aggressor) /\ aggressor[r.id] = r.side

KeptIsOver == \A k \in kept : IsOver(k.bar, k.close)

TapeInv ==
  /\ TapeTypes /\ WireIsSequence /\ WireIsTrue /\ WireFollows
  /\ RecordedIsTrue /\ QuoteIsVenues /\ KeptIsOver /\ FundingIsVenues

-------------------------------------------------------------------------------
(* The wire.                                                                       *)

LEMMA WireGrows ==
  ASSUME NEW w, \E S : w \in Seq(S), NEW x, NEW w2, w2 = Append(w, x)
  PROVE  /\ \E S : w2 \in Seq(S)
         /\ Len(w) \in Nat /\ Len(w2) = Len(w) + 1
         /\ \A i \in 1 .. Len(w) : w2[i] = w[i]
         /\ w2[Len(w) + 1] = x
<1>1. PICK S : w \in Seq(S)
  OBVIOUS
<1> DEFINE T == S \cup {x}
<1>2. w \in Seq(T) /\ x \in T
  BY <1>1, SeqMonotonic
<1>3. /\ w2 \in Seq(T) /\ Len(w2) = Len(w) + 1
      /\ \A i \in 1 .. Len(w) : w2[i] = w[i]
      /\ w2[Len(w) + 1] = x
  BY <1>2, AppendProperties
<1>4. Len(w) \in Nat
  BY <1>1, LenProperties
<1>5. QED
  BY <1>3, <1>4

LEMMA WireShrinks ==
  ASSUME NEW w, \E S : w \in Seq(S), w # <<>>, NEW w2, w2 = Tail(w)
  PROVE  /\ \E S : w2 \in Seq(S)
         /\ Len(w) \in Nat \ {0} /\ Len(w2) = Len(w) - 1 /\ Head(w) = w[1]
         /\ \A i \in 1 .. Len(w2) : i + 1 \in 1 .. Len(w) /\ w2[i] = w[i + 1]
<1>1. PICK S : w \in Seq(S)
  OBVIOUS
<1>2. /\ w2 \in Seq(S) /\ Len(w2) = Len(w) - 1
      /\ \A i \in 1 .. Len(w2) : w2[i] = w[i + 1]
  BY <1>1, HeadTailProperties
<1>3. Len(w) \in Nat \ {0}
  BY <1>1, EmptySeq
<1>4. Head(w) = w[1]
  BY <1>1
<1>5. QED
  BY <1>2, <1>3, <1>4

\* The ticker before a place stays when a frame is pushed behind it.
LEMMA BeforeGrows ==
  ASSUME NEW w, NEW w2, Len(w) \in Nat, Len(w2) = Len(w) + 1,
         \A i \in 1 .. Len(w) : w2[i] = w[i],
         NEW a, NEW q
  PROVE  /\ \A i \in 1 .. Len(w) + 1 : Before(w, a, i, q) => Before(w2, a, i, q)
         /\ ~ IsTicker(w2[Len(w) + 1]) /\ Before(w, a, Len(w) + 1, q) =>
              Before(w2, a, Len(w2) + 1, q)
         /\ IsTicker(w2[Len(w) + 1]) /\ w2[Len(w) + 1].quote = q => Before(w2, a, Len(w2) + 1, q)
<1> DEFINE n == Len(w)
<1> HIDE DEF n
<1>1. n \in Nat /\ n = Len(w)
  BY DEF n
<1>2. \A i \in 1 .. n + 1 : \A j \in 1 .. i - 1 : j \in 1 .. n /\ w2[j] = w[j]
  BY <1>1
<1>3. ASSUME NEW i \in 1 .. n + 1, Before(w, a, i, q)
      PROVE  Before(w2, a, i, q)
  <2>1. \A j \in 1 .. i - 1 : j \in 1 .. n /\ w2[j] = w[j]
    BY <1>2
  <2>2. \A j \in 1 .. i - 1 : \A k \in j + 1 .. i - 1 : k \in 1 .. i - 1
    BY <1>1
  <2>3. QED
    BY <1>3, <2>1, <2>2 DEF Before
<1>4. ASSUME ~ IsTicker(w2[n + 1]), Before(w, a, n + 1, q)
      PROVE  Before(w2, a, n + 2, q)
  <2>1. Before(w2, a, n + 1, q)
    BY <1>1, <1>3, <1>4
  <2>2. CASE \E j \in 1 .. n : /\ IsTicker(w2[j]) /\ w2[j].quote = q
                               /\ \A k \in j + 1 .. n : ~ IsTicker(w2[k])
    <3>1. PICK j \in 1 .. n : /\ IsTicker(w2[j]) /\ w2[j].quote = q
                              /\ \A k \in j + 1 .. n : ~ IsTicker(w2[k])
      BY <2>2
    <3>2. j \in 1 .. n + 1 /\ \A k \in j + 1 .. n + 1 : k \in j + 1 .. n \/ k = n + 1
      BY <1>1
    <3>3. \A k \in j + 1 .. n + 1 : ~ IsTicker(w2[k])
      BY <1>4, <3>1, <3>2
    <3>4. (n + 2) - 1 = n + 1
      BY <1>1
    <3>5. QED
      BY <3>1, <3>2, <3>3, <3>4 DEF Before
  <2>3. CASE (\A j \in 1 .. n : ~ IsTicker(w2[j])) /\ a = q
    <3>1. \A j \in 1 .. n + 1 : j \in 1 .. n \/ j = n + 1
      BY <1>1
    <3>2. \A j \in 1 .. n + 1 : ~ IsTicker(w2[j])
      BY <1>4, <2>3, <3>1
    <3>3. (n + 2) - 1 = n + 1
      BY <1>1
    <3>4. QED
      BY <2>3, <3>2, <3>3 DEF Before
  <2>4. (n + 1) - 1 = n
    BY <1>1
  <2>5. QED
    BY <2>1, <2>2, <2>3, <2>4 DEF Before
<1>5. ASSUME IsTicker(w2[n + 1]), w2[n + 1].quote = q
      PROVE  Before(w2, a, n + 2, q)
  <2>1. n + 1 \in 1 .. (n + 2) - 1 /\ (n + 1) + 1 .. (n + 2) - 1 = {}
    BY <1>1
  <2>2. QED
    BY <1>5, <2>1 DEF Before
<1>6. Len(w2) + 1 = n + 2
  BY <1>1
<1>7. QED
  BY <1>1, <1>3, <1>4, <1>5, <1>6

\* When the head is read, the quote it was made from stands for it.
LEMMA BeforeShrinks ==
  ASSUME NEW w, NEW w2, Len(w) \in Nat \ {0}, Len(w2) = Len(w) - 1,
         \A i \in 1 .. Len(w2) : w2[i] = w[i + 1],
         NEW a, NEW a2, IsTicker(w[1]) => a2 = w[1].quote, ~ IsTicker(w[1]) => a2 = a,
         NEW i \in 1 .. Len(w), NEW q, Before(w, a, i + 1, q)
  PROVE  Before(w2, a2, i, q)
<1>1. i \in Nat /\ i > 0 /\ (i + 1) - 1 = i
  OBVIOUS
<1>2. \A j \in 1 .. i - 1 : j + 1 \in 1 .. i /\ j \in 1 .. Len(w2) /\ w2[j] = w[j + 1]
  BY <1>1
<1>3. CASE \E j \in 1 .. i : /\ IsTicker(w[j]) /\ w[j].quote = q
                             /\ \A k \in j + 1 .. i : ~ IsTicker(w[k])
  <2>1. PICK j \in 1 .. i : /\ IsTicker(w[j]) /\ w[j].quote = q
                            /\ \A k \in j + 1 .. i : ~ IsTicker(w[k])
    BY <1>3
  <2>2. CASE j = 1
    <3>1. a2 = q
      BY <2>1, <2>2
    <3>2. \A m \in 1 .. i - 1 : m + 1 \in j + 1 .. i
      BY <1>1, <2>2
    <3>3. \A m \in 1 .. i - 1 : ~ IsTicker(w2[m])
      BY <1>2, <2>1, <3>2
    <3>4. QED
      BY <3>1, <3>3 DEF Before
  <2>3. CASE j # 1
    <3>1. j - 1 \in 1 .. i - 1 /\ (j - 1) + 1 = j
      BY <1>1, <2>3
    <3>2. IsTicker(w2[j - 1]) /\ w2[j - 1].quote = q
      BY <1>2, <2>1, <3>1
    <3>3. \A k \in (j - 1) + 1 .. i - 1 : k \in 1 .. i - 1 /\ k + 1 \in j + 1 .. i
      BY <1>1, <3>1
    <3>4. \A k \in (j - 1) + 1 .. i - 1 : ~ IsTicker(w2[k])
      BY <1>2, <2>1, <3>3
    <3>5. QED
      BY <3>1, <3>2, <3>4 DEF Before
  <2>4. QED
    BY <2>2, <2>3
<1>4. CASE (\A j \in 1 .. i : ~ IsTicker(w[j])) /\ a = q
  <2>1. 1 \in 1 .. i
    BY <1>1
  <2>2. a2 = q
    BY <1>4, <2>1
  <2>3. \A j \in 1 .. i - 1 : ~ IsTicker(w2[j])
    BY <1>2, <1>4
  <2>4. QED
    BY <2>2, <2>3 DEF Before
<1>5. QED
  BY <1>1, <1>3, <1>4 DEF Before

LEMMA FollowGrows ==
  ASSUME NEW w, NEW w2, Len(w) \in Nat, Len(w2) = Len(w) + 1,
         \A i \in 1 .. Len(w) : w2[i] = w[i],
         NEW a, TickersFollow(w, a), TickerFollows(w2, a, Len(w) + 1)
  PROVE  TickersFollow(w2, a)
<1>1. ASSUME NEW i \in 1 .. Len(w)
      PROVE  TickerFollows(w2, a, i)
  <2>1. TickerFollows(w, a, i) /\ w2[i] = w[i] /\ i \in 1 .. Len(w) + 1
    BY DEF TickersFollow
  <2>2. \A q : Before(w, a, i, q) => Before(w2, a, i, q)
    BY <2>1, BeforeGrows
  <2>3. \A news, field : News(w, a, i, news, field) => News(w2, a, i, news, field)
    BY <2>1, <2>2 DEF News
  <2>4. QED
    BY <2>1, <2>3 DEF TickerFollows
<1>2. \A i \in 1 .. Len(w2) : i \in 1 .. Len(w) \/ i = Len(w) + 1
  OBVIOUS
<1>3. QED
  BY <1>1, <1>2 DEF TickersFollow

LEMMA FollowShrinks ==
  ASSUME NEW w, NEW w2, Len(w) \in Nat \ {0}, Len(w2) = Len(w) - 1,
         \A i \in 1 .. Len(w2) : w2[i] = w[i + 1],
         NEW a, NEW a2, IsTicker(w[1]) => a2 = w[1].quote, ~ IsTicker(w[1]) => a2 = a,
         TickersFollow(w, a)
  PROVE  TickersFollow(w2, a2)
<1>1. ASSUME NEW i \in 1 .. Len(w2)
      PROVE  TickerFollows(w2, a2, i)
  <2>1. i \in 1 .. Len(w) /\ i + 1 \in 1 .. Len(w) /\ w2[i] = w[i + 1]
    OBVIOUS
  <2>2. TickerFollows(w, a, i + 1)
    BY <2>1 DEF TickersFollow
  <2>3. \A q : Before(w, a, i + 1, q) => Before(w2, a2, i, q)
    BY <2>1, BeforeShrinks
  <2>4. \A news, field : News(w, a, i + 1, news, field) => News(w2, a2, i, news, field)
    BY <2>1, <2>3 DEF News
  <2>5. QED
    BY <2>1, <2>2, <2>4 DEF TickerFollows
<1>2. QED
  BY <1>1 DEF TickersFollow

-------------------------------------------------------------------------------
(* The venue's steps.                                                              *)

LEMMA TapeStays ==
  ASSUME tape' = tape
  PROVE  /\ \A f : Means(f)' = Means(f)
         /\ \A w, a, i, q : Before(w, a, i, q)' <=> Before(w, a, i, q)
         /\ \A w, a : TickersFollow(w, a)' <=> TickersFollow(w, a)
<1>1. \A f : Means(f)' = Means(f)
  BY DEF Means
<1>2. \A w, a, i, q : Before(w, a, i, q)' <=> Before(w, a, i, q)
  BY DEF Before, IsTicker, Means
<1>3. \A w, a : TickersFollow(w, a)' <=> TickersFollow(w, a)
  BY DEF TickersFollow, TickerFollows, News, Before, IsTicker, Means
<1>4. QED
  BY <1>1, <1>2, <1>3

\* What a frame says stays true while trades are only added and closed bars stay.
LEMMA FramesStayTrue ==
  ASSUME tape' = tape,
         \A k \in 1 .. Len(aggressor) : k \in 1 .. Len(aggressor') /\ aggressor'[k] = aggressor[k],
         \A b, c : IsOver(b, c) => IsOver(b, c)'
  PROVE  \A f : IsTrueFrame(f) => IsTrueFrame(f)'
<1> TAKE f
<1>1. Means(f)' = Means(f)
  BY TapeStays
<1>2. IsTrade(f) => IsTrade(f)'
  BY <1>1 DEF IsTrade
<1>3. IsQuote(f) => IsQuote(f)'
  BY <1>1 DEF IsQuote, IsTicker
<1>4. IsCandle(f) => IsCandle(f)'
  <2>1. PICK b, c : b = f.bar /\ c = Means(f).close
    OBVIOUS
  <2>2. IsCandle(f)' <=> (Means(f).is = "Candle" /\ (Means(f).is_closed => IsOver(b, c)'))
    BY <1>1, <2>1 DEF IsCandle
  <2>3. IsCandle(f) <=> (Means(f).is = "Candle" /\ (Means(f).is_closed => IsOver(b, c)))
    BY <2>1 DEF IsCandle
  <2>4. QED
    BY <2>2, <2>3
<1>5. IsFunding(f) => IsFunding(f)'
  BY <1>1 DEF IsFunding
<1>6. QED
  BY <1>2, <1>3, <1>4, <1>5 DEF IsTrueFrame

\* A true frame behind the others leaves the wire true.
LEMMA PushKeepsWire ==
  ASSUME WireIsSequence, WireIsTrue, WireFollows, tape' = tape, asOf' = asOf,
         NEW x, tapeWire' = Append(tapeWire, x), IsTrueFrame(x)',
         \A f : IsTrueFrame(f) => IsTrueFrame(f)',
         \/ ~ IsTicker(x) /\ pushed' = pushed
         \/ /\ IsTicker(x) /\ pushed' = x.quote
            /\ TickerFollows(tapeWire', asOf, Len(tapeWire) + 1)
  PROVE  WireIsSequence' /\ WireIsTrue' /\ WireFollows'
<1>1. PICK w, v, a : w = tapeWire /\ v = tapeWire' /\ a = asOf
  OBVIOUS
<1>2. /\ \E S : v \in Seq(S)
      /\ Len(w) \in Nat /\ Len(v) = Len(w) + 1
      /\ \A i \in 1 .. Len(w) : v[i] = w[i]
      /\ v[Len(w) + 1] = x
  BY <1>1, WireGrows DEF WireIsSequence
<1>3. WireIsSequence'
  BY <1>1, <1>2 DEF WireIsSequence
<1>4. WireIsTrue'
  <2>1. ASSUME NEW i \in 1 .. Len(v), NEW f, f = v[i]
        PROVE  IsTrueFrame(f)'
    <3>1. CASE i \in 1 .. Len(w)
      <4>1. IsTrueFrame(f)
        BY <1>1, <1>2, <2>1, <3>1 DEF WireIsTrue
      <4>2. QED
        BY <4>1
    <3>2. CASE i = Len(w) + 1
      BY <1>2, <2>1, <3>2
    <3>3. QED
      BY <1>2, <3>1, <3>2
  <2>2. QED
    BY <1>1, <2>1 DEF WireIsTrue
<1>5. TickersFollow(w, a) /\ (pushed # None => Before(w, a, Len(w) + 1, pushed))
  BY <1>1 DEF WireFollows
<1>6. TickerFollows(v, a, Len(w) + 1)
  BY <1>1, <1>2 DEF TickerFollows
<1>7. TickersFollow(v, a)
  BY <1>2, <1>5, <1>6, FollowGrows
<1>8. PICK p : p = pushed'
  OBVIOUS
<1>9. p # None => Before(v, a, Len(v) + 1, p)
  BY <1>2, <1>5, <1>8, BeforeGrows
<1>10. WireFollows'
  <2>1. TickersFollow(v, a)' /\ (p # None => Before(v, a, Len(v) + 1, p)')
    BY <1>7, <1>9, TapeStays
  <2>2. QED
    BY <1>1, <1>8, <2>1 DEF WireFollows
<1>11. QED
  BY <1>3, <1>4, <1>10

(* What the venue's steps leave to show: the rest of the invariant follows.        *)
LEMMA ConsumerKeeps ==
  ASSUME TapeInv, UNCHANGED tapeConsumer, UNCHANGED tape,
         \A k \in 1 .. Len(aggressor) : k \in 1 .. Len(aggressor') /\ aggressor'[k] = aggressor[k],
         \A b, c : IsOver(b, c) => IsOver(b, c)'
  PROVE  /\ RecordedIsTrue' /\ QuoteIsVenues' /\ KeptIsOver' /\ FundingIsVenues'
         /\ asOf' = asOf
<1>1. /\ recorded' = recorded /\ shown' = shown /\ asOf' = asOf /\ kept' = kept
      /\ funding' = funding
  BY DEF tapeConsumer
<1>2. RecordedIsTrue /\ QuoteIsVenues /\ KeptIsOver /\ FundingIsVenues
  BY DEF TapeInv
<1>3. RecordedIsTrue'
  BY <1>1, <1>2 DEF RecordedIsTrue
<1>4. QuoteIsVenues'
  BY <1>1, <1>2 DEF QuoteIsVenues
<1>5. KeptIsOver'
  <2>1. ASSUME NEW k \in kept, NEW b, NEW c, b = k.bar, c = k.close
        PROVE  IsOver(b, c)'
    BY <1>2, <2>1 DEF KeptIsOver
  <2>2. QED
    BY <1>1, <2>1 DEF KeptIsOver
<1>6. FundingIsVenues'
  BY <1>1, <1>2 DEF FundingIsVenues
<1>7. QED
  BY <1>1, <1>3, <1>4, <1>5, <1>6

LEMMA TradeStep ==
  ASSUME TapeInv, TradeHappens
  PROVE  TapeInv'
<1>1. TapeTypes /\ WireIsSequence /\ WireIsTrue /\ WireFollows
  BY DEF TapeInv
<1>2. PICK side \in {"buy", "sell"} :
        /\ aggressor' = Append(aggressor, side)
        /\ tapeWire' = Append(tapeWire, OnTape(TradeFrame(Len(aggressor) + 1, side)))
  BY DEF TradeHappens, Sent
<1>3. /\ tape' = tape /\ quote' = quote /\ pushed' = pushed /\ bars' = bars
      /\ UNCHANGED tapeConsumer
  BY DEF TradeHappens
<1>4. /\ Len(aggressor) \in Nat /\ Len(aggressor') = Len(aggressor) + 1
      /\ aggressor' \in Seq({"buy", "sell"})
      /\ \A k \in 1 .. Len(aggressor) : aggressor'[k] = aggressor[k]
      /\ aggressor'[Len(aggressor) + 1] = side
  BY <1>1, <1>2, AppendProperties, LenProperties DEF TapeTypes
<1>5. \A k \in 1 .. Len(aggressor) : k \in 1 .. Len(aggressor') /\ aggressor'[k] = aggressor[k]
  BY <1>4
<1>6. \A b, c : IsOver(b, c) => IsOver(b, c)'
  BY <1>3 DEF IsOver
<1>7. PICK x : x = OnTape(TradeFrame(Len(aggressor) + 1, side))
  OBVIOUS
<1>8. /\ Means(x).is = "Trade" /\ Means(x).trade_id = Len(aggressor) + 1
      /\ Means(x).side = side /\ x.quote = quote
  BY <1>1, <1>4, <1>7, TradeSays DEF TapeTypes
<1>9. IsTrueFrame(x)'
  <2>1. Means(x)' = Means(x)
    BY <1>3, TapeStays
  <2>2. IsTrade(x)'
    BY <1>4, <1>8, <2>1 DEF IsTrade
  <2>3. x.quote \in Quotes
    BY <1>1, <1>8 DEF TapeTypes
  <2>4. QED
    BY <2>2, <2>3 DEF IsTrueFrame
<1>10. ~ IsTicker(x)
  BY <1>8 DEF IsTicker
<1>11. \A f : IsTrueFrame(f) => IsTrueFrame(f)'
  BY <1>3, <1>5, <1>6, FramesStayTrue
<1>12. /\ RecordedIsTrue' /\ QuoteIsVenues' /\ KeptIsOver' /\ FundingIsVenues'
       /\ asOf' = asOf
  BY <1>3, <1>5, <1>6, ConsumerKeeps
<1>13. WireIsSequence' /\ WireIsTrue' /\ WireFollows'
  BY <1>1, <1>2, <1>3, <1>7, <1>9, <1>10, <1>11, <1>12, PushKeepsWire
<1>14. TapeTypes'
  BY <1>1, <1>3, <1>4, <1>12 DEF TapeTypes
<1>15. QED
  BY <1>12, <1>13, <1>14 DEF TapeInv

\* Steps that leave the trades and the wire alone.
LEMMA QuoteStep ==
  ASSUME TapeInv, QuoteMoves \/ BarMoves \/ UNCHANGED tapeVars
  PROVE  TapeInv'
<1>1. TapeTypes /\ WireIsSequence /\ WireIsTrue /\ WireFollows
  BY DEF TapeInv
<1>2. /\ tape' = tape /\ aggressor' = aggressor /\ pushed' = pushed /\ tapeWire' = tapeWire
      /\ quote' \in Quotes /\ UNCHANGED tapeConsumer
      /\ bars' = bars \/ \E c \in Closes : bars' = [bars EXCEPT ![Len(bars)] = c]
  <2>1. CASE QuoteMoves
    BY <2>1 DEF QuoteMoves
  <2>2. CASE BarMoves
    BY <1>1, <2>2 DEF BarMoves, TapeTypes
  <2>3. CASE UNCHANGED tapeVars
    BY <1>1, <2>3 DEF tapeVars, tapeConsumer, TapeTypes
  <2>4. QED
    BY <2>1, <2>2, <2>3
<1>3. /\ bars \in Seq(Closes) /\ Len(bars) \in Nat /\ Len(bars) > 0
  BY <1>1, LenProperties DEF TapeTypes
<1>4. /\ bars' \in Seq(Closes) /\ Len(bars') = Len(bars)
      /\ \A i \in 1 .. Len(bars) - 1 : bars'[i] = bars[i]
  <2>1. CASE bars' = bars
    BY <1>3, <2>1
  <2>2. CASE \E c \in Closes : bars' = [bars EXCEPT ![Len(bars)] = c]
    <3>1. PICK c \in Closes : bars' = [bars EXCEPT ![Len(bars)] = c]
      BY <2>2
    <3>2. Len(bars) \in 1 .. Len(bars)
      BY <1>3
    <3>3. /\ bars' \in Seq(Closes) /\ Len(bars') = Len(bars)
          /\ \A i \in 1 .. Len(bars) : bars'[i] = IF i = Len(bars) THEN c ELSE bars[i]
      BY <1>3, <3>1, <3>2, ExceptSeq
    <3>4. QED
      BY <1>3, <3>3
  <2>3. QED
    BY <1>2, <2>1, <2>2
<1>5. \A b, c : IsOver(b, c) => IsOver(b, c)'
  BY <1>4 DEF IsOver
<1>6. \A k \in 1 .. Len(aggressor) : k \in 1 .. Len(aggressor') /\ aggressor'[k] = aggressor[k]
  BY <1>2
<1>7. /\ RecordedIsTrue' /\ QuoteIsVenues' /\ KeptIsOver' /\ FundingIsVenues'
      /\ asOf' = asOf
  BY <1>2, <1>5, <1>6, ConsumerKeeps
<1>8. TapeTypes'
  BY <1>1, <1>2, <1>3, <1>4, <1>7 DEF TapeTypes
<1>9. WireIsSequence'
  BY <1>1, <1>2 DEF WireIsSequence
<1>10. WireIsTrue'
  <2>1. \A f : IsTrueFrame(f) => IsTrueFrame(f)'
    BY <1>2, <1>5, <1>6, FramesStayTrue
  <2>2. ASSUME NEW i \in 1 .. Len(tapeWire), NEW f, f = tapeWire[i]
        PROVE  IsTrueFrame(f)'
    BY <1>1, <2>1, <2>2 DEF WireIsTrue
  <2>3. QED
    BY <1>2, <2>2 DEF WireIsTrue
<1>11. WireFollows'
  <2>1. PICK w, a, p : w = tapeWire /\ a = asOf /\ p = pushed
    OBVIOUS
  <2>2. TickersFollow(w, a) /\ (p # None => Before(w, a, Len(w) + 1, p))
    BY <1>1, <2>1 DEF WireFollows
  <2>3. TickersFollow(w, a)' /\ (p # None => Before(w, a, Len(w) + 1, p)')
    BY <1>2, <2>2, TapeStays
  <2>4. QED
    BY <1>2, <1>7, <2>1, <2>3 DEF WireFollows
<1>12. QED
  BY <1>7, <1>8, <1>9, <1>10, <1>11 DEF TapeInv

LEMMA TickerStep ==
  ASSUME TapeInv, PushTicker
  PROVE  TapeInv'
<1>1. TapeTypes /\ WireIsSequence /\ WireIsTrue /\ WireFollows
  BY DEF TapeInv
<1>2. /\ tape' = tape /\ aggressor' = aggressor /\ quote' = quote /\ bars' = bars
      /\ pushed' = quote /\ tapeWire' = Append(tapeWire, OnTape(TickerFrame))
      /\ UNCHANGED tapeConsumer
  BY DEF PushTicker, Sent
<1>3. /\ tape \in AllTapes /\ quote \in Quotes /\ pushed \in Quotes \cup {None}
  BY <1>1 DEF TapeTypes
<1>4. PICK x : x = OnTape(TickerFrame)
  OBVIOUS
<1>5. /\ Means(x).is = "Ticker" /\ x.quote = quote
      /\ tape = "bybit" => /\ Means(x).price = Amount(Changed("last"))
                           /\ Means(x).best_bid = Amount(Changed("bid"))
                           /\ Means(x).best_ask = Amount(Changed("ask"))
      /\ tape # "bybit" =>
           /\ Means(x).best_bid = quote.bid /\ Means(x).best_ask = quote.ask
           /\ tape \notin {"binance", "kucoin"} => Means(x).price = quote.last
           /\ tape = "kucoin" =>
                quote.bid <= Means(x).price /\ Means(x).price <= quote.ask
           /\ Means(x).price \in Nat
  BY <1>3, <1>4, TickerSays
<1>6. \A field \in {"last", "bid", "ask"} :
        \/ Amount(Changed(field)) = quote[field]
        \/ Amount(Changed(field)) = 0 /\ pushed \in Quotes /\ pushed[field] = quote[field]
  BY <1>3, ChangedSays
<1>7. Means(x).price \in Nat
  <2>1. CASE tape = "bybit"
    <3>1. quote["last"] \in Nat
      BY <1>3, QuotesAssumption
    <3>2. QED
      BY <1>5, <1>6, <2>1, <3>1
  <2>2. CASE tape # "bybit"
    BY <1>5, <2>2
  <2>3. QED
    BY <2>1, <2>2
<1>8. IsTrueFrame(x)'
  <2>1. Means(x)' = Means(x)
    BY <1>2, TapeStays
  <2>2. IsQuote(x)'
    BY <1>2, <1>5, <1>7, <2>1 DEF IsQuote, IsTicker
  <2>3. QED
    BY <1>3, <1>5, <2>2 DEF IsTrueFrame
<1>9. \A k \in 1 .. Len(aggressor) : k \in 1 .. Len(aggressor') /\ aggressor'[k] = aggressor[k]
  BY <1>2
<1>10. \A b, c : IsOver(b, c) => IsOver(b, c)'
  BY <1>2 DEF IsOver
<1>11. \A f : IsTrueFrame(f) => IsTrueFrame(f)'
  BY <1>2, <1>9, <1>10, FramesStayTrue
<1>12. /\ RecordedIsTrue' /\ QuoteIsVenues' /\ KeptIsOver' /\ FundingIsVenues'
       /\ asOf' = asOf
  BY <1>2, <1>9, <1>10, ConsumerKeeps
<1>13. TickerFollows(tapeWire', asOf, Len(tapeWire) + 1)
  <2>1. PICK w, v, a : w = tapeWire /\ v = tapeWire' /\ a = asOf
    OBVIOUS
  <2>2. /\ Len(w) \in Nat /\ Len(v) = Len(w) + 1
        /\ \A i \in 1 .. Len(w) : v[i] = w[i]
        /\ v[Len(w) + 1] = x
    BY <1>1, <1>2, <1>4, <2>1, WireGrows DEF WireIsSequence
  <2> DEFINE n == Len(w) + 1
  <2>3. pushed # None => Before(v, a, n, pushed)
    <3>1. pushed # None => Before(w, a, n, pushed)
      BY <1>1, <2>1 DEF WireFollows
    <3>2. n \in 1 .. Len(w) + 1
      BY <2>2
    <3>3. QED
      BY <2>2, <3>1, <3>2, BeforeGrows
  <2>4. v[n] = x /\ x.quote = quote
    BY <1>5, <2>2
  <2> HIDE DEF n
  <2>5. ASSUME NEW field \in {"last", "bid", "ask"}
        PROVE  /\ News(v, a, n, Amount(Changed(field)), field)
               /\ News(v, a, n, quote[field], field)
    <3>1. CASE Amount(Changed(field)) = quote[field]
      BY <2>4, <3>1 DEF News
    <3>2. CASE Amount(Changed(field)) = 0 /\ pushed \in Quotes /\ pushed[field] = quote[field]
      <4>1. Before(v, a, n, pushed)
        BY <2>3, <3>2, NoFieldAssumption
      <4>2. QED
        BY <2>4, <3>2, <4>1 DEF News
    <3>3. QED
      BY <1>6, <3>1, <3>2
  <2>6. /\ News(v, a, n, Means(x).best_bid, "bid")
        /\ News(v, a, n, Means(x).best_ask, "ask")
        /\ tape \notin {"binance", "kucoin"} => News(v, a, n, Means(x).price, "last")
    <3>1. /\ News(v, a, n, Amount(Changed("bid")), "bid") /\ News(v, a, n, quote.bid, "bid")
          /\ News(v, a, n, Amount(Changed("ask")), "ask") /\ News(v, a, n, quote.ask, "ask")
          /\ News(v, a, n, Amount(Changed("last")), "last") /\ News(v, a, n, quote.last, "last")
      BY <2>5
    <3>2. CASE tape = "bybit"
      BY <1>5, <3>1, <3>2
    <3>3. CASE tape # "bybit"
      BY <1>5, <3>1, <3>3
    <3>4. QED
      BY <3>2, <3>3
  <2>7. TickerFollows(v, a, n)
    BY <2>4, <2>6 DEF TickerFollows
  <2>8. QED
    BY <2>1, <2>7 DEF n
<1>14. WireIsSequence' /\ WireIsTrue' /\ WireFollows'
  <2>1. IsTicker(x) /\ pushed' = x.quote
    BY <1>2, <1>5 DEF IsTicker
  <2>2. QED
    BY <1>1, <1>2, <1>4, <1>8, <1>11, <1>12, <1>13, <2>1, PushKeepsWire
<1>15. TapeTypes'
  BY <1>1, <1>2, <1>3, <1>12 DEF TapeTypes
<1>16. QED
  BY <1>12, <1>14, <1>15 DEF TapeInv

\* Frames that are no tickers and change nothing else.
LEMMA FrameStep ==
  ASSUME TapeInv, PushFunding \/ PushKline
  PROVE  TapeInv'
<1>1. TapeTypes /\ WireIsSequence /\ WireIsTrue /\ WireFollows
  BY DEF TapeInv
<1>2. PICK x : /\ tapeWire' = Append(tapeWire, x)
               /\ \/ tape \in {"binance", "kucoin"} /\ x = OnTape(FundingFrame)
                  \/ tape \in Candlestick /\ x = OnTape(KlineFrame(bars[Len(bars)], FALSE))
  BY DEF PushFunding, PushKline, Sent
<1>3. /\ tape' = tape /\ aggressor' = aggressor /\ quote' = quote /\ bars' = bars
      /\ pushed' = pushed /\ UNCHANGED tapeConsumer
  BY DEF PushFunding, PushKline
<1>4. quote \in Quotes
  BY <1>1 DEF TapeTypes
<1>5. Means(x)' = Means(x)
  BY <1>3, TapeStays
<1>6. ~ IsTicker(x) /\ IsTrueFrame(x)'
  <2>1. CASE tape \in {"binance", "kucoin"} /\ x = OnTape(FundingFrame)
    <3>1. /\ Means(x).is \in {"FundingRate", "InstrumentEvent"} /\ x.quote = quote
          /\ \/ Means(x).funding_rate = quote.rate
             \/ Means(x).funding_rate = None /\ quote.rate = 0
      BY <1>4, <2>1, FundingSays
    <3>2. IsFunding(x)'
      BY <1>5, <3>1 DEF IsFunding
    <3>3. QED
      BY <1>4, <3>1, <3>2 DEF IsTrueFrame, IsTicker
  <2>2. CASE tape \in Candlestick /\ x = OnTape(KlineFrame(bars[Len(bars)], FALSE))
    <3>1. Means(x).is = "Candle" /\ ~ Means(x).is_closed /\ x.quote = quote
      BY <2>2, KlineSays
    <3>2. IsCandle(x)'
      BY <1>5, <3>1 DEF IsCandle
    <3>3. QED
      BY <1>4, <3>1, <3>2 DEF IsTrueFrame, IsTicker
  <2>3. QED
    BY <1>2, <2>1, <2>2
<1>7. \A k \in 1 .. Len(aggressor) : k \in 1 .. Len(aggressor') /\ aggressor'[k] = aggressor[k]
  BY <1>3
<1>8. \A b, c : IsOver(b, c) => IsOver(b, c)'
  BY <1>3 DEF IsOver
<1>9. \A f : IsTrueFrame(f) => IsTrueFrame(f)'
  BY <1>3, <1>7, <1>8, FramesStayTrue
<1>10. /\ RecordedIsTrue' /\ QuoteIsVenues' /\ KeptIsOver' /\ FundingIsVenues'
       /\ asOf' = asOf
  BY <1>3, <1>7, <1>8, ConsumerKeeps
<1>11. WireIsSequence' /\ WireIsTrue' /\ WireFollows'
  BY <1>1, <1>2, <1>3, <1>6, <1>9, <1>10, PushKeepsWire
<1>12. TapeTypes'
  BY <1>1, <1>3, <1>10 DEF TapeTypes
<1>13. QED
  BY <1>10, <1>11, <1>12 DEF TapeInv

\* The last candle of a bar goes out as the bar ends.
LEMMA BarStep ==
  ASSUME TapeInv, BarEnds
  PROVE  TapeInv'
<1>1. TapeTypes /\ WireIsSequence /\ WireIsTrue /\ WireFollows
  BY DEF TapeInv
<1>2. PICK x : /\ tapeWire' = Append(tapeWire, x)
               /\ x = OnTape(KlineFrame(bars[Len(bars)], TRUE))
  BY DEF BarEnds, Sent
<1>3. /\ tape' = tape /\ aggressor' = aggressor /\ quote' = quote /\ pushed' = pushed
      /\ UNCHANGED tapeConsumer /\ tape \in Candlestick
      /\ \E c \in Closes : bars' = Append(bars, c)
  BY DEF BarEnds
<1>4. quote \in Quotes /\ bars \in Seq(Closes) /\ Len(bars) \in Nat /\ Len(bars) > 0
  BY <1>1, LenProperties DEF TapeTypes
<1>5. /\ bars' \in Seq(Closes) /\ Len(bars') = Len(bars) + 1
      /\ \A i \in 1 .. Len(bars) : bars'[i] = bars[i]
  BY <1>3, <1>4, AppendProperties
<1>6. Means(x)' = Means(x)
  BY <1>3, TapeStays
<1>7. ~ IsTicker(x) /\ IsTrueFrame(x)'
  <2>1. /\ Means(x).is = "Candle" /\ Means(x).close = bars[Len(bars)]
        /\ x.quote = quote /\ x.bar = Len(bars)
    BY <1>2, <1>3, KlineSays
  <2>2. IsCandle(x)'
    <3>1. PICK b, c : b = x.bar /\ c = Means(x).close
      OBVIOUS
    <3>2. b \in 1 .. Len(bars') - 1 /\ bars'[b] = c
      BY <1>4, <1>5, <2>1, <3>1
    <3>3. IsOver(b, c)'
      BY <3>2 DEF IsOver
    <3>4. QED
      BY <1>6, <2>1, <3>1, <3>3 DEF IsCandle
  <2>3. QED
    BY <1>4, <2>1, <2>2 DEF IsTrueFrame, IsTicker
<1>8. \A k \in 1 .. Len(aggressor) : k \in 1 .. Len(aggressor') /\ aggressor'[k] = aggressor[k]
  BY <1>3
<1>9. \A b, c : IsOver(b, c) => IsOver(b, c)'
  BY <1>4, <1>5 DEF IsOver
<1>10. \A f : IsTrueFrame(f) => IsTrueFrame(f)'
  BY <1>3, <1>8, <1>9, FramesStayTrue
<1>11. /\ RecordedIsTrue' /\ QuoteIsVenues' /\ KeptIsOver' /\ FundingIsVenues'
       /\ asOf' = asOf
  BY <1>3, <1>8, <1>9, ConsumerKeeps
<1>12. WireIsSequence' /\ WireIsTrue' /\ WireFollows'
  BY <1>1, <1>2, <1>3, <1>7, <1>10, <1>11, PushKeepsWire
<1>13. TapeTypes'
  BY <1>1, <1>3, <1>4, <1>5, <1>11 DEF TapeTypes
<1>14. QED
  BY <1>11, <1>12, <1>13 DEF TapeInv

\* A reconnect: the wire is lost, past trades open the next session.
LEMMA ReconnectStep ==
  ASSUME TapeInv, Reconnect
  PROVE  TapeInv'
<1>1. TapeTypes /\ WireIsSequence /\ WireIsTrue /\ WireFollows
  BY DEF TapeInv
<1>2. PICK n \in {0, 1} :
        /\ n = 1 => Len(aggressor) > 0
        /\ tapeWire' = [i \in 1 .. n |->
                          OnTape(TradeFrame(Len(aggressor), aggressor[Len(aggressor)]))]
  BY DEF Reconnect
<1>3. /\ tape' = tape /\ aggressor' = aggressor /\ quote' = quote /\ bars' = bars
      /\ pushed' = None /\ UNCHANGED tapeConsumer
  BY DEF Reconnect
<1>4. \A k \in 1 .. Len(aggressor) : k \in 1 .. Len(aggressor') /\ aggressor'[k] = aggressor[k]
  BY <1>3
<1>5. \A b, c : IsOver(b, c) => IsOver(b, c)'
  BY <1>3 DEF IsOver
<1>6. /\ RecordedIsTrue' /\ QuoteIsVenues' /\ KeptIsOver' /\ FundingIsVenues'
      /\ asOf' = asOf
  BY <1>3, <1>4, <1>5, ConsumerKeeps
<1>7. TapeTypes'
  BY <1>1, <1>3, <1>6 DEF TapeTypes
<1>8. PICK x : x = OnTape(TradeFrame(Len(aggressor), aggressor[Len(aggressor)]))
  OBVIOUS
<1>9. tapeWire' \in Seq({x}) /\ Len(tapeWire') = n /\ \A i \in 1 .. n : tapeWire'[i] = x
  <2>1. tapeWire' = [i \in 1 .. n |-> x]
    BY <1>2, <1>8
  <2>2. n \in Nat
    BY <1>2
  <2>3. QED
    BY <2>1, <2>2
<1>10. n = 1 => ~ IsTicker(x) /\ IsTrueFrame(x)'
  <2>1. SUFFICES ASSUME n = 1
                 PROVE  ~ IsTicker(x) /\ IsTrueFrame(x)'
    OBVIOUS
  <2>2. Len(aggressor) \in Nat \ {0} /\ aggressor[Len(aggressor)] \in {"buy", "sell"}
    BY <1>1, <1>2, <2>1 DEF TapeTypes
  <2>3. /\ Means(x).is = "Trade" /\ Means(x).trade_id = Len(aggressor)
        /\ Means(x).side = aggressor[Len(aggressor)] /\ x.quote = quote
    BY <1>1, <1>8, <2>2, TradeSays DEF TapeTypes
  <2>4. Means(x)' = Means(x)
    BY <1>3, TapeStays
  <2>5. IsTrade(x)'
    BY <1>3, <2>2, <2>3, <2>4 DEF IsTrade
  <2>6. QED
    BY <1>1, <2>3, <2>5 DEF IsTrueFrame, IsTicker, TapeTypes
<1>11. WireIsTrue'
  BY <1>9, <1>10 DEF WireIsTrue
<1>12. WireFollows'
  <2>1. PICK v : v = tapeWire'
    OBVIOUS
  <2>2. \A i \in 1 .. Len(v) : ~ IsTicker(v[i])
    BY <1>2, <1>9, <1>10, <2>1
  <2>3. PICK a : a = asOf
    OBVIOUS
  <2>4. TickersFollow(v, a)
    BY <2>2 DEF TickersFollow, TickerFollows
  <2>5. TickersFollow(v, a)'
    BY <1>3, <2>4, TapeStays
  <2>6. QED
    BY <1>3, <1>6, <2>1, <2>3, <2>5 DEF WireFollows
<1>13. WireIsSequence'
  BY <1>9 DEF WireIsSequence
<1>14. QED
  BY <1>6, <1>7, <1>11, <1>12, <1>13 DEF TapeInv

-------------------------------------------------------------------------------
(* The consumer reads.                                                             *)

\* What the merge of a ticker's field shows: the quote the ticker was made from.
LEMMA MergeSays ==
  ASSUME NEW w, NEW a \in Quotes \cup {None}, NEW q, q = w[1].quote, q \in Quotes,
         NEW field \in {"last", "bid", "ask"}, NEW news, News(w, a, 1, news, field),
         a # None => shown[field] = a[field]
  PROVE  Merged(field, news) = q[field]
<1>1. CASE news = q[field]
  <2>1. CASE news = 0
    <3>1. q.last # 0 /\ q.bid # 0 /\ q.ask # 0
      BY QuotesAssumption
    <3>2. QED
      BY <1>1, <2>1, <3>1
  <2>2. CASE news # 0
    BY <1>1, <2>2 DEF Merged
  <2>3. QED
    BY <2>1, <2>2
<1>2. CASE news = 0 /\ \E p \in Quotes : Before(w, a, 1, p) /\ p[field] = q[field]
  <2>1. PICK p \in Quotes : Before(w, a, 1, p) /\ p[field] = q[field]
    BY <1>2
  <2>2. a = p
    BY <2>1 DEF Before
  <2>3. a # None /\ shown[field] = q[field]
    BY <2>1, <2>2, NoFieldAssumption
  <2>4. QED
    BY <1>2, <2>3 DEF Merged
<1>3. QED
  BY <1>1, <1>2 DEF News

\* The frame read is taken down for what it says.
LEMMA RecordSays ==
  ASSUME TapeInv, NEW f, f = tapeWire[1], IsTrueFrame(f), Record(f, Means(f)), tape' = tape,
         TickerFollows(tapeWire, asOf, 1),
         aggressor' = aggressor, bars' = bars
  PROVE  /\ RecordedIsTrue' /\ QuoteIsVenues' /\ KeptIsOver' /\ FundingIsVenues'
         /\ IsTicker(f) => asOf' = f.quote
         /\ ~ IsTicker(f) => asOf' = asOf
<1>1. TapeTypes /\ RecordedIsTrue /\ QuoteIsVenues /\ KeptIsOver /\ FundingIsVenues
  BY DEF TapeInv
<1> DEFINE msg == Means(f)
<1> HIDE DEF msg
<1>2. \A b, c : IsOver(b, c) => IsOver(b, c)'
  BY DEF IsOver
<1>3. /\ UNCHANGED recorded => RecordedIsTrue'
      /\ UNCHANGED <<shown, asOf>> => QuoteIsVenues'
      /\ UNCHANGED funding => FundingIsVenues'
      /\ UNCHANGED kept => KeptIsOver'
  <2>1. ASSUME UNCHANGED kept
        PROVE  KeptIsOver'
    <3>1. ASSUME NEW k \in kept, NEW b, NEW c, b = k.bar, c = k.close
          PROVE  IsOver(b, c)'
      BY <1>1, <1>2, <3>1 DEF KeptIsOver
    <3>2. QED
      BY <2>1, <3>1 DEF KeptIsOver
  <2>2. QED
    BY <1>1, <2>1 DEF RecordedIsTrue, QuoteIsVenues, FundingIsVenues
<1>4. Record(f, msg)
  BY DEF msg
<1>5. CASE msg.is = "Trade"
  <2>1. /\ recorded' = recorded \cup {[id |-> msg.trade_id, side |-> msg.side]}
        /\ UNCHANGED <<shown, asOf, kept, funding>>
    BY <1>4, <1>5 DEF Record
  <2>2. msg.trade_id \in 1 .. Len(aggressor) /\ aggressor[msg.trade_id] = msg.side
    BY <1>5 DEF msg, IsTrueFrame, IsTrade, IsQuote, IsTicker, IsCandle, IsFunding
  <2>3. RecordedIsTrue'
    <3>1. \A r \in recorded' : r \in recorded \/ (r.id = msg.trade_id /\ r.side = msg.side)
      BY <2>1
    <3>2. QED
      BY <1>1, <2>2, <3>1 DEF RecordedIsTrue
  <2>4. ~ IsTicker(f) /\ asOf' = asOf
    BY <1>5, <2>1 DEF IsTicker, msg
  <2>5. QED
    BY <1>3, <2>1, <2>3, <2>4
<1>6. CASE msg.is = "Ticker"
  <2>1. /\ shown' = [last |-> Merged("last", msg.price), bid |-> Merged("bid", msg.best_bid),
                     ask |-> Merged("ask", msg.best_ask)]
        /\ asOf' = f.quote
        /\ UNCHANGED <<recorded, kept, funding>>
    BY <1>4, <1>6 DEF Record
  <2>2. IsTicker(f) /\ f.quote \in Quotes
    BY <1>6 DEF IsTicker, msg, IsTrueFrame
  <2>3. IsQuote(f)
    BY <1>6 DEF msg, IsTrueFrame, IsTrade, IsQuote, IsTicker, IsCandle, IsFunding
  <2>4. PICK w, a, q : w = tapeWire /\ a = asOf /\ q = f.quote
    OBVIOUS
  <2>5. /\ News(w, a, 1, msg.best_bid, "bid") /\ News(w, a, 1, msg.best_ask, "ask")
        /\ tape \notin {"binance", "kucoin"} => News(w, a, 1, msg.price, "last")
    BY <2>2, <2>4 DEF TickerFollows, msg
  <2>6. a \in Quotes \cup {None} /\ q \in Quotes /\ q = w[1].quote
    BY <1>1, <2>2, <2>4 DEF TapeTypes
  <2>7. Merged("bid", msg.best_bid) = q.bid
    <3>1. a # None => shown["bid"] = a["bid"]
      BY <1>1, <2>4 DEF QuoteIsVenues
    <3>2. Merged("bid", msg.best_bid) = q["bid"]
      BY <2>5, <2>6, <3>1, MergeSays
    <3>3. QED
      BY <3>2
  <2>8. Merged("ask", msg.best_ask) = q.ask
    <3>1. a # None => shown["ask"] = a["ask"]
      BY <1>1, <2>4 DEF QuoteIsVenues
    <3>2. Merged("ask", msg.best_ask) = q["ask"]
      BY <2>5, <2>6, <3>1, MergeSays
    <3>3. QED
      BY <3>2
  <2>9. tape \notin {"binance", "kucoin"} => Merged("last", msg.price) = q.last
    <3>1. SUFFICES ASSUME tape \notin {"binance", "kucoin"}
                   PROVE  Merged("last", msg.price) = q.last
      OBVIOUS
    <3>2. a # None => shown["last"] = a["last"]
      BY <1>1, <2>4, <3>1 DEF QuoteIsVenues
    <3>3. Merged("last", msg.price) = q["last"]
      BY <2>5, <2>6, <3>1, <3>2, MergeSays
    <3>4. QED
      BY <3>3
  <2>10. tape = "kucoin" => /\ q.bid <= Merged("last", msg.price)
                            /\ Merged("last", msg.price) <= q.ask
    <3>1. SUFFICES ASSUME tape = "kucoin"
                   PROVE  q.bid <= Merged("last", msg.price) /\ Merged("last", msg.price) <= q.ask
      OBVIOUS
    <3>2. msg.price \in Nat /\ q.bid <= msg.price /\ msg.price <= q.ask
      BY <2>3, <2>4, <3>1 DEF IsQuote, msg
    <3>3. q.bid \in Nat \ {0}
      BY <2>6, QuotesAssumption
    <3>4. Merged("last", msg.price) = msg.price
      BY <3>2, <3>3 DEF Merged
    <3>5. QED
      BY <3>2, <3>4
  <2>11. QuoteIsVenues'
    <3>1. /\ shown'.last = Merged("last", msg.price) /\ shown'.bid = q.bid /\ shown'.ask = q.ask
          /\ asOf' = q
      BY <2>1, <2>4, <2>7, <2>8
    <3>2. QED
      BY <2>9, <2>10, <3>1 DEF QuoteIsVenues
  <2>12. QED
    BY <1>3, <2>1, <2>2, <2>11
<1>7. CASE msg.is = "Candle"
  <2>1. /\ kept' = kept \cup (IF msg.is_closed THEN {[bar |-> f.bar, close |-> msg.close]} ELSE {})
        /\ UNCHANGED <<recorded, shown, asOf, funding>>
    BY <1>4, <1>7 DEF Record
  <2>2. IsCandle(f)
    BY <1>7 DEF msg, IsTrueFrame, IsTrade, IsQuote, IsTicker, IsCandle, IsFunding
  <2>3. msg.is_closed => IsOver(f.bar, msg.close)
    BY <2>2 DEF IsCandle, msg
  <2>4. KeptIsOver'
    <3>1. ASSUME NEW k \in kept', NEW b, NEW c, b = k.bar, c = k.close
          PROVE  IsOver(b, c)'
      <4>1. k \in kept \/ (msg.is_closed /\ b = f.bar /\ c = msg.close)
        BY <2>1, <3>1
      <4>2. IsOver(b, c)
        BY <1>1, <2>3, <3>1, <4>1 DEF KeptIsOver
      <4>3. QED
        BY <1>2, <4>2
    <3>2. QED
      BY <3>1 DEF KeptIsOver
  <2>5. ~ IsTicker(f) /\ asOf' = asOf
    BY <1>7, <2>1 DEF IsTicker, msg
  <2>6. QED
    BY <1>3, <2>1, <2>4, <2>5
<1>8. CASE msg.is \in {"FundingRate", "InstrumentEvent"}
  <2>1. /\ funding' = [told |-> msg.funding_rate, venue |-> f.quote.rate]
        /\ UNCHANGED <<recorded, shown, asOf, kept>>
    BY <1>4, <1>8 DEF Record
  <2>2. msg.funding_rate = f.quote.rate \/ (msg.funding_rate = None /\ f.quote.rate = 0)
    BY <1>8 DEF msg, IsTrueFrame, IsTrade, IsQuote, IsTicker, IsCandle, IsFunding
  <2>3. FundingIsVenues'
    BY <2>1, <2>2 DEF FundingIsVenues
  <2>4. ~ IsTicker(f) /\ asOf' = asOf
    BY <1>8, <2>1 DEF IsTicker, msg
  <2>5. QED
    BY <1>3, <2>1, <2>3, <2>4
<1>9. QED
  BY <1>4, <1>5, <1>6, <1>7, <1>8 DEF Record

LEMMA ReadStep ==
  ASSUME TapeInv, ReadTape
  PROVE  TapeInv'
<1>1. TapeTypes /\ WireIsSequence /\ WireIsTrue /\ WireFollows
  BY DEF TapeInv
<1>2. PICK w, v, a, p, f : /\ w = tapeWire /\ v = tapeWire' /\ a = asOf /\ p = pushed
                           /\ f = tapeWire[1]
  OBVIOUS
<1>3. /\ w # <<>> /\ v = Tail(w) /\ Record(Head(w), Parse(tape, Head(w)))
      /\ tape' = tape /\ aggressor' = aggressor /\ quote' = quote /\ pushed' = pushed
      /\ bars' = bars
  BY <1>2 DEF ReadTape
<1>4. /\ \E S : v \in Seq(S)
      /\ Len(w) \in Nat \ {0} /\ Len(v) = Len(w) - 1 /\ Head(w) = w[1]
      /\ \A i \in 1 .. Len(v) : i + 1 \in 1 .. Len(w) /\ v[i] = w[i + 1]
  BY <1>1, <1>2, <1>3, WireShrinks DEF WireIsSequence
<1>5. 1 \in 1 .. Len(w) /\ f = w[1]
  BY <1>2, <1>4
<1>6. Record(f, Means(f))
  BY <1>3, <1>4, <1>5 DEF Means
<1>7. IsTrueFrame(f)
  BY <1>1, <1>2, <1>5 DEF WireIsTrue
<1>8. TickerFollows(tapeWire, asOf, 1)
  BY <1>1, <1>2, <1>5 DEF WireFollows, TickersFollow
<1>9. /\ RecordedIsTrue' /\ QuoteIsVenues' /\ KeptIsOver' /\ FundingIsVenues'
      /\ IsTicker(f) => asOf' = f.quote
      /\ ~ IsTicker(f) => asOf' = asOf
  BY <1>2, <1>3, <1>6, <1>7, <1>8, RecordSays
<1>10. TapeTypes'
  <2>1. asOf' \in Quotes \cup {None}
    BY <1>1, <1>7, <1>9 DEF TapeTypes, IsTrueFrame
  <2>2. QED
    BY <1>1, <1>3, <2>1 DEF TapeTypes
<1>11. WireIsSequence'
  BY <1>2, <1>4 DEF WireIsSequence
<1>12. WireIsTrue'
  <2>1. \A k \in 1 .. Len(aggressor) : k \in 1 .. Len(aggressor') /\ aggressor'[k] = aggressor[k]
    BY <1>3
  <2>2. \A b, c : IsOver(b, c) => IsOver(b, c)'
    BY <1>3 DEF IsOver
  <2>3. \A g : IsTrueFrame(g) => IsTrueFrame(g)'
    BY <1>3, <2>1, <2>2, FramesStayTrue
  <2>4. ASSUME NEW i \in 1 .. Len(v), NEW g, g = v[i]
        PROVE  IsTrueFrame(g)'
    BY <1>1, <1>2, <1>4, <2>3, <2>4 DEF WireIsTrue
  <2>5. QED
    BY <1>2, <2>4 DEF WireIsTrue
<1>13. WireFollows'
  <2>1. PICK b : b = asOf'
    OBVIOUS
  <2>2. /\ IsTicker(w[1]) => b = w[1].quote
        /\ ~ IsTicker(w[1]) => b = a
    BY <1>2, <1>5, <1>9, <2>1
  <2>3. TickersFollow(w, a) /\ (p # None => Before(w, a, Len(w) + 1, p))
    BY <1>1, <1>2 DEF WireFollows
  <2>4. TickersFollow(v, b)
    BY <1>4, <2>2, <2>3, FollowShrinks
  <2>5. p # None => Before(v, b, Len(v) + 1, p)
    <3>1. PICK n : n = Len(w)
      OBVIOUS
    <3>2. n \in 1 .. Len(w) /\ Len(v) + 1 = n
      BY <1>4, <3>1
    <3>3. \A i \in 1 .. Len(v) : v[i] = w[i + 1]
      BY <1>4
    <3>4. Before(w, a, n + 1, p) => Before(v, b, n, p)
      BY <1>4, <2>2, <3>2, <3>3, BeforeShrinks
    <3>5. QED
      BY <2>3, <3>1, <3>2, <3>4
  <2>6. TickersFollow(v, b)' /\ (p # None => Before(v, b, Len(v) + 1, p)')
    BY <1>3, <2>4, <2>5, TapeStays
  <2>7. QED
    BY <1>2, <1>3, <2>1, <2>6 DEF WireFollows
<1>14. QED
  BY <1>9, <1>10, <1>11, <1>12, <1>13 DEF TapeInv

-------------------------------------------------------------------------------
(* The theorem.                                                                    *)

LEMMA TapeStart == TapeInit => TapeInv
<1> SUFFICES ASSUME TapeInit
             PROVE  TapeInv
  OBVIOUS
<1>1. PICK c \in Closes : bars = <<c>>
  BY DEF TapeInit
<1>2. TapeTypes
  BY <1>1, TapesAssumption DEF TapeInit, TapeTypes
<1>3. WireIsSequence
  <2>1. tapeWire \in Seq({})
    BY DEF TapeInit
  <2>2. QED
    BY <2>1 DEF WireIsSequence
<1>4. Len(tapeWire) = 0
  BY DEF TapeInit
<1>5. WireIsTrue /\ WireFollows
  BY <1>4 DEF TapeInit, WireIsTrue, WireFollows, TickersFollow
<1>6. RecordedIsTrue /\ QuoteIsVenues /\ KeptIsOver /\ FundingIsVenues
  BY DEF TapeInit, RecordedIsTrue, QuoteIsVenues, KeptIsOver, FundingIsVenues
<1>7. QED
  BY <1>2, <1>3, <1>5, <1>6 DEF TapeInv

LEMMA TapeStepInv == TapeInv /\ [TapeNext]_tapeVars => TapeInv'
<1> SUFFICES ASSUME TapeInv, [TapeNext]_tapeVars
             PROVE  TapeInv'
  OBVIOUS
<1>1. CASE TradeHappens
  BY <1>1, TradeStep
<1>2. CASE QuoteMoves \/ BarMoves \/ UNCHANGED tapeVars
  BY <1>2, QuoteStep
<1>3. CASE PushTicker
  BY <1>3, TickerStep
<1>4. CASE PushFunding \/ PushKline
  BY <1>4, FrameStep
<1>5. CASE BarEnds
  BY <1>5, BarStep
<1>6. CASE Reconnect
  BY <1>6, ReconnectStep
<1>7. CASE ReadTape
  BY <1>7, ReadStep
<1>8. QED
  BY <1>1, <1>2, <1>3, <1>4, <1>5, <1>6, <1>7 DEF TapeNext

\* What the consumer makes of the public feed is what the venue did: each trade once
\* under the side that took, the quote merged out of full and partial tickers, only
\* candles that are over, the venue's funding rate; on every venue, however often the
\* feed reconnects (src/src/kucoin/ws.rs, src/src/bybit/ws.rs and the other parsers).
THEOREM TapeIsTold == TapeSpec => []TapeIsVenues
<1>1. TapeInv => TapeIsVenues
  <2> SUFFICES ASSUME TapeInv
               PROVE  TapeIsVenues
    OBVIOUS
  <2>1. TapeTypes /\ RecordedIsTrue /\ QuoteIsVenues /\ KeptIsOver /\ FundingIsVenues
    BY DEF TapeInv
  <2>2. DOMAIN aggressor = 1 .. Len(aggressor) /\ Len(bars) \in Nat
    BY <2>1 DEF TapeTypes
  <2>3. TradesAreVenues
    BY <2>1, <2>2 DEF RecordedIsTrue, TradesAreVenues
  <2>4. ClosedIsFinal
    BY <2>1, <2>2 DEF KeptIsOver, IsOver, ClosedIsFinal
  <2>5. QED
    BY <2>1, <2>3, <2>4 DEF TapeIsVenues
<1>2. QED
  BY TapeStart, TapeStepInv, <1>1, PTL DEF TapeSpec
================================================================================
