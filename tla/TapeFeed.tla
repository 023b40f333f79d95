------------------------------- MODULE TapeFeed -------------------------------
(* A venue's public trades, quotes and candles, the frames that carry them, what  *)
(* the connectors make of the frames, and a consumer that records the trades by   *)
(* trade_id, takes a 0.0 in a ticker for "no news" and keeps the candles flagged  *)
(* is_closed (src/src/actors.rs: "Skip non-closed candles if you only need        *)
(* finalised bars").                                                              *)
EXTENDS Connectors

CONSTANTS Tapes,     \* the venues considered
          Quotes,    \* the quotes [last, bid, ask, rate] the venue may show
          Closes,    \* the closing prices a bar may have
          MaxTrades, MaxBars, MaxTapeWire  \* bounds

AllTapes == {"binance", "bybit", "okx", "coinbase", "kraken", "cryptocom", "kucoin"}

ASSUME TapesAssumption  == Tapes \subseteq AllTapes
ASSUME QuotesAssumption ==
  \A q \in Quotes : /\ q.last \in Nat \ {0} /\ q.bid \in Nat \ {0} /\ q.ask \in Nat
                    /\ q.bid <= q.ask
                    /\ q.rate \in Int
ASSUME NoFieldAssumption == None \notin Int /\ None \notin Quotes
ASSUME TapeBoundsAssumption == MaxTrades \in Nat /\ MaxBars \in Nat /\ MaxTapeWire \in Nat

VARIABLES
  tape,      \* the venue
  aggressor, \* aggressor[i] is the side that took in trade number i
  quote,     \* the venue's quote
  pushed,    \* the quote of the last ticker frame of this session, None before
  bars,      \* the close of each bar so far; the last bar is still forming
  tapeWire,  \* frames pushed and not yet read
  recorded,  \* consumer: trades as {[id, side]}
  shown,     \* consumer: the quote, merged over ticker frames
  asOf,      \* the quote the last ticker frame read was made from
  kept,      \* consumer: candles flagged closed, as {[bar, close]}
  funding    \* consumer: the last funding rate, and the venue's own beside it

tapeVars == <<tape, aggressor, quote, pushed, bars, tapeWire, recorded, shown, asOf, kept,
              funding>>
tapeConsumer == <<recorded, shown, asOf, kept, funding>>

Candlestick == {"binance", "bybit", "kraken", "cryptocom"}

-------------------------------------------------------------------------------
(* The venue's frames *)

TradeFrame(id, side) ==
  CASE tape = "binance"   -> [topic |-> "aggTrade",      data |-> [a |-> id, m |-> side = "sell"]]
    [] tape = "bybit"     -> [topic |-> "publicTrade",   data |-> [i |-> id, S |-> side]]
    [] tape = "okx"       -> [topic |-> "trades",        data |-> [tradeId |-> id, side |-> side]]
    [] tape = "coinbase"  -> [topic |-> "market_trades", data |-> [trade_id |-> id, side |-> side]]
    [] tape = "kraken"    -> [topic |-> "trade",         data |-> [trade_id |-> id, side |-> side]]
    [] tape = "cryptocom" -> [topic |-> "trade",         data |-> [d |-> id, s |-> side]]
    [] tape = "kucoin"    -> [topic |-> "execution",
                              data |-> [tradeId |-> id, makerOrderId |-> 0, side |-> side]]

\* A field of a delta that did not change is left out.
Changed(field) == IF pushed # None /\ pushed[field] = quote[field] THEN None ELSE quote[field]

TickerFrame ==
  CASE tape = "binance"   -> [topic |-> "bookTicker", data |-> [b |-> quote.bid, a |-> quote.ask]]
    [] tape = "bybit"     -> [topic |-> "tickers",
                              data |-> [lastPrice |-> Changed("last"), bid1Price |-> Changed("bid"),
                                        ask1Price |-> Changed("ask")]]
    [] tape = "okx"       -> [topic |-> "tickers", data |-> [last |-> quote.last,
                                        bidPx |-> quote.bid, askPx |-> quote.ask]]
    [] tape = "coinbase"  -> [topic |-> "ticker", data |-> [price |-> quote.last,
                                        best_bid |-> quote.bid, best_ask |-> quote.ask]]
    [] tape = "kraken"    -> [topic |-> "ticker", data |-> [last |-> quote.last,
                                        bid |-> quote.bid, ask |-> quote.ask]]
    [] tape = "cryptocom" -> [topic |-> "ticker", data |-> [a |-> quote.last,
                                        b |-> quote.bid, k |-> quote.ask]]
    [] tape = "kucoin"    -> [topic |-> "tickerV2", data |-> [price |-> None,
                                        bestBid |-> quote.bid, bestAsk |-> quote.ask]]

FundingFrame ==
  CASE tape = "binance" -> [topic |-> "markPriceUpdate", data |-> [r |-> quote.rate, p |-> quote.last]]
    [] tape = "kucoin"  -> [topic |-> "instrument", data |-> [fundingRate |-> quote.rate,
                                        markPrice |-> quote.last]]

KlineFrame(close, over) ==
  CASE tape = "binance"   -> [topic |-> "kline",       data |-> [c |-> close, x |-> over]]
    [] tape = "bybit"     -> [topic |-> "kline",       data |-> [close |-> close, confirm |-> over]]
    [] tape = "kraken"    -> [topic |-> "ohlc",        data |-> [close |-> close]]
    [] tape = "cryptocom" -> [topic |-> "candlestick", data |-> [c |-> close]]

\* Ghosts: the quote a ticker was made from, the bar a candle belongs to.
OnTape(frame) ==
  [topic |-> frame.topic, data |-> frame.data, type |-> None, quote |-> quote, bar |-> Len(bars)]

Sent(frame) == Append(tapeWire, OnTape(frame))

Room == Len(tapeWire) < MaxTapeWire

TradeHappens ==
  /\ Room
  /\ Len(aggressor) < MaxTrades
  /\ \E side \in {"buy", "sell"} :
       /\ aggressor' = Append(aggressor, side)
       /\ tapeWire' = Sent(TradeFrame(Len(aggressor) + 1, side))
  /\ UNCHANGED <<tape, quote, pushed, bars, tapeConsumer>>

QuoteMoves ==
  /\ quote' \in Quotes
  /\ UNCHANGED <<tape, aggressor, pushed, bars, tapeWire, tapeConsumer>>

PushTicker ==
  /\ Room
  /\ tapeWire' = Sent(TickerFrame)
  /\ pushed' = quote
  /\ UNCHANGED <<tape, aggressor, quote, bars, tapeConsumer>>

PushFunding ==
  /\ tape \in {"binance", "kucoin"}
  /\ Room
  /\ tapeWire' = Sent(FundingFrame)
  /\ UNCHANGED <<tape, aggressor, quote, pushed, bars, tapeConsumer>>

BarMoves ==
  /\ tape \in Candlestick
  /\ \E c \in Closes : bars' = [bars EXCEPT ![Len(bars)] = c]
  /\ UNCHANGED <<tape, aggressor, quote, pushed, tapeWire, tapeConsumer>>

PushKline ==
  /\ tape \in Candlestick
  /\ Room
  /\ tapeWire' = Sent(KlineFrame(bars[Len(bars)], FALSE))
  /\ UNCHANGED <<tape, aggressor, quote, pushed, bars, tapeConsumer>>

BarEnds ==
  /\ tape \in Candlestick
  /\ Room
  /\ Len(bars) < MaxBars
  /\ tapeWire' = Sent(KlineFrame(bars[Len(bars)], TRUE))
  /\ \E c \in Closes : bars' = Append(bars, c)
  /\ UNCHANGED <<tape, aggressor, quote, pushed, tapeConsumer>>

\* The wire is lost; the next session opens with past trades and a full ticker.
Reconnect ==
  /\ tapeWire' = [i \in 1 .. (IF Len(aggressor) > 0 /\ MaxTapeWire > 0 THEN 1 ELSE 0) |->
                    OnTape(TradeFrame(Len(aggressor), aggressor[Len(aggressor)]))]
  /\ pushed' = None
  /\ UNCHANGED <<tape, aggressor, quote, bars, tapeConsumer>>

-------------------------------------------------------------------------------
(* The consumer *)

Merged(field, news) == IF news = 0 THEN shown[field] ELSE news

Record(frame, msg) ==
  \/ /\ msg.is = "Trade"
     /\ recorded' = recorded \cup {[id |-> msg.trade_id, side |-> msg.side]}
     /\ UNCHANGED <<shown, asOf, kept, funding>>
  \/ /\ msg.is = "Ticker"
     /\ shown' = [last |-> Merged("last", msg.price), bid |-> Merged("bid", msg.best_bid),
                  ask |-> Merged("ask", msg.best_ask)]
     /\ asOf' = frame.quote
     /\ UNCHANGED <<recorded, kept, funding>>
  \/ /\ msg.is = "Candle"
     /\ kept' = kept \cup (IF msg.is_closed THEN {[bar |-> frame.bar, close |-> msg.close]} ELSE {})
     /\ UNCHANGED <<recorded, shown, asOf, funding>>
  \/ /\ msg.is \in {"FundingRate", "InstrumentEvent"}
     /\ funding' = [told |-> msg.funding_rate, venue |-> frame.quote.rate]
     /\ UNCHANGED <<recorded, shown, asOf, kept>>

ReadTape ==
  /\ tapeWire # <<>>
  /\ Record(Head(tapeWire), Parse(tape, Head(tapeWire)))
  /\ tapeWire' = Tail(tapeWire)
  /\ UNCHANGED <<tape, aggressor, quote, pushed, bars>>

TapeInit ==
  /\ tape \in Tapes
  /\ aggressor = <<>>
  /\ quote \in Quotes
  /\ pushed = None
  /\ bars \in {<<c>> : c \in Closes}
  /\ tapeWire = <<>>
  /\ recorded = {} /\ kept = {}
  /\ shown = [last |-> 0, bid |-> 0, ask |-> 0] /\ asOf = None
  /\ funding = [told |-> None, venue |-> 0]

TapeNext ==
  \/ TradeHappens \/ QuoteMoves \/ PushTicker \/ PushFunding \/ BarMoves \/ PushKline \/ BarEnds
  \/ Reconnect \/ ReadTape

TapeSpec == TapeInit /\ [][TapeNext]_tapeVars

-------------------------------------------------------------------------------
(* Properties *)

\* A trade is recorded once, under the side that took, however often it comes.
TradesAreVenues ==
  \A r \in recorded : r.id \in DOMAIN aggressor /\ aggressor[r.id] = r.side

\* The quote a consumer merges out of full and partial tickers is the venue's
\* quote, and so is the last price where the venue sends one; KuCoin's stand-in
\* for it lies within the quote.
QuoteIsVenues ==
  asOf # None => /\ shown.bid = asOf.bid /\ shown.ask = asOf.ask
                 /\ tape \notin {"binance", "kucoin"} => shown.last = asOf.last
                 /\ tape = "kucoin" => asOf.bid <= shown.last /\ shown.last <= asOf.ask

\* A candle taken for closed is over and no longer changes.
ClosedIsFinal == \A k \in kept : k.bar < Len(bars) /\ bars[k.bar] = k.close

\* The funding rate told is the venue's; KuCoin's rate of zero is told as none.
FundingIsVenues ==
  funding.told = funding.venue \/ (funding.told = None /\ funding.venue = 0)

TapeIsVenues == TradesAreVenues /\ QuoteIsVenues /\ ClosedIsFinal /\ FundingIsVenues
===============================================================================
