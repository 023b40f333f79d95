------------------------------- MODULE Endpoints -------------------------------
(* What one call of each REST method asks of its venue, as far as a retry can    *)
(* tell: the set of requests the method may make, over its arguments.  Wire      *)
(* names, bodies and response types are left out.                                *)
EXTENDS TLC

(* A request that reads, or whose repetition changes nothing more (a cancel, a   *)
(* setting); one that acts again each time it is executed, under no client key   *)
(* ("none"), a key minted inside the method ("minted"), or the caller's key      *)
(* ("given"); and a method that answers from its arguments without a request.    *)
Query     == [kind |-> "query", key |-> "none"]
Setting   == [kind |-> "setting", key |-> "none"]
Act(key)  == [kind |-> "act", key |-> key]
NoRequest == [kind |-> "local", key |-> "none"]

Methods(names, requests) == [name \in names |-> requests]

KucoinPlacing ==
  "place_order" :> {Act("minted"), NoRequest} @@
  "place_order_with_client_oid" :> {Act("given"), NoRequest} @@
  "close_position" :> {Act("minted"), NoRequest} @@
  "close_position_with_client_oid" :> {Act("given"), NoRequest}

KucoinOrders ==
  Methods({"get_order_by_client_oid", "get_open_orders", "get_order", "get_recent_fills"}, {Query}) @@
  Methods({"cancel_order", "cancel_all_orders"}, {Setting})

KucoinStops ==
  "place_stop_order" :> {Act("minted")} @@
  "place_stop_order_with_client_oid" :> {Act("given")} @@
  Methods({"cancel_stop_order", "cancel_all_stop_orders"}, {Setting}) @@
  Methods({"get_open_stop_orders", "get_done_orders"}, {Query})

KucoinSizing == "calc_contracts" :> {Query, NoRequest}

KucoinMargin ==
  "place_margin_order" :> {Act("minted")} @@ "cancel_margin_order" :> {Setting} @@
  Methods({"get_margin_order", "get_margin_fills", "get_margin_balance"}, {Query})

KucoinAccount ==
  Methods({"get_balance", "get_account_overview", "get_position", "get_all_positions",
           "get_risk_limit_levels", "get_funding_history"}, {Query}) @@
  Methods({"set_auto_deposit", "set_margin_mode", "set_risk_limit_level"}, {Setting})

KucoinTransfers ==
  Methods({"transfer_to_main", "transfer_to_futures", "add_position_margin"}, {Act("none")}) @@
  Methods({"get_transfer_list", "get_account_overview_all"}, {Query})

KucoinUta == Methods({"get_uta_account_summary", "get_cross_margin_accounts",
                      "get_isolated_margin_accounts"}, {Query})

KucoinMarketData == Methods({"get_orderbook_snapshot", "get_funding_rate", "get_mark_price",
                             "get_active_contracts", "get_contract", "get_ticker",
                             "get_server_time"}, {Query})

\* fetch_klines_extended is modelled by KlinePages.
KucoinKlines == Methods({"fetch_klines", "fetch_klines_extended"}, {Query})

\* A fresh token does not invalidate an older one.
KucoinTokens == Methods({"get_ws_token_private", "get_ws_token_public"}, {Setting})

KrakenAccount == Methods({"get_balance", "get_open_orders", "get_closed_orders"}, {Query}) @@
                 "get_websockets_token" :> {Setting}

\* validate = true checks an order without placing it.
KrakenOrders ==
  "place_order" :> {Act("none")} @@
  "place_order_with" :> {Act("none"), Act("given"), Query} @@
  Methods({"cancel_order", "cancel_all_orders"}, {Setting})

KrakenHistory ==
  Methods({"get_trades_history", "get_ledger", "get_ledgers", "get_trade_volume",
           "get_withdrawal_status"}, {Query}) @@
  "withdraw" :> {Act("none")}

CryptocomOrders ==
  Methods({"get_account_summary", "get_user_balance"}, {Query}) @@
  "place_order" :> {Act("none")} @@
  Methods({"cancel_order", "cancel_all_orders"}, {Setting})

CryptocomFunds ==
  Methods({"get_open_orders", "get_order_detail", "get_trades", "get_deposit_address",
           "get_withdrawal_history"}, {Query}) @@
  "create_withdrawal" :> {Act("none")}

BybitPrivate ==
  "place_order" :> {Act("none"), Act("given")} @@ "cancel_order" :> {Setting} @@
  Methods({"get_open_orders", "get_positions", "get_wallet_balance"}, {Query})

BinanceSigned == "get_account" :> {Query} @@ "place_order" :> {Act("none")}

ListenKeys == Methods({"create_listen_key", "keepalive_listen_key", "close_listen_key"}, {Setting})

KrakenPublic == Methods({"get_system_status", "get_assets", "get_asset_pairs", "get_ticker",
                         "get_orderbook", "get_ohlc", "get_recent_trades", "get_spread"}, {Query})

BybitMarket == Methods({"get_klines", "get_orderbook", "get_tickers", "get_recent_trades",
                        "get_instruments"}, {Query})
BybitDerivatives == Methods({"get_funding_rate", "get_open_interest", "get_long_short_ratio"}, {Query})

BinanceSpot == Methods({"get_klines", "get_orderbook", "get_recent_trades", "get_ticker",
                        "get_ticker_24h", "get_exchange_info"}, {Query})
BinanceFutures == Methods({"get_futures_klines", "get_futures_funding_rate",
                           "get_futures_mark_price", "get_futures_open_interest"}, {Query})

CryptocomPublic == Methods({"get_instruments", "get_orderbook", "get_candlestick", "get_ticker",
                            "get_recent_trades", "get_valuations"}, {Query})

(* The methods of each client type. *)
MethodsOf ==
  [kucoin    |-> KucoinPlacing @@ KucoinOrders @@ KucoinStops @@ KucoinSizing @@ KucoinMargin @@
                 KucoinAccount @@ KucoinTransfers @@ KucoinUta @@ KucoinMarketData @@ KucoinKlines @@
                 KucoinTokens,
   kraken    |-> KrakenAccount @@ KrakenOrders @@ KrakenHistory,
   cryptocom |-> CryptocomOrders @@ CryptocomFunds,
   bybit     |-> BybitPrivate,
   binance   |-> BinanceSigned,
   listenkey |-> ListenKeys,
   public    |-> KrakenPublic @@ BybitMarket @@ BybitDerivatives @@ BinanceSpot @@
                 BinanceFutures @@ CryptocomPublic]

Clients == DOMAIN MethodsOf

(* The requests a client's methods make. *)
Requests(client) == UNION {MethodsOf[client][m] : m \in DOMAIN MethodsOf[client]}
=============================================================================
