------------------------------ MODULE AccountFeed ------------------------------
(* The private feed of one order: the reports each venue pushes on a fill and on   *)
(* the end of the order, what the connectors make of them, and a consumer that     *)
(* keeps the contract in the documentation of OrderUpdate (src/src/actors.rs).     *)
(*                                                                                 *)
(* Frames of one topic arrive in order, topics in any order relative to each       *)
(* other.  What happens while the feed is down is not pushed later, except that a  *)
(* venue may replay past executions when the feed subscribes again.                *)
EXTENDS Connectors, FiniteSets

CONSTANTS Accounts,   \* the venues considered
          Size,       \* size of the order
          MaxJoins    \* bound on the sessions of the feed

AllAccounts == {"binance", "kraken", "bybit", "cryptocom", "kucoin"}

ASSUME AccountsAssumption == Accounts \subseteq AllAccounts
ASSUME OrderAssumption == Size \in Nat \ {0} /\ MaxJoins \in Nat
ASSUME NoMatchAssumption == None \notin Int

VARIABLES
  account,     \* the venue
  direction,   \* 1 for a buy, -1 for a sell
  filled,      \* executions so far, one unit each
  ended,       \* "no", "filled" or "canceled"
  joined,      \* sessions so far
  subscribed,  \* the session is up
  queue,       \* per topic, frames pushed and not yet read
  lost,        \* a report never reached the consumer
  executions,  \* the executions whose report did
  seen,        \* trade_ids the consumer has counted
  counted,     \* their match_size, added up
  told,        \* status and filled_size by rule 3 of the contract
  position,    \* the last current_qty
  balance      \* the last available and held balance

accountVars == <<account, direction, filled, ended, joined, subscribed, queue, lost,
                 executions, seen, counted, told, position, balance>>
consumerVars == <<executions, seen, counted, told, position, balance>>

(* Venues whose fills come on a topic of their own. *)
Split == {"bybit", "cryptocom"}

OrderTopic == [binance |-> "executionReport", kraken |-> "executions", bybit |-> "order",
               cryptocom |-> "user.order", kucoin |-> "tradeOrders"]

FillTopic == [OrderTopic EXCEPT !.bybit = "execution", !.cryptocom = "user.trade"]

BalanceTopic == [binance |-> "outboundAccountPosition", kraken |-> "balances",
                 bybit |-> "wallet", cryptocom |-> "user.balance", kucoin |-> "wallet"]

Topics == {OrderTopic[account], FillTopic[account], BalanceTopic[account], "position"}

---------------------------------------------------------------------------------
(* The venue *)

StatusWords ==
  [binance   |-> [partial |-> "PARTIALLY_FILLED", filled |-> "FILLED", canceled |-> "CANCELED"],
   kraken    |-> [partial |-> "partially_filled", filled |-> "filled", canceled |-> "canceled"],
   bybit     |-> [partial |-> "PartiallyFilled", filled |-> "Filled", canceled |-> "Cancelled"],
   cryptocom |-> [partial |-> "ACTIVE", filled |-> "FILLED", canceled |-> "CANCELED"]]

Word(cum, canceled) ==
  LET words == StatusWords[account]
  IN  IF canceled THEN words.canceled ELSE IF cum = Size THEN words.filled ELSE words.partial

KucoinReport(status, cum, match, id) ==
  [status |-> status, size |-> Size, filledSize |-> cum, remainSize |-> Size - cum,
   matchSize |-> match, tradeId |-> id]

(* The reports of execution number `cum`, which is also its ID. *)
FillReport(cum) ==
  CASE account = "binance" ->
         [X |-> Word(cum, FALSE), x |-> "TRADE", q |-> Size, z |-> cum, l |-> 1, t |-> cum]
    [] account = "kraken" ->
         [order_status |-> Word(cum, FALSE), exec_type |-> "trade", order_qty |-> Size,
          cum_qty |-> cum, last_qty |-> 1, exec_id |-> cum, order_id |-> 0]
    [] account = "bybit" -> [orderQty |-> Size, execQty |-> 1, execId |-> cum]
    [] account = "cryptocom" -> [traded_quantity |-> 1, trade_id |-> cum]
    [] account = "kucoin" -> KucoinReport("match", cum, 1, cum)

(* The order's own report; only split venues send it on a fill that leaves the     *)
(* order open, and KuCoin sends one once the order is done.                        *)
OrderReport(cum, canceled) ==
  CASE account = "binance" ->
         [X |-> Word(cum, canceled), x |-> "CANCELED", q |-> Size, z |-> cum, l |-> 0, t |-> -1]
    [] account = "kraken" ->
         [order_status |-> Word(cum, canceled), exec_type |-> "canceled", order_qty |-> Size,
          cum_qty |-> cum, last_qty |-> None, exec_id |-> None, order_id |-> 0]
    [] account = "bybit" ->
         [orderStatus |-> Word(cum, canceled), qty |-> Size, cumExecQty |-> cum,
          leavesQty |-> Size - cum]
    [] account = "cryptocom" ->
         [status |-> Word(cum, canceled), quantity |-> Size, cumulative_quantity |-> cum]
    [] account = "kucoin" -> KucoinReport("done", cum, None, None)

\* The account starts with Size units of funds; the open order holds its share.
Held(cum, over) == IF over THEN 0 ELSE Size - cum
Free(cum, over) == Size - cum - Held(cum, over)

BalanceReport(cum, over) ==
  LET free == Free(cum, over)  held == Held(cum, over)
  IN CASE account = "binance"   -> [f |-> free, l |-> held]
       [] account = "kraken"    -> [balance |-> free + held]
       [] account = "bybit"     -> [availableToWithdraw |-> free, locked |-> held]
       [] account = "cryptocom" -> [max_withdrawal_balance |-> free, quantity |-> free + held,
                                    reserved_qty |-> held]
       [] account = "kucoin"    -> [availableBalance |-> free, holdBalance |-> held]

PositionReport(cum) ==
  IF account = "bybit"
  THEN [side |-> IF direction = 1 THEN "Buy" ELSE "Sell", size |-> cum]
  ELSE [currentQty |-> direction * cum]

\* `execution` names the execution a frame reports, 0 when it reports none.
Report(topic, execution, data) ==
  [topic |-> topic, type |-> None, execution |-> execution, data |-> data]

(* What an event adds to each topic. *)
Reports(t, cum, isFill, over) ==
  (IF t = FillTopic[account] /\ isFill THEN <<Report(t, cum, FillReport(cum))>> ELSE <<>>)
  \o (IF t = OrderTopic[account] /\ (account \in Split \/ ~ isFill \/ (account = "kucoin" /\ over))
      THEN <<Report(t, 0, OrderReport(cum, ~ isFill))>> ELSE <<>>)
  \o (IF t = BalanceTopic[account] THEN <<Report(t, 0, BalanceReport(cum, over))>> ELSE <<>>)
  \o (IF t = "position" /\ isFill /\ account \in {"bybit", "kucoin"}
      THEN <<Report(t, 0, PositionReport(cum))>> ELSE <<>>)

PushReports(cum, isFill, over) ==
  IF subscribed
  THEN queue' = [t \in Topics |-> queue[t] \o Reports(t, cum, isFill, over)] /\ UNCHANGED lost
  ELSE lost' = TRUE /\ UNCHANGED queue

Fill ==
  /\ ended = "no"
  /\ filled' = filled + 1
  /\ ended' = IF filled' = Size THEN "filled" ELSE "no"
  /\ PushReports(filled', TRUE, filled' = Size)
  /\ UNCHANGED <<account, direction, joined, subscribed, consumerVars>>

Cancel ==
  /\ ended = "no"
  /\ ended' = "canceled"
  /\ PushReports(filled, FALSE, TRUE)
  /\ UNCHANGED <<account, direction, filled, joined, subscribed, consumerVars>>

Join ==
  /\ ~ subscribed
  /\ joined < MaxJoins
  /\ subscribed' = TRUE
  /\ joined' = joined + 1
  /\ \E replayed \in 0 .. filled :
       queue' = [queue EXCEPT ![FillTopic[account]] =
                   [i \in 1 .. replayed |-> Report(FillTopic[account], i, FillReport(i))]]
  /\ UNCHANGED <<account, direction, filled, ended, lost, consumerVars>>

Leave ==
  /\ subscribed
  /\ subscribed' = FALSE
  /\ lost' = (lost \/ \E t \in Topics : queue[t] # <<>>)
  /\ queue' = [t \in Topics |-> <<>>]
  /\ UNCHANGED <<account, direction, filled, ended, joined, consumerVars>>

---------------------------------------------------------------------------------
(* The consumer *)

\* Rule 2 of the contract: count fills by trade_id.
CountFill(u) ==
  IF u.match_size # None /\ u.trade_id # None /\ u.trade_id \notin seen
  THEN seen' = seen \cup {u.trade_id} /\ counted' = counted + u.match_size
  ELSE UNCHANGED <<seen, counted>>

\* Rule 3, the order's life from events without match fields, where the venue
\* has such events for all of it; from every event on the other venues.
FollowOrder(u) ==
  IF account \in Split /\ u.match_size # None
  THEN UNCHANGED told
  ELSE told' = [status |-> u.status, filled |-> u.filled_size]

Consume(u) ==
  \/ u.is = "OrderUpdate" /\ CountFill(u) /\ FollowOrder(u) /\ UNCHANGED <<position, balance>>
  \/ u.is = "PositionChange" /\ position' = u.current_qty
     /\ UNCHANGED <<seen, counted, told, balance>>
  \/ u.is = "BalanceUpdate"
     /\ balance' = [available |-> u.available_balance, held |-> u.hold_balance]
     /\ UNCHANGED <<seen, counted, told, position>>

ReadReport(t) ==
  /\ t \in Topics
  /\ queue[t] # <<>>
  /\ LET frame == Head(queue[t])
     IN /\ Consume(ParsePrivate(account, frame))
        /\ executions' = executions \cup ({frame.execution} \ {0})
  /\ queue' = [queue EXCEPT ![t] = Tail(@)]
  /\ UNCHANGED <<account, direction, filled, ended, joined, subscribed, lost>>

AccountInit ==
  /\ account \in Accounts
  /\ direction \in {1, -1}
  /\ filled = 0 /\ ended = "no"
  /\ joined = 0 /\ subscribed = FALSE
  /\ queue = [t \in Topics |-> <<>>]
  /\ lost = FALSE
  /\ executions = {} /\ seen = {} /\ counted = 0
  /\ told = [status |-> "open", filled |-> 0]
  /\ position = 0
  /\ balance = [available |-> Free(0, FALSE), held |-> Held(0, FALSE)]

AccountNext ==
  \/ Fill \/ Cancel \/ Join \/ Leave
  \/ \E t \in {"executionReport", "outboundAccountPosition", "executions", "balances", "order",
               "execution", "position", "wallet", "user.order", "user.trade", "user.balance",
               "tradeOrders"} : ReadReport(t)

AccountSpec == AccountInit /\ [][AccountNext]_accountVars

---------------------------------------------------------------------------------
(* Properties *)

\* A fill is counted once, and every execution reported to the consumer is
\* counted, whatever is replayed after a reconnect and whichever topic is
\* ahead: trade_id names the execution on every venue.
ExecutionsCountedOnce == counted = Cardinality(executions)

\* KuCoin's own words reach the consumer.
Status ==
  IF account = "kucoin"
  THEN IF ended # "no" THEN "done" ELSE IF filled > 0 THEN "match" ELSE "open"
  ELSE IF ended # "no" THEN ended ELSE IF filled > 0 THEN "partialFilled" ELSE "open"

Drained == subscribed /\ \A t \in Topics : queue[t] = <<>>

\* An order reported as over is over, in the way reported, whatever was lost.
EndIsReal ==
  told.status \in {"filled", "canceled", "done"} => ended # "no" /\ told.status = Status

\* Once everything pushed was read and nothing was lost, the consumer knows the
\* order, the position and the balance, in whatever order the topics were read;
\* a fill event read after the final state does not undo it.  Kraken's balance
\* is the total; replays on the venues with one stream also replay statuses.
ConsumerCatchesUp ==
  Drained /\ ~ lost =>
    /\ account \in Split \/ joined = 1 => told = [status |-> Status, filled |-> filled]
    /\ account \in {"bybit", "kucoin"} => position = direction * filled
    /\ account # "kraken" =>
         balance = [available |-> Free(filled, ended # "no"), held |-> Held(filled, ended # "no")]
    /\ account = "kraken" => balance.available + balance.held = Size - filled

AccountIsTold == EndIsReal /\ ConsumerCatchesUp
=================================================================================
