-------------------------------- MODULE BookFeed --------------------------------
(* One (exchange, symbol) book stream: the venue's updates, the frames it pushes   *)
(* over successive sessions, the connector's parse_message, and the LocalOrderBook *)
(* they are applied to, re-seeded by REST where the stream itself never sends a    *)
(* snapshot.                                                                       *)
(*                                                                                 *)
(* A frame carries the venue's own ID fields, and, for the properties only, the    *)
(* range of updates (from, to) it stands for.  Frames of a session arrive in       *)
(* order; one that parse_message refuses is logged and skipped by the feed runner; *)
(* a lost connection loses what is on the wire.  run_feed tells its consumer       *)
(* nothing of a reconnect, so the book lives on across sessions.                   *)
EXTENDS LocalOrderBook, Sequences
Venue == INSTANCE Connectors WITH None <- NoId

CONSTANTS Streams,     \* the kinds of stream considered
          MaxSessions, \* bound on the sessions of the feed
          MaxWire      \* bound on the frames on the wire

AllStreams == {"binance_diff", "binance_depth20", "bybit", "okx", "cryptocom_delta",
               "cryptocom", "kraken", "coinbase", "kucoin_level2", "kucoin_depth"}

ASSUME StreamsAssumption == Streams \subseteq AllStreams
ASSUME BooksAssumption   == Books # {}
ASSUME MarksAssumption   == NoId \notin {"snapshot", "update"}
ASSUME FeedBoundsAssumption == MaxSessions \in Nat /\ MaxWire \in Nat

VARIABLES
  stream,    \* the subscription: venue and channel
  online,    \* the session is up
  sessions,  \* sessions so far
  sent,      \* last update the venue pushed in this session
  wire,      \* frames pushed and not yet read
  fetched,   \* REST snapshot read and not yet applied
  contains,  \* the last update whose frame reached the synced book
  missed     \* since the last snapshot an update never reached it

feedVars == <<stream, online, sessions, sent, wire, fetched, contains, missed>>
allVars  == <<vars, feedVars>>

\* One LocalOrderBook per stream.
Book == CHOOSE b \in Books : TRUE

(* Streams that stamp update IDs; that open with a snapshot; whose snapshots come  *)
(* by REST; whose every frame is the whole book; with one ID, so one update, each. *)
Stamped    == {"binance_diff", "binance_depth20", "bybit", "okx", "cryptocom_delta",
               "kucoin_level2"}
Opening    == {"bybit", "okx", "cryptocom_delta", "cryptocom", "kraken", "coinbase"}
Fetching   == {"binance_diff", "kucoin_level2"}
Whole      == {"binance_depth20", "kucoin_depth"}
OneUpdate  == {"bybit", "kucoin_level2"}

Exchange ==
  CASE stream \in {"binance_diff", "binance_depth20"}   -> "binance"
    [] stream \in {"cryptocom_delta", "cryptocom"}      -> "cryptocom"
    [] stream \in {"kucoin_level2", "kucoin_depth"}     -> "kucoin"
    [] OTHER -> stream

Topic ==
  CASE stream = "binance_diff"  -> "depthUpdate"
    [] stream = "binance_depth20" -> "depth20"
    [] stream = "bybit"         -> "orderbook"
    [] stream = "okx"           -> "books"
    [] stream \in {"cryptocom_delta", "cryptocom", "kraken"} -> "book"
    [] stream = "coinbase"      -> "l2_data"
    [] stream = "kucoin_level2" -> "level2"
    [] stream = "kucoin_depth"  -> "level2Depth"

---------------------------------------------------------------------------------
(* The venue *)

OneLevel(state) == {k \in Levels : state[k] # history[head][k]}

VenueUpdates ==
  /\ ExchangeUpdates
  /\ stream = "kucoin_level2" => \E k \in Levels : OneLevel(history'[head']) = {k}
  /\ UNCHANGED feedVars

\* The levels a frame lists.
Rows(type, from, to) ==
  IF type = "snapshot" THEN history[to] ELSE [k \in Touched(from, to) |-> history[to][k]]

\* The one level an update of KuCoin's incremental channel changes.
Change(to) == CHOOSE k \in Levels : k \in Touched(to, to)

Data(type, from, to) ==
  LET rows == Rows(type, from, to)
  IN CASE stream = "binance_diff"    -> [U |-> from, u |-> to, rows |-> rows]
       [] stream = "binance_depth20" -> [lastUpdateId |-> to, rows |-> rows]
       [] stream = "bybit"           -> [u |-> to, rows |-> rows]
       [] stream = "okx" ->
            [prevSeqId |-> IF type = "snapshot" THEN -1 ELSE from - 1, seqId |-> to, rows |-> rows]
       [] stream = "cryptocom_delta" ->
            [pu |-> IF type = "snapshot" THEN NoId ELSE from - 1, u |-> to, rows |-> rows]
       [] stream = "cryptocom"       -> [pu |-> NoId, u |-> NoId, rows |-> rows]
       [] stream = "kucoin_level2" ->
            [sequence |-> to, side |-> Change(to)[1], price |-> Change(to)[2],
             qty |-> history[to][Change(to)]]
       [] OTHER -> [rows |-> rows]

Frame(type, from, to) ==
  [topic |-> Topic, type |-> type, data |-> Data(type, from, to), from |-> from, to |-> to]

Subscribe ==
  /\ ~ online
  /\ sessions < MaxSessions
  /\ online' = TRUE
  /\ sessions' = sessions + 1
  /\ sent' = head
  /\ wire' = IF stream \in Opening THEN <<Frame("snapshot", head, head)>> ELSE <<>>
  /\ UNCHANGED <<vars, stream, fetched, contains, missed>>

Push ==
  /\ online
  /\ Len(wire) < MaxWire
  /\ \E to \in sent + 1 .. head :
       /\ stream \in OneUpdate => to = sent + 1
       /\ stream \in Whole => to = head
       /\ wire' = Append(wire, Frame(IF stream \in Whole THEN "snapshot" ELSE "update",
                                     sent + 1, to))
       /\ sent' = to
  /\ UNCHANGED <<vars, stream, online, sessions, fetched, contains, missed>>

Disconnect ==
  /\ online
  /\ online' = FALSE
  /\ wire' = <<>>
  /\ UNCHANGED <<vars, stream, sessions, sent, fetched, contains, missed>>

---------------------------------------------------------------------------------
(* The consumer *)

FetchSnapshot ==
  /\ stream \in Fetching
  /\ ~ synced[Book]
  /\ fetched = NoId
  /\ fetched' = head
  /\ UNCHANGED <<vars, stream, online, sessions, sent, wire, contains, missed>>

ApplyFetched ==
  /\ fetched # NoId
  /\ Apply(Book, Snapshot(fetched))
  /\ fetched' = NoId
  /\ contains' = fetched
  /\ missed' = FALSE
  /\ UNCHANGED <<venueVars, stream, online, sessions, sent, wire>>

Deliver ==
  /\ wire # <<>>
  /\ LET frame == Head(wire)
         msg == Venue!Parse(Exchange, frame)
     IN /\ Apply(Book, msg)
        /\ IF frame.type = "snapshot"
           THEN contains' = frame.to /\ missed' = FALSE
           ELSE IF synced[Book]
           THEN /\ contains' = Venue!Larger(contains, frame.to)
                /\ missed' = (missed \/ frame.from > contains + 1)
           ELSE UNCHANGED <<contains, missed>>
  /\ wire' = Tail(wire)
  /\ UNCHANGED <<venueVars, stream, online, sessions, sent, fetched>>

SkipFrame ==
  /\ wire # <<>>
  /\ wire' = Tail(wire)
  /\ UNCHANGED <<vars, stream, online, sessions, sent, fetched, contains, missed>>

BookFeedInit ==
  /\ Init
  /\ stream \in Streams
  /\ online = FALSE /\ sessions = 0 /\ sent = 0 /\ wire = <<>>
  /\ fetched = NoId
  /\ contains = 0 /\ missed = FALSE

BookFeedNext ==
  \/ VenueUpdates \/ Subscribe \/ Push \/ Disconnect
  \/ FetchSnapshot \/ ApplyFetched \/ Deliver \/ SkipFrame

BookFeedSpec == BookFeedInit /\ [][BookFeedNext]_allVars

---------------------------------------------------------------------------------
(* Properties *)

\* On every stream that stamps IDs, what the connector makes of the venue's own
\* fields is a feed LocalOrderBook was built for: each step is one of its steps,
\* so its guarantees (SyncedIsExact above all) hold end to end, through lost
\* frames, lost sessions and REST snapshots older or newer than the stream.
ImplementsOrderBook == Init /\ [][(stream \in Stamped) => Next]_vars

\* While every update since the last snapshot has reached the book, there is no
\* gap and a synced book is the venue's book at the last of them.  It holds for
\* the streams without IDs too, where nothing else protects the book: its
\* premise is what one skipped frame takes away.
LosslessBookIsExact ==
  ~ missed => /\ outcome[Book] # "Gap"
              /\ synced[Book] => levels[Book] = history[contains]
=================================================================================
