----------------------------- MODULE BookFeed_proofs -----------------------------
(* Proofs about BookFeed: on every stream that stamps IDs the connector, the wire,  *)
(* the REST snapshots and the local book implement LocalOrderBook, for all levels,  *)
(* any number of updates and sessions and any length of the wire.  On the others    *)
(* too, a book that missed nothing since its snapshot is the venue's.               *)
EXTENDS BookFeed, LocalOrderBook_proofs, SequenceTheorems

(* What may be on the wire of a stamped stream. *)
Snapshots == {f \in {Frame("snapshot", r[1], r[2]) : r \in Nat \X (0 .. head)} :
                stream \in Opening \cup Whole}

Ranges == {r \in (1 .. head) \X (1 .. head) :
             r[1] <= r[2] /\ (stream \in OneUpdate => r[1] = r[2])}

Deltas == {f \in {Frame("update", r[1], r[2]) : r \in Ranges} : stream \notin Whole}

VenueTypes ==
  /\ stream \in AllStreams
  /\ head \in Nat /\ history \in [0 .. head -> States]
  /\ sent \in 0 .. head
  /\ fetched \in 0 .. head \cup {NoId}

(* KuCoin numbers each change of a level. *)
OneLevelEach ==
  stream = "kucoin_level2" =>
    \A i \in 1 .. head : \E k \in Levels : Touched(i, i) = {k}

FeedInv == VenueTypes /\ OneLevelEach /\ wire \in Seq(Snapshots \cup Deltas)

----------------------------------------------------------------------------------
(* The venue moves on: what is on the wire stays what it is. *)

LEMMA LargerSeq ==
  ASSUME NEW S, NEW T, S \subseteq T, NEW s \in Seq(S)
  PROVE  s \in Seq(T)
<1>1. Len(s) \in Nat /\ DOMAIN s = 1 .. Len(s) /\ \A i \in 1 .. Len(s) : s[i] \in T
  BY LenProperties, ElementOfSeq
<1>2. s = [i \in 1 .. Len(s) |-> s[i]]
  BY <1>1, LenProperties
<1>3. QED
  BY <1>1, <1>2

LEMMA TouchedIsStable ==
  ASSUME VenueTypes, ExchangeUpdates, NEW from \in 1 .. head, NEW to \in 1 .. head, from <= to
  PROVE  Touched(from, to)' = Touched(from, to)
<1>1. \A i \in from - 1 .. to : history'[i] = history[i]
  BY DEF VenueTypes, ExchangeUpdates
<1>2. history'[to] = history[to]
  BY DEF VenueTypes, ExchangeUpdates
<1>3. QED
  BY <1>1, <1>2 DEF Touched

LEMMA FrameIsStable ==
  ASSUME VenueTypes, ExchangeUpdates, UNCHANGED stream,
         NEW type \in {"snapshot", "update"}, NEW from \in Nat, NEW to \in 0 .. head,
         type = "snapshot" => stream \in Opening \cup Whole,
         type = "update" => 1 <= from /\ from <= to
  PROVE  Frame(type, from, to)' = Frame(type, from, to)
<1>1. history'[to] = history[to]
  BY DEF VenueTypes, ExchangeUpdates
<1>2. Rows(type, from, to)' = Rows(type, from, to)
  <2>1. CASE type = "snapshot"
    BY <1>1, <2>1 DEF Rows
  <2>2. CASE type = "update"
    <3>1. from \in 1 .. head /\ to \in 1 .. head
      BY <2>2 DEF VenueTypes
    <3>2. Touched(from, to)' = Touched(from, to)
      BY <2>2, <3>1, TouchedIsStable
    <3>3. QED
      BY <1>1, <2>2, <3>2 DEF Rows
  <2>3. QED
    BY <2>1, <2>2
<1>3. type = "update" => Change(to)' = Change(to)
  <2> SUFFICES ASSUME type = "update" PROVE Change(to)' = Change(to)
    OBVIOUS
  <2>1. to \in 1 .. head
    BY DEF VenueTypes
  <2>2. Touched(to, to)' = Touched(to, to)
    BY <2>1, TouchedIsStable
  <2>3. QED
    BY <2>2 DEF Change
<1>4. Data(type, from, to)' = Data(type, from, to)
  <2>1. CASE stream # "kucoin_level2"
    BY <1>2, <2>1 DEF Data
  <2>2. CASE stream = "kucoin_level2"
    <3>1. type = "update"
      BY <2>2 DEF Opening, Whole
    <3>2. QED
      BY <1>1, <1>3, <2>2, <3>1 DEF Data
  <2>3. QED
    BY <2>1, <2>2
<1>5. QED
  BY <1>4 DEF Frame, Topic

----------------------------------------------------------------------------------
(* The connectors: what a frame of a stamped stream becomes. *)

IsSnapshotOf(msg, to) == msg.is_snapshot = TRUE /\ msg.last = to /\ msg.levels = history[to]

IsDeltaOf(msg, from, to) ==
  /\ msg.is_snapshot = FALSE /\ msg.first = from /\ msg.last = to
  /\ msg.levels = [k \in Touched(from, to) |-> history[to][k]]

LEMMA ParseOfSnapshot ==
  ASSUME stream \in Stamped, stream \in Opening \cup Whole, NEW from \in Nat, NEW to \in Nat
  PROVE  IsSnapshotOf(Venue!Parse(Exchange, Frame("snapshot", from, to)), to)
<1> SUFFICES ASSUME NEW msg, msg = Venue!Parse(Exchange, Frame("snapshot", from, to))
             PROVE  msg.is_snapshot = TRUE /\ msg.last = to /\ msg.levels = history[to]
  BY Zenon DEF IsSnapshotOf
<1> DEFINE frame == Frame("snapshot", from, to)
           d == Data("snapshot", from, to)
<1>1. frame.type = "snapshot" /\ frame.topic = Topic /\ frame.data = d
  BY DEF Frame
<1>2. Rows("snapshot", from, to) = history[to]
  BY DEF Rows
<1>m. Venue!IsSnapshot(frame, "snapshot") = TRUE /\ Venue!IsSnapshot(frame, "update") = TRUE
  BY <1>1, MarksAssumption DEF Venue!IsSnapshot, Venue!Or
<1> HIDE DEF frame, d
<1>4. CASE stream = "binance_depth20"
  <2>1. d = [lastUpdateId |-> to, rows |-> history[to]]
    BY <1>2, <1>4 DEF d, Data
  <2>2. msg = Venue!BinanceDepthSnapshot(d)
    BY <1>1, <1>4 DEF frame, Exchange, Topic, Venue!Parse, Venue!ParseBinance
  <2>3. msg.is_snapshot = TRUE
    BY <2>2 DEF Venue!BinanceDepthSnapshot, Venue!OrderBook
  <2>4. msg.last = to /\ msg.levels = history[to]
    BY <2>1, <2>2 DEF Venue!BinanceDepthSnapshot, Venue!OrderBook
  <2>5. QED
    BY <2>3, <2>4
<1>5. CASE stream = "bybit"
  <2>1. d = [u |-> to, rows |-> history[to]]
    BY <1>2, <1>5 DEF d, Data
  <2>2. msg = Venue!BybitOrderbook(d, Venue!IsSnapshot(frame, "snapshot"))
    BY <1>1, <1>5 DEF frame, Exchange, Topic, Venue!Parse, Venue!ParseBybit
  <2>3. msg.is_snapshot = TRUE
    <3>1. msg = Venue!BybitOrderbook(d, TRUE)
      BY <1>m, <2>2
    <3>2. QED
      BY <3>1 DEF Venue!BybitOrderbook, Venue!OrderBook
  <2>4. msg.last = to /\ msg.levels = history[to]
    BY <2>1, <2>2 DEF Venue!BybitOrderbook, Venue!OrderBook
  <2>5. QED
    BY <2>3, <2>4
<1>6. CASE stream = "okx"
  <2>1. d = [prevSeqId |-> -1, seqId |-> to, rows |-> history[to]]
    BY <1>2, <1>6 DEF d, Data
  <2>2. msg = Venue!OkxBook(d, Venue!IsSnapshot(frame, "snapshot"))
    BY <1>1, <1>6 DEF frame, Exchange, Topic, Venue!Parse, Venue!ParseOkx
  <2>3. msg.is_snapshot = TRUE
    <3>1. msg = Venue!OkxBook(d, TRUE)
      BY <1>m, <2>2
    <3>2. QED
      BY <3>1 DEF Venue!OkxBook, Venue!OrderBook
  <2>4. msg.last = to /\ msg.levels = history[to]
    BY <2>1, <2>2 DEF Venue!OkxBook, Venue!OrderBook
  <2>5. QED
    BY <2>3, <2>4
<1>7. CASE stream = "cryptocom_delta"
  <2>1. d = [pu |-> NoId, u |-> to, rows |-> history[to]]
    BY <1>2, <1>7 DEF d, Data
  <2>2. msg = Venue!CryptocomBooks(d, Venue!IsSnapshot(frame, "update"))
    BY <1>1, <1>7 DEF frame, Exchange, Topic, Venue!Parse, Venue!ParseCryptocom
  <2>3. msg.is_snapshot = TRUE
    <3>1. msg = Venue!CryptocomBooks(d, TRUE)
      BY <1>m, <2>2
    <3>2. QED
      BY <3>1 DEF Venue!CryptocomBooks, Venue!OrderBook
  <2>4. msg.last = to /\ msg.levels = history[to]
    BY <2>1, <2>2 DEF Venue!CryptocomBooks, Venue!OrderBook
  <2>5. QED
    BY <2>3, <2>4
<1>8. QED
  BY <1>4, <1>5, <1>6, <1>7 DEF Stamped, Opening, Whole

\* The first and last update of a delta come out of the venue's own fields.
LEMMA ParseOfDelta ==
  ASSUME stream \in Stamped, stream \notin Whole, VenueTypes, OneLevelEach,
         NEW from \in 1 .. head, NEW to \in 1 .. head, from <= to,
         stream \in OneUpdate => from = to
  PROVE  IsDeltaOf(Venue!Parse(Exchange, Frame("update", from, to)), from, to)
<1> SUFFICES ASSUME NEW msg, msg = Venue!Parse(Exchange, Frame("update", from, to))
             PROVE  /\ msg.is_snapshot = FALSE /\ msg.first = from /\ msg.last = to
                    /\ msg.levels = [k \in Touched(from, to) |-> history[to][k]]
  BY Zenon DEF IsDeltaOf
<1> DEFINE frame == Frame("update", from, to)
           d == Data("update", from, to)
           rows == [k \in Touched(from, to) |-> history[to][k]]
<1>1. frame.type = "update" /\ frame.topic = Topic /\ frame.data = d
  BY DEF Frame
<1>2. Rows("update", from, to) = rows
  BY DEF Rows
<1>m. Venue!IsSnapshot(frame, "snapshot") = FALSE /\ Venue!IsSnapshot(frame, "update") = FALSE
  BY <1>1, MarksAssumption DEF Venue!IsSnapshot, Venue!Or
<1>3. from - 1 >= 0 /\ (from - 1) + 1 = from /\ from - 1 # NoId
  <2>1. from - 1 \in Nat /\ (from - 1) + 1 = from
    BY DEF VenueTypes
  <2>2. QED
    BY <2>1, NoIdAssumption
<1> HIDE DEF frame, d, rows
<1>4. CASE stream = "binance_diff"
  <2>1. d = [U |-> from, u |-> to, rows |-> rows]
    BY <1>2, <1>4 DEF d, Data
  <2>2. msg = Venue!BinanceDepthUpdate(d)
    BY <1>1, <1>4 DEF frame, Exchange, Topic, Venue!Parse, Venue!ParseBinance
  <2>3. msg.is_snapshot = FALSE
    BY <2>2 DEF Venue!BinanceDepthUpdate, Venue!OrderBook
  <2>4. msg.first = from /\ msg.last = to /\ msg.levels = rows
    BY <1>3, <2>1, <2>2 DEF Venue!BinanceDepthUpdate, Venue!OrderBook
  <2>5. QED
    BY <2>3, <2>4 DEF rows
<1>5. CASE stream = "bybit"
  <2>1. d = [u |-> to, rows |-> rows]
    BY <1>2, <1>5 DEF d, Data
  <2>2. msg = Venue!BybitOrderbook(d, Venue!IsSnapshot(frame, "snapshot"))
    BY <1>1, <1>5 DEF frame, Exchange, Topic, Venue!Parse, Venue!ParseBybit
  <2>3. msg.is_snapshot = FALSE
    <3>1. msg = Venue!BybitOrderbook(d, FALSE)
      BY <1>m, <2>2
    <3>2. QED
      BY <3>1 DEF Venue!BybitOrderbook, Venue!OrderBook
  <2>4. msg.first = from /\ msg.last = to /\ msg.levels = rows
    BY <1>3, <1>5, <2>1, <2>2 DEF OneUpdate, Venue!BybitOrderbook, Venue!OrderBook
  <2>5. QED
    BY <2>3, <2>4 DEF rows
<1>6. CASE stream = "okx"
  <2>1. d = [prevSeqId |-> from - 1, seqId |-> to, rows |-> rows]
    BY <1>2, <1>6 DEF d, Data
  <2>2. msg = Venue!OkxBook(d, Venue!IsSnapshot(frame, "snapshot"))
    BY <1>1, <1>6 DEF frame, Exchange, Topic, Venue!Parse, Venue!ParseOkx
  <2>3. msg.is_snapshot = FALSE
    <3>1. msg = Venue!OkxBook(d, FALSE)
      BY <1>m, <2>2
    <3>2. QED
      BY <3>1 DEF Venue!OkxBook, Venue!OrderBook
  <2>4. msg.first = from /\ msg.last = to /\ msg.levels = rows
    BY <1>3, <2>1, <2>2 DEF Venue!OkxBook, Venue!OrderBook
  <2>5. QED
    BY <2>3, <2>4 DEF rows
<1>7. CASE stream = "cryptocom_delta"
  <2>1. d = [pu |-> from - 1, u |-> to, rows |-> rows]
    BY <1>2, <1>7 DEF d, Data
  <2>2. msg = Venue!CryptocomBooks(d, Venue!IsSnapshot(frame, "update"))
    BY <1>1, <1>7 DEF frame, Exchange, Topic, Venue!Parse, Venue!ParseCryptocom
  <2>3. msg.is_snapshot = FALSE
    <3>1. msg = Venue!CryptocomBooks(d, FALSE)
      BY <1>m, <2>2
    <3>2. QED
      BY <3>1 DEF Venue!CryptocomBooks, Venue!OrderBook
  <2>4. msg.first = from /\ msg.last = to /\ msg.levels = rows
    BY <1>3, <2>1, <2>2 DEF Venue!CryptocomBooks, Venue!OrderBook
  <2>5. QED
    BY <2>3, <2>4 DEF rows
<1>8. CASE stream = "kucoin_level2"
  <2>1. from = to
    BY <1>8 DEF OneUpdate
  <2>2. Change(to) \in Levels /\ Touched(to, to) = {Change(to)}
    BY <1>8 DEF OneLevelEach, Change
  <2>3. <<Change(to)[1], Change(to)[2]>> = Change(to)
    BY <2>2 DEF Levels
  <2>4. d = [sequence |-> to, side |-> Change(to)[1], price |-> Change(to)[2],
             qty |-> history[to][Change(to)]]
    BY <1>8 DEF d, Data
  <2>5. msg = Venue!KucoinLevel2(d)
    BY <1>1, <1>8 DEF frame, Exchange, Topic, Venue!Parse, Venue!ParseKucoin
  <2>6. /\ msg.is_snapshot = FALSE /\ msg.first = d.sequence /\ msg.last = d.sequence
        /\ msg.levels = [k \in {<<d.side, d.price>>} |-> d.qty]
    BY <2>5 DEF Venue!KucoinLevel2, Venue!OrderBook
  <2>7. d.sequence = to /\ <<d.side, d.price>> = Change(to) /\ d.qty = history[to][Change(to)]
    BY <2>3, <2>4
  <2>8. msg.levels = [k \in {Change(to)} |-> history[to][k]]
    BY <2>6, <2>7
  <2>9. QED
    BY <2>1, <2>2, <2>6, <2>7, <2>8
<1>9. QED
  BY <1>4, <1>5, <1>6, <1>7, <1>8 DEF Stamped, Whole

\* apply() reads these fields only.
LEMMA ApplyReadsFields ==
  ASSUME NEW b, NEW m, NEW n,
         m.is_snapshot = n.is_snapshot, m.last = n.last, m.levels = n.levels,
         m.is_snapshot \/ m.first = n.first,
         Apply(b, m)
  PROVE  Apply(b, n)
BY DEF Apply, ApplySnapshot, ApplyUnsynced, ApplyStale, ApplyGap, ApplyDelta, IsStale, IsGap,
  Checked, FirstOf

\* Reading a frame is a delivery of LocalOrderBook.
LEMMA DeliveryImplements ==
  ASSUME FeedInv, stream \in Stamped, Deliver
  PROVE  Next
<1>1. Book \in Books
  BY BooksAssumption DEF Book
<1>2. UNCHANGED venueVars /\ wire # <<>> /\ Apply(Book, Venue!Parse(Exchange, Head(wire)))
  BY DEF Deliver
<1>3. Head(wire) \in Snapshots \cup Deltas
  BY <1>2, HeadTailProperties DEF FeedInv
<1>4. CASE Head(wire) \in Snapshots
  <2>1. PICK from \in Nat, to \in 0 .. head : Head(wire) = Frame("snapshot", from, to)
    BY <1>4, Zenon DEF Snapshots
  <2>2. stream \in Opening \cup Whole
    BY <1>4 DEF Snapshots
  <2>3. Apply(Book, Snapshot(to))
    <3>1. PICK msg : msg = Venue!Parse(Exchange, Head(wire))
      OBVIOUS
    <3>2. to \in Nat
      BY DEF FeedInv, VenueTypes
    <3>3. msg.is_snapshot = TRUE /\ msg.last = to /\ msg.levels = history[to]
      <4>1. IsSnapshotOf(Venue!Parse(Exchange, Frame("snapshot", from, to)), to)
        BY <2>2, <3>2, ParseOfSnapshot
      <4>2. IsSnapshotOf(msg, to)
        BY <2>1, <3>1, <4>1
      <4>3. QED
        BY <4>2 DEF IsSnapshotOf
    <3>4. /\ Snapshot(to).is_snapshot = TRUE /\ Snapshot(to).last = to
          /\ Snapshot(to).levels = history[to]
      BY DEF Snapshot
    <3>5. Apply(Book, msg)
      BY <1>2, <3>1
    <3>6. QED
      BY <3>3, <3>4, <3>5, ApplyReadsFields, ZenonT(60)
  <2>4. QED
    BY <1>1, <1>2, <2>3 DEF Next, DeliverSnapshot
<1>5. CASE Head(wire) \in Deltas
  <2>1. PICK from \in 1 .. head, to \in 1 .. head :
          Head(wire) = Frame("update", from, to) /\ from <= to /\ (stream \in OneUpdate => from = to)
    BY <1>5 DEF Deltas, Ranges
  <2>2. stream \notin Whole
    BY <1>5 DEF Deltas
  <2>3. Apply(Book, Delta(from, to, from))
    <3>1. PICK msg : msg = Venue!Parse(Exchange, Head(wire))
      OBVIOUS
    <3>2. IsDeltaOf(Venue!Parse(Exchange, Frame("update", from, to)), from, to)
      BY <2>1, <2>2, ParseOfDelta DEF FeedInv
    <3>3. /\ msg.is_snapshot = FALSE /\ msg.first = from /\ msg.last = to
          /\ msg.levels = [k \in Touched(from, to) |-> history[to][k]]
      <4>1. IsDeltaOf(msg, from, to)
        BY <2>1, <3>1, <3>2
      <4>2. QED
        BY <4>1 DEF IsDeltaOf
    <3>4. LET d == Delta(from, to, from)
          IN  /\ d.is_snapshot = FALSE /\ d.first = from /\ d.last = to
              /\ d.levels = [k \in Touched(from, to) |-> history[to][k]]
      BY DEF Delta
    <3>5. Apply(Book, msg)
      BY <1>2, <3>1
    <3>6. QED
      BY <3>3, <3>4, <3>5, ApplyReadsFields, ZenonT(60)
  <2>4. QED
    BY <1>1, <1>2, <2>1, <2>3 DEF Next, DeliverDelta
<1>6. QED
  BY <1>3, <1>4, <1>5

----------------------------------------------------------------------------------
(* The invariant of the feed *)

LEMMA FeedInit == BookFeedInit => FeedInv
<1> SUFFICES ASSUME BookFeedInit PROVE FeedInv
  OBVIOUS
<1>1. head = 0 /\ history = [i \in {0} |-> NoLevels] /\ stream \in AllStreams /\ sent = 0
      /\ fetched = NoId /\ wire = <<>>
  BY StreamsAssumption DEF BookFeedInit, Init
<1>2. NoLevels \in States
  BY DEF NoLevels, States
<1>3. VenueTypes
  BY <1>1, <1>2 DEF VenueTypes
<1>4. OneLevelEach
  <2>1. 1 .. head = {}
    BY <1>1
  <2>2. QED
    BY <2>1 DEF OneLevelEach
<1>5. QED
  BY <1>1, <1>3, <1>4, EmptySeq DEF FeedInv

LEMMA VenueUpdatesKeepFeedInv ==
  ASSUME FeedInv, VenueUpdates
  PROVE  FeedInv'
<1>1. /\ ExchangeUpdates /\ UNCHANGED <<stream, sent, fetched, wire>>
      /\ stream = "kucoin_level2" => \E k \in Levels : OneLevel(history'[head']) = {k}
  BY DEF VenueUpdates, feedVars
<1>2. VenueTypes /\ VenueTypes'
  <2>1. PICK state \in States :
          history' = [i \in 0 .. head + 1 |-> IF i <= head THEN history[i] ELSE state]
    BY <1>1 DEF ExchangeUpdates
  <2>2. head' = head + 1
    BY <1>1 DEF ExchangeUpdates
  <2>3. VenueTypes
    BY DEF FeedInv
  <2>4. head \in Nat /\ history \in [0 .. head -> States] /\ sent \in 0 .. head
        /\ fetched \in 0 .. head \cup {NoId} /\ stream \in AllStreams
    BY <2>3 DEF VenueTypes
  <2>5. history' \in [0 .. head' -> States]
    <3>1. ASSUME NEW i \in 0 .. head + 1
          PROVE  (IF i <= head THEN history[i] ELSE state) \in States
      BY <2>4
    <3>2. QED
      BY <2>1, <2>2, <3>1
  <2>6. head' \in Nat /\ sent' \in 0 .. head' /\ fetched' \in 0 .. head' \cup {NoId}
    BY <1>1, <2>2, <2>4
  <2>7. stream' \in AllStreams
    BY <1>1, <2>4
  <2>8. QED
    BY <2>3, <2>5, <2>6, <2>7 DEF VenueTypes
<1>3. head' = head + 1 /\ \A i \in 0 .. head : history'[i] = history[i]
  <2>1. PICK state \in States :
          history' = [i \in 0 .. head + 1 |-> IF i <= head THEN history[i] ELSE state]
    BY <1>1 DEF ExchangeUpdates
  <2>2. head' = head + 1
    BY <1>1 DEF ExchangeUpdates
  <2>3. head \in Nat
    BY <1>2 DEF VenueTypes
  <2>4. QED
    BY <2>1, <2>2, <2>3
<1>4. OneLevelEach'
  <2>1. head \in Nat
    BY <1>2 DEF VenueTypes
  <2> SUFFICES ASSUME stream = "kucoin_level2", NEW i \in Nat, 1 <= i, i <= head + 1
               PROVE  \E k \in Levels : Touched(i, i)' = {k}
    BY <1>1, <1>3, <2>1 DEF OneLevelEach
  <2>2. CASE i <= head
    <3>1. i \in 1 .. head /\ i <= i
      BY <2>1, <2>2
    <3>2. Touched(i, i)' = Touched(i, i)
      BY <1>1, <1>2, <3>1, TouchedIsStable
    <3>3. \E k \in Levels : Touched(i, i) = {k}
      BY <3>1 DEF FeedInv, OneLevelEach
    <3>4. QED
      BY <3>2, <3>3, Zenon
  <2>3. CASE ~ (i <= head)
    <3>1. i = head + 1
      BY <2>1, <2>3
    <3>2. head' = i
      BY <1>3, <3>1
    <3>3. history'[head] = history[head]
      BY <1>3, <2>1
    <3>4. i - 1 .. i = {head, i}
      BY <2>1, <3>1
    <3>5. Touched(i, i)' = OneLevel(history'[head'])
      <4>1. Touched(i, i)' = {k \in Levels : \E j \in {head, i} : history'[j][k] # history'[i][k]}
        BY <3>4 DEF Touched
      <4>2. OneLevel(history'[head']) = {k \in Levels : history'[i][k] # history'[head][k]}
        BY <3>2, <3>3 DEF OneLevel
      <4>3. QED
        BY <4>1, <4>2
    <3>6. \E k \in Levels : OneLevel(history'[head']) = {k}
      BY <1>1
    <3>7. QED
      BY <3>5, <3>6, Zenon
  <2>4. QED
    BY <2>2, <2>3
<1>5. Snapshots \subseteq Snapshots'
  <2> SUFFICES ASSUME NEW r \in Nat \X (0 .. head), stream \in Opening \cup Whole
               PROVE  Frame("snapshot", r[1], r[2]) \in Snapshots'
    BY DEF Snapshots
  <2>1. r[1] \in Nat /\ r[2] \in 0 .. head
    OBVIOUS
  <2>2. Frame("snapshot", r[1], r[2])' = Frame("snapshot", r[1], r[2])
    BY <1>1, <1>2, <2>1, FrameIsStable
  <2>3. r \in Nat \X (0 .. head')
    BY <1>2, <1>3 DEF VenueTypes
  <2>4. QED
    BY <1>1, <2>2, <2>3 DEF Snapshots, Opening, Whole
<1>6. Deltas \subseteq Deltas'
  <2> SUFFICES ASSUME NEW r \in Ranges, stream \notin Whole
               PROVE  Frame("update", r[1], r[2]) \in Deltas'
    BY DEF Deltas
  <2>1. r \in (1 .. head) \X (1 .. head) /\ r[1] \in 1 .. head /\ r[2] \in 1 .. head
        /\ r[1] <= r[2] /\ (stream \in OneUpdate => r[1] = r[2])
    BY DEF Ranges
  <2>2. head \in Nat
    BY <1>2 DEF VenueTypes
  <2>3. Frame("update", r[1], r[2])' = Frame("update", r[1], r[2])
    <3>1. r[1] \in Nat /\ r[2] \in 0 .. head /\ 1 <= r[1] /\ "update" # "snapshot"
      BY <2>1, <2>2
    <3>2. QED
      BY <1>1, <1>2, <2>1, <3>1, FrameIsStable
  <2>4. r \in Ranges'
    <3>1. r \in (1 .. head') \X (1 .. head')
      BY <1>3, <2>1, <2>2
    <3>2. QED
      BY <1>1, <2>1, <3>1 DEF Ranges, OneUpdate
  <2>5. QED
    BY <1>1, <2>3, <2>4 DEF Deltas, Whole
<1>7. wire' \in Seq(Snapshots' \cup Deltas')
  BY <1>1, <1>5, <1>6, LargerSeq DEF FeedInv
<1>8. QED
  BY <1>2, <1>4, <1>7 DEF FeedInv

\* Steps that leave the venue alone: what they put on the wire decides.
LEMMA VenueAloneKeepsFeedInv ==
  ASSUME FeedInv, UNCHANGED <<stream, history, head>>,
         sent' \in 0 .. head, fetched' \in 0 .. head \cup {NoId},
         wire' \in Seq(Snapshots \cup Deltas)
  PROVE  FeedInv'
<1>1. VenueTypes'
  BY DEF FeedInv, VenueTypes
<1>2. \A from, to : Touched(from, to)' = Touched(from, to)
  BY DEF Touched
<1>3. OneLevelEach'
  BY <1>2 DEF FeedInv, OneLevelEach
<1>4. ASSUME NEW type, NEW from, NEW to
      PROVE  Frame(type, from, to)' = Frame(type, from, to)
  <2>1. Rows(type, from, to)' = Rows(type, from, to)
    BY <1>2 DEF Rows
  <2>2. Change(to)' = Change(to)
    BY <1>2 DEF Change
  <2>3. Data(type, from, to)' = Data(type, from, to)
    BY <2>1, <2>2 DEF Data
  <2>4. QED
    BY <2>3 DEF Frame, Topic
<1>5. Snapshots' = Snapshots
  BY <1>4 DEF Snapshots
<1>6. Deltas' = Deltas
  BY <1>4 DEF Deltas, Ranges
<1>7. QED
  BY <1>1, <1>3, <1>5, <1>6 DEF FeedInv

LEMMA FeedStep == FeedInv /\ [BookFeedNext]_allVars => FeedInv'
<1> SUFFICES ASSUME FeedInv, [BookFeedNext]_allVars PROVE FeedInv'
  OBVIOUS
<1>1. /\ head \in Nat /\ sent \in 0 .. head /\ fetched \in 0 .. head \cup {NoId}
      /\ wire \in Seq(Snapshots \cup Deltas)
  BY DEF FeedInv, VenueTypes
<1>2. wire # <<>> => Tail(wire) \in Seq(Snapshots \cup Deltas)
  BY <1>1, HeadTailProperties
<1>3. CASE VenueUpdates
  BY <1>3, VenueUpdatesKeepFeedInv
<1>4. CASE Subscribe
  <2>1. UNCHANGED <<stream, history, head, fetched>> /\ sent' = head
    BY <1>4 DEF Subscribe, vars, venueVars
  <2>2. CASE stream \in Opening
    <3>1. Frame("snapshot", head, head) \in Snapshots
      <4>1. <<head, head>> \in Nat \X (0 .. head)
        BY <1>1
      <4>2. QED
        BY <2>2, <4>1 DEF Snapshots
    <3>2. wire' \in Seq(Snapshots \cup Deltas)
      BY <1>4, <2>2, <3>1 DEF Subscribe
    <3>3. QED
      BY <1>1, <2>1, <3>2, VenueAloneKeepsFeedInv
  <2>3. CASE stream \notin Opening
    <3>1. wire' \in Seq(Snapshots \cup Deltas)
      BY <1>4, <2>3, EmptySeq DEF Subscribe
    <3>2. QED
      BY <1>1, <2>1, <3>1, VenueAloneKeepsFeedInv
  <2>4. QED
    BY <2>2, <2>3
<1>5. CASE Push
  <2>1. PICK to \in sent + 1 .. head :
          /\ stream \in OneUpdate => to = sent + 1
          /\ stream \in Whole => to = head
          /\ wire' = Append(wire, Frame(IF stream \in Whole THEN "snapshot" ELSE "update",
                                        sent + 1, to))
          /\ sent' = to
    BY <1>5 DEF Push
  <2>2. UNCHANGED <<stream, history, head, fetched>>
    BY <1>5 DEF Push, vars, venueVars
  <2>3. to \in 1 .. head /\ sent + 1 \in 1 .. head /\ sent + 1 <= to
    BY <1>1
  <2>4. CASE stream \in Whole
    <3>1. Frame("snapshot", sent + 1, to) \in Snapshots
      <4>1. <<sent + 1, to>> \in Nat \X (0 .. head)
        BY <1>1, <2>3
      <4>2. QED
        BY <2>4, <4>1 DEF Snapshots
    <3>2. wire' \in Seq(Snapshots \cup Deltas)
      BY <1>1, <2>1, <2>4, <3>1, AppendProperties
    <3>3. QED
      BY <1>1, <2>1, <2>2, <2>3, <3>2, VenueAloneKeepsFeedInv
  <2>5. CASE stream \notin Whole
    <3>1. Frame("update", sent + 1, to) \in Deltas
      <4>1. <<sent + 1, to>> \in Ranges
        BY <2>1, <2>3 DEF Ranges
      <4>2. QED
        BY <2>5, <4>1 DEF Deltas
    <3>2. wire' \in Seq(Snapshots \cup Deltas)
      BY <1>1, <2>1, <2>5, <3>1, AppendProperties
    <3>3. QED
      BY <1>1, <2>1, <2>2, <2>3, <3>2, VenueAloneKeepsFeedInv
  <2>6. QED
    BY <2>4, <2>5
<1>6. CASE Disconnect
  <2>1. UNCHANGED <<stream, history, head, sent, fetched>> /\ wire' = <<>>
    BY <1>6 DEF Disconnect, vars, venueVars
  <2>2. QED
    BY <1>1, <2>1, EmptySeq, VenueAloneKeepsFeedInv
<1>7. CASE FetchSnapshot
  <2>1. UNCHANGED <<stream, history, head, sent, wire>> /\ fetched' = head
    BY <1>7 DEF FetchSnapshot, vars, venueVars
  <2>2. QED
    BY <1>1, <2>1, VenueAloneKeepsFeedInv
<1>8. CASE ApplyFetched
  <2>1. UNCHANGED <<stream, history, head, sent, wire>> /\ fetched' = NoId
    BY <1>8 DEF ApplyFetched, venueVars
  <2>2. QED
    BY <1>1, <2>1, VenueAloneKeepsFeedInv
<1>9. CASE Deliver \/ SkipFrame
  <2>1. UNCHANGED <<stream, history, head, sent, fetched>> /\ wire # <<>> /\ wire' = Tail(wire)
    BY <1>9 DEF Deliver, SkipFrame, vars, venueVars
  <2>2. QED
    BY <1>1, <1>2, <2>1, VenueAloneKeepsFeedInv
<1>10. CASE UNCHANGED allVars
  <2>1. UNCHANGED <<stream, history, head, sent, fetched, wire>>
    BY <1>10 DEF allVars, vars, venueVars, feedVars
  <2>2. QED
    BY <1>1, <2>1, VenueAloneKeepsFeedInv
<1>11. QED
  BY <1>3, <1>4, <1>5, <1>6, <1>7, <1>8, <1>9, <1>10 DEF BookFeedNext

----------------------------------------------------------------------------------
(* The refinement *)

LEMMA FeedStepImplements ==
  ASSUME FeedInv, [BookFeedNext]_allVars, stream \in Stamped
  PROVE  [Next]_vars
<1>1. CASE VenueUpdates
  BY <1>1 DEF VenueUpdates, Next
<1>2. CASE ApplyFetched
  <2>1. Book \in Books /\ fetched \in 0 .. head
    BY <1>2, BooksAssumption DEF Book, ApplyFetched, FeedInv, VenueTypes
  <2>2. QED
    BY <1>2, <2>1 DEF ApplyFetched, Next, DeliverSnapshot
<1>3. CASE Deliver
  BY <1>3, DeliveryImplements
<1>4. CASE Subscribe \/ Push \/ Disconnect \/ FetchSnapshot \/ SkipFrame \/ UNCHANGED allVars
  BY <1>4 DEF Subscribe, Push, Disconnect, FetchSnapshot, SkipFrame, allVars
<1>5. QED
  BY <1>1, <1>2, <1>3, <1>4 DEF BookFeedNext

\* On every stream that stamps IDs the feed implements LocalOrderBook.
THEOREM FeedRefinesOrderBook == BookFeedSpec => ImplementsOrderBook
<1>1. BookFeedInit => Init
  BY DEF BookFeedInit
<1>2. FeedInv /\ [BookFeedNext]_allVars => [(stream \in Stamped) => Next]_vars
  BY FeedStepImplements
<1>3. QED
  BY <1>1, <1>2, FeedInit, FeedStep, PTL DEF BookFeedSpec, ImplementsOrderBook

\* So the guarantee of the local book holds end to end: whatever is lost, skipped
\* or fetched late, a synced book of such a stream is the venue's book.
THEOREM FedBooksAreExact == BookFeedSpec => []((stream \in Stamped) => SyncedIsExact)
<1> DEFINE Exact == (stream \in Stamped) => IInv
<1>1. BookFeedInit => Exact
  BY IInvInit DEF BookFeedInit
<1>2. FeedInv /\ Exact /\ [BookFeedNext]_allVars => Exact'
  <2> SUFFICES ASSUME FeedInv, Exact, [BookFeedNext]_allVars, stream' \in Stamped
               PROVE  IInv'
    OBVIOUS
  <2>1. stream' = stream
    BY DEF BookFeedNext, VenueUpdates, Subscribe, Push, Disconnect, FetchSnapshot, ApplyFetched,
      Deliver, SkipFrame, allVars, feedVars
  <2>2. [Next]_vars
    BY <2>1, FeedStepImplements
  <2>3. QED
    BY <2>1, <2>2, IInvStep
<1>3. Exact => ((stream \in Stamped) => SyncedIsExact)
  BY DEF IInv, LevelsMatchId, SyncedHasId, SyncedIsExact
<1>4. QED
  BY <1>1, <1>2, <1>3, FeedInit, FeedStep, PTL DEF BookFeedSpec

----------------------------------------------------------------------------------
(* All streams, with IDs or without: a book that missed nothing is exact.           *)

(* The ID of update `id` as a message of the stream carries it. *)
Mark(id) == IF stream \in Stamped THEN id ELSE NoId

BookFollows ==
  /\ TypeOK
  /\ contains \in 0 .. head /\ missed \in BOOLEAN
  /\ ~ missed => outcome[Book] # "Gap"
  /\ ~ missed /\ synced[Book] =>
       levels[Book] = history[contains] /\ last_update_id[Book] = Mark(contains)

(* Where no ID protects the book, its order does: each frame on the wire is newer  *)
(* than the frames before it and than the book.                                    *)
WireInOrder ==
  stream \notin Stamped =>
    /\ fetched = NoId
    /\ online => contains <= sent
    /\ \A i \in 1 .. Len(wire) :
         /\ wire[i].to <= sent
         /\ wire[i].type = "update" =>
              contains < wire[i].from /\ \A j \in 1 .. i - 1 : wire[j].to < wire[i].from

Unnumbered == AllStreams \ Stamped

LEMMA ParseOfPlainSnapshot ==
  ASSUME stream \in Unnumbered, NEW from \in Nat, NEW to \in Nat,
         NEW msg, msg = Venue!Parse(Exchange, Frame("snapshot", from, to))
  PROVE  msg.is_snapshot = TRUE /\ msg.last = NoId /\ msg.levels = history[to]
<1> DEFINE frame == Frame("snapshot", from, to)
           d == Data("snapshot", from, to)
<1>1. frame.type = "snapshot" /\ frame.topic = Topic /\ frame.data = d
  BY DEF Frame
<1>2. Rows("snapshot", from, to) = history[to]
  BY DEF Rows
<1>m. Venue!IsSnapshot(frame, "update") = TRUE
  BY <1>1, MarksAssumption DEF Venue!IsSnapshot, Venue!Or
<1> HIDE DEF frame, d
<1>3. CASE stream = "cryptocom"
  <2>1. d = [pu |-> NoId, u |-> NoId, rows |-> history[to]]
    BY <1>2, <1>3 DEF d, Data
  <2>2. msg = Venue!CryptocomBooks(d, Venue!IsSnapshot(frame, "update"))
    BY <1>1, <1>3 DEF frame, Exchange, Topic, Venue!Parse, Venue!ParseCryptocom
  <2>3. msg.is_snapshot = TRUE
    <3>1. msg = Venue!CryptocomBooks(d, TRUE)
      BY <1>m, <2>2
    <3>2. QED
      BY <3>1 DEF Venue!CryptocomBooks, Venue!OrderBook
  <2>4. msg.last = NoId /\ msg.levels = history[to]
    BY <2>1, <2>2 DEF Venue!CryptocomBooks, Venue!OrderBook
  <2>5. QED
    BY <2>3, <2>4
<1>4. CASE stream = "kraken"
  <2>1. d = [rows |-> history[to]]
    BY <1>2, <1>4 DEF d, Data
  <2>2. msg = Venue!KrakenBooks(d, Venue!IsSnapshot(frame, "update"))
    BY <1>1, <1>4 DEF frame, Exchange, Topic, Venue!Parse, Venue!ParseKraken
  <2>3. msg.is_snapshot = TRUE
    <3>1. msg = Venue!KrakenBooks(d, TRUE)
      BY <1>m, <2>2
    <3>2. QED
      BY <3>1 DEF Venue!KrakenBooks, Venue!OrderBook
  <2>4. msg.last = NoId /\ msg.levels = history[to]
    BY <2>1, <2>2 DEF Venue!KrakenBooks, Venue!OrderBook
  <2>5. QED
    BY <2>3, <2>4
<1>5. CASE stream = "coinbase"
  <2>1. d = [rows |-> history[to]]
    BY <1>2, <1>5 DEF d, Data
  <2>2. msg = Venue!CoinbaseL2(d, Venue!IsSnapshot(frame, "update"))
    BY <1>1, <1>5 DEF frame, Exchange, Topic, Venue!Parse, Venue!ParseCoinbase
  <2>3. msg.is_snapshot = TRUE
    <3>1. msg = Venue!CoinbaseL2(d, TRUE)
      BY <1>m, <2>2
    <3>2. QED
      BY <3>1 DEF Venue!CoinbaseL2, Venue!OrderBook
  <2>4. msg.last = NoId /\ msg.levels = history[to]
    BY <2>1, <2>2 DEF Venue!CoinbaseL2, Venue!OrderBook
  <2>5. QED
    BY <2>3, <2>4
<1>6. CASE stream = "kucoin_depth"
  <2>1. d = [rows |-> history[to]]
    BY <1>2, <1>6 DEF d, Data
  <2>2. msg = Venue!KucoinDepth(d)
    BY <1>1, <1>6 DEF frame, Exchange, Topic, Venue!Parse, Venue!ParseKucoin
  <2>3. msg.is_snapshot = TRUE
    BY <2>2 DEF Venue!KucoinDepth, Venue!OrderBook
  <2>4. msg.last = NoId /\ msg.levels = history[to]
    BY <2>1, <2>2 DEF Venue!KucoinDepth, Venue!OrderBook
  <2>5. QED
    BY <2>3, <2>4
<1>7. QED
  BY <1>3, <1>4, <1>5, <1>6 DEF Unnumbered, AllStreams, Stamped

LEMMA ParseOfPlainDelta ==
  ASSUME stream \in Unnumbered, stream \notin Whole, NEW from \in Nat, NEW to \in Nat,
         NEW msg, msg = Venue!Parse(Exchange, Frame("update", from, to))
  PROVE  /\ msg.is_snapshot = FALSE /\ msg.last = NoId
         /\ msg.levels = [k \in Touched(from, to) |-> history[to][k]]
<1> DEFINE frame == Frame("update", from, to)
           d == Data("update", from, to)
           rows == [k \in Touched(from, to) |-> history[to][k]]
<1>1. frame.type = "update" /\ frame.topic = Topic /\ frame.data = d
  BY DEF Frame
<1>2. Rows("update", from, to) = rows
  BY DEF Rows
<1>m. Venue!IsSnapshot(frame, "update") = FALSE
  BY <1>1, MarksAssumption DEF Venue!IsSnapshot, Venue!Or
<1> HIDE DEF frame, d, rows
<1>3. CASE stream = "cryptocom"
  <2>1. d = [pu |-> NoId, u |-> NoId, rows |-> rows]
    BY <1>2, <1>3 DEF d, Data
  <2>2. msg = Venue!CryptocomBooks(d, Venue!IsSnapshot(frame, "update"))
    BY <1>1, <1>3 DEF frame, Exchange, Topic, Venue!Parse, Venue!ParseCryptocom
  <2>3. msg.is_snapshot = FALSE
    <3>1. msg = Venue!CryptocomBooks(d, FALSE)
      BY <1>m, <2>2
    <3>2. QED
      BY <3>1 DEF Venue!CryptocomBooks, Venue!OrderBook
  <2>4. msg.last = NoId /\ msg.levels = rows
    BY <2>1, <2>2 DEF Venue!CryptocomBooks, Venue!OrderBook
  <2>5. QED
    BY <2>3, <2>4 DEF rows
<1>4. CASE stream = "kraken"
  <2>1. d = [rows |-> rows]
    BY <1>2, <1>4 DEF d, Data
  <2>2. msg = Venue!KrakenBooks(d, Venue!IsSnapshot(frame, "update"))
    BY <1>1, <1>4 DEF frame, Exchange, Topic, Venue!Parse, Venue!ParseKraken
  <2>3. msg.is_snapshot = FALSE
    <3>1. msg = Venue!KrakenBooks(d, FALSE)
      BY <1>m, <2>2
    <3>2. QED
      BY <3>1 DEF Venue!KrakenBooks, Venue!OrderBook
  <2>4. msg.last = NoId /\ msg.levels = rows
    BY <2>1, <2>2 DEF Venue!KrakenBooks, Venue!OrderBook
  <2>5. QED
    BY <2>3, <2>4 DEF rows
<1>5. CASE stream = "coinbase"
  <2>1. d = [rows |-> rows]
    BY <1>2, <1>5 DEF d, Data
  <2>2. msg = Venue!CoinbaseL2(d, Venue!IsSnapshot(frame, "update"))
    BY <1>1, <1>5 DEF frame, Exchange, Topic, Venue!Parse, Venue!ParseCoinbase
  <2>3. msg.is_snapshot = FALSE
    <3>1. msg = Venue!CoinbaseL2(d, FALSE)
      BY <1>m, <2>2
    <3>2. QED
      BY <3>1 DEF Venue!CoinbaseL2, Venue!OrderBook
  <2>4. msg.last = NoId /\ msg.levels = rows
    BY <2>1, <2>2 DEF Venue!CoinbaseL2, Venue!OrderBook
  <2>5. QED
    BY <2>3, <2>4 DEF rows
<1>6. QED
  BY <1>3, <1>4, <1>5 DEF Unnumbered, AllStreams, Stamped, Whole

LEMMA MarkOf ==
  ASSUME NEW id \in Nat
  PROVE  /\ id # NoId
         /\ stream \in Stamped => Mark(id) = id
         /\ stream \notin Stamped => Mark(id) = NoId
BY NoIdAssumption DEF Mark

\* A snapshot makes a book that missed nothing, whatever it was before.
LEMMA SnapshotFollows ==
  ASSUME TypeOK, NEW id \in 0 .. head, NEW msg,
         msg.is_snapshot = TRUE, msg.last = Mark(id), msg.levels = history[id],
         Apply(Book, msg), UNCHANGED <<venueVars, stream>>, contains' = id, missed' = FALSE
  PROVE  BookFollows'
<1>1. Book \in Books
  BY BooksAssumption DEF Book
<1>2. history[id] \in States /\ Mark(id) \in 0 .. head \cup {NoId} /\ "Snapshot" \in Outcomes
  BY DEF TypeOK, Mark, Outcomes
<1>3. ApplySnapshot(Book, msg)
  BY DEF Apply, ApplyUnsynced, ApplyStale, ApplyGap, ApplyDelta
<1>4. Set(Book, history[id], Mark(id), TRUE, "Snapshot")
  BY <1>2, <1>3, ApplySnapshotIsCopy DEF ApplySnapshot
<1>5. UNCHANGED <<history, head, stream>>
  BY DEF venueVars
<1>6. TypeOK'
  BY <1>1, <1>2, <1>4, <1>5 DEF TypeOK, Set
<1>7. /\ outcome'[Book] = "Snapshot" /\ levels'[Book] = history'[id]
      /\ last_update_id'[Book] = Mark(id)
  BY <1>1, <1>4, <1>5 DEF TypeOK, Set
<1>8. Mark(id)' = Mark(id)
  BY <1>5 DEF Mark
<1>9. missed' \in BOOLEAN
  OBVIOUS
<1>10. QED
  BY <1>5, <1>6, <1>7, <1>8, <1>9 DEF BookFollows

\* A delta changes one book, and leaves the types as they are.
LEMMA DeltaKeepsTypes ==
  ASSUME TypeOK, NEW b \in Books, NEW to \in 0 .. head, NEW S \in SUBSET Levels, NEW msg,
         msg.is_snapshot = FALSE, msg.last = Mark(to), msg.levels = [k \in S |-> history[to][k]],
         Apply(b, msg), UNCHANGED venueVars
  PROVE  TypeOK'
<1>1. /\ history[to] \in States /\ Mark(to) \in 0 .. head \cup {NoId}
      /\ levels[b] \in States /\ last_update_id[b] \in 0 .. head \cup {NoId}
  BY DEF TypeOK, Mark
<1>2. ApplyLevels(levels[b], msg.levels) \in States
  BY <1>1 DEF ApplyLevels, States
<1>3. ASSUME NEW state \in States, NEW id \in 0 .. head \cup {NoId}, NEW sync \in BOOLEAN,
             NEW out \in Outcomes, Set(b, state, id, sync, out)
      PROVE  TypeOK'
  BY <1>3 DEF TypeOK, Set, venueVars
<1>4. CASE ApplyUnsynced(b, msg)
  BY <1>1, <1>3, <1>4 DEF ApplyUnsynced, Outcomes
<1>5. CASE ApplyStale(b, msg)
  BY <1>1, <1>3, <1>5 DEF ApplyStale, Outcomes
<1>6. CASE ApplyGap(b, msg)
  BY <1>1, <1>3, <1>6 DEF ApplyGap, Outcomes
<1>7. CASE ApplyDelta(b, msg)
  <2>1. \E id \in 0 .. head \cup {NoId} :
          Set(b, ApplyLevels(levels[b], msg.levels), id, TRUE, "Delta")
    BY <1>1, <1>7 DEF ApplyDelta
  <2>2. QED
    BY <1>2, <1>3, <2>1 DEF Outcomes
<1>8. QED
  BY <1>4, <1>5, <1>6, <1>7 DEF Apply, ApplySnapshot

\* A book that missed nothing follows each delta that misses nothing either.
LEMMA DeltaFollows ==
  ASSUME BookFollows, NEW from \in 1 .. head, NEW to \in 1 .. head, from <= to, NEW msg,
         msg.is_snapshot = FALSE, msg.first = Mark(from) \/ stream \notin Stamped,
         msg.last = Mark(to), msg.levels = [k \in Touched(from, to) |-> history[to][k]],
         stream \notin Stamped => contains < from,
         Apply(Book, msg), UNCHANGED <<venueVars, stream>>,
         IF synced[Book]
         THEN /\ contains' = Venue!Larger(contains, to)
              /\ missed' = (missed \/ from > contains + 1)
         ELSE UNCHANGED <<contains, missed>>
  PROVE  BookFollows'
<1>1. Book \in Books
  BY BooksAssumption DEF Book
<1>2. /\ TypeOK /\ contains \in 0 .. head /\ missed \in BOOLEAN /\ head \in Nat
      /\ UNCHANGED <<history, head, stream>>
  BY DEF BookFollows, TypeOK, venueVars
<1>3. TypeOK'
  <2>1. Touched(from, to) \in SUBSET Levels /\ to \in 0 .. head
    BY <1>2 DEF Touched
  <2>2. UNCHANGED venueVars /\ msg.is_snapshot = FALSE /\ msg.last = Mark(to)
    OBVIOUS
  <2>3. msg.levels = [k \in Touched(from, to) |-> history[to][k]] /\ Apply(Book, msg)
    OBVIOUS
  <2>4. QED
    BY <1>1, <1>2, <2>1, <2>2, <2>3, DeltaKeepsTypes
<1>4. contains' \in 0 .. head /\ missed' \in BOOLEAN
  <2>1. CASE synced[Book]
    BY <1>2, <2>1 DEF Venue!Larger
  <2>2. CASE ~ synced[Book]
    BY <1>2, <2>2
  <2>3. QED
    BY <2>1, <2>2
<1>5. CASE missed'
  BY <1>2, <1>3, <1>4, <1>5 DEF BookFollows
<1>6. CASE ~ missed' /\ ~ synced[Book]
  <2>1. ApplyUnsynced(Book, msg)
    BY <1>6 DEF Apply, ApplySnapshot, ApplyStale, ApplyGap, ApplyDelta
  <2>2. ~ synced'[Book] /\ outcome'[Book] = "AwaitingSnapshot"
    BY <1>1, <1>2, <2>1 DEF ApplyUnsynced, Set, TypeOK
  <2>3. QED
    BY <1>2, <1>3, <1>4, <2>2 DEF BookFollows
<1>7. CASE ~ missed' /\ synced[Book]
  <2>1. ~ missed /\ from <= contains + 1 /\ contains' = Venue!Larger(contains, to)
    <3>1. contains' = Venue!Larger(contains, to) /\ missed' = (missed \/ from > contains + 1)
      BY <1>7, Zenon
    <3>2. ~ missed /\ ~ (from > contains + 1)
      BY <1>7, <3>1, Zenon
    <3>3. QED
      BY <1>2, <3>1, <3>2
  <2>2. levels[Book] = history[contains] /\ last_update_id[Book] = Mark(contains)
    BY <1>7, <2>1 DEF BookFollows
  <2>3. CASE stream \in Stamped /\ to <= contains
    <3>1. msg.last = to /\ last_update_id[Book] = contains /\ to # NoId /\ contains # NoId
      <4>1. to \in Nat /\ contains \in Nat
        BY <1>2
      <4>2. QED
        BY <2>2, <2>3, <4>1, MarkOf, Zenon
    <3>2. IsStale(Book, msg)
      BY <2>3, <3>1 DEF IsStale, Checked
    <3>3. ~ IsGap(Book, msg)
      BY <1>2, <2>3, <3>1 DEF IsGap
    <3>4. Set(Book, levels[Book], last_update_id[Book], TRUE, "Stale")
      BY <1>7, <3>2, <3>3
      DEF Apply, ApplySnapshot, ApplyUnsynced, ApplyStale, ApplyGap, ApplyDelta
    <3>5. contains' = contains
      BY <1>2, <2>1, <2>3 DEF Venue!Larger
    <3>6. /\ outcome'[Book] = "Stale" /\ levels'[Book] = levels[Book]
          /\ last_update_id'[Book] = last_update_id[Book]
      BY <1>1, <1>2, <3>4 DEF Set, TypeOK
    <3>7. Mark(contains)' = Mark(contains)
      BY <1>2, <3>5 DEF Mark
    <3>8. QED
      BY <1>2, <1>3, <1>4, <2>2, <3>5, <3>6, <3>7 DEF BookFollows
  <2>4. CASE ~ (stream \in Stamped /\ to <= contains)
    <3>1. contains < to /\ contains' = to
      BY <1>2, <2>1, <2>4 DEF Venue!Larger
    <3>2. ~ IsStale(Book, msg) /\ ~ IsGap(Book, msg)
      <4>1. CASE stream \in Stamped
        <5>1. /\ msg.last = to /\ msg.first = from /\ last_update_id[Book] = contains
              /\ from # NoId /\ from \in Nat /\ to \in Nat
          <6>1. to \in Nat /\ from \in Nat /\ contains \in Nat
            BY <1>2
          <6>2. QED
            BY <2>2, <4>1, <6>1, MarkOf, Zenon
        <5>2. FirstOf(msg) = from
          BY <5>1 DEF FirstOf
        <5>3. QED
          BY <1>2, <2>1, <3>1, <5>1, <5>2 DEF IsStale, IsGap
      <4>2. CASE stream \notin Stamped
        BY <4>2 DEF IsStale, IsGap, Checked, Mark
      <4>3. QED
        BY <4>1, <4>2
    <3>3. Set(Book, ApplyLevels(levels[Book], msg.levels),
              IF msg.last # NoId THEN msg.last ELSE last_update_id[Book], TRUE, "Delta")
      BY <1>7, <3>2 DEF Apply, ApplySnapshot, ApplyUnsynced, ApplyStale, ApplyGap, ApplyDelta
    <3>4. ApplyLevels(levels[Book], msg.levels) = history[to]
      <4>1. Delta(from, to, from).levels = msg.levels
        BY DEF Delta
      <4>2. ApplyLevels(history[contains], Delta(from, to, from).levels) = history[to]
        BY <1>2, <2>1, <3>1, ApplyDeltaIsExact
      <4>3. QED
        BY <2>2, <4>1, <4>2
    <3>5. (IF msg.last # NoId THEN msg.last ELSE last_update_id[Book]) = Mark(to)
      <4>1. to \in Nat /\ contains \in Nat
        BY <1>2
      <4>2. CASE stream \in Stamped
        BY <4>1, <4>2, MarkOf, Zenon
      <4>3. CASE stream \notin Stamped
        BY <2>2, <4>1, <4>3, MarkOf, Zenon
      <4>4. QED
        BY <4>2, <4>3
    <3>6. /\ outcome'[Book] = "Delta" /\ levels'[Book] = history[to]
          /\ last_update_id'[Book] = Mark(to)
      BY <1>1, <1>2, <3>3, <3>4, <3>5 DEF Set, TypeOK
    <3>7. Mark(contains)' = Mark(to)
      BY <1>2, <3>1 DEF Mark
    <3>8. QED
      BY <1>2, <1>3, <1>4, <3>1, <3>6, <3>7 DEF BookFollows
  <2>5. QED
    BY <2>3, <2>4
<1>8. QED
  BY <1>4, <1>5, <1>6, <1>7

LEMMA FramesOnWire ==
  ASSUME FeedInv
  PROVE  /\ Len(wire) \in Nat
         /\ \A i \in 1 .. Len(wire) : wire[i].from \in Nat /\ wire[i].to \in 0 .. head
<1>1. wire \in Seq(Snapshots \cup Deltas) /\ head \in Nat
  BY DEF FeedInv, VenueTypes
<1>2. ASSUME NEW f \in Snapshots \cup Deltas
      PROVE  f.from \in Nat /\ f.to \in 0 .. head
  <2>1. CASE f \in Snapshots
    BY <2>1 DEF Snapshots, Frame
  <2>2. CASE f \in Deltas
    <3>1. PICK r \in Ranges : f = Frame("update", r[1], r[2])
      BY <2>2 DEF Deltas
    <3>2. r[1] \in 1 .. head /\ r[2] \in 1 .. head
      BY DEF Ranges
    <3>3. f.from = r[1] /\ f.to = r[2]
      BY <3>1 DEF Frame
    <3>4. QED
      BY <1>1, <3>2, <3>3
  <2>3. QED
    BY <1>2, <2>1, <2>2
<1>3. QED
  BY <1>1, <1>2, LenProperties, ElementOfSeq

LEMMA ReadKeepsOrder ==
  ASSUME FeedInv, WireInOrder, contains \in 0 .. head, wire # <<>>, wire' = Tail(wire),
         contains' = contains \/ contains' = Head(wire).to,
         UNCHANGED <<stream, sent, online, fetched>>
  PROVE  WireInOrder'
<1> SUFFICES ASSUME stream \notin Stamped
             PROVE  /\ fetched = NoId
                    /\ online => contains' <= sent
                    /\ \A i \in 1 .. Len(wire') :
                         /\ wire'[i].to <= sent
                         /\ wire'[i].type = "update" =>
                              /\ contains' < wire'[i].from
                              /\ \A j \in 1 .. i - 1 : wire'[j].to < wire'[i].from
  BY DEF WireInOrder, Stamped
<1>1. wire \in Seq(Snapshots \cup Deltas) /\ sent \in 0 .. head /\ head \in Nat
  BY DEF FeedInv, VenueTypes
<1>2. /\ Len(wire) \in Nat /\ Len(wire') = Len(wire) - 1 /\ Len(wire) >= 1
      /\ Head(wire) = wire[1] /\ \A i \in 1 .. Len(wire') : wire'[i] = wire[i + 1]
  BY <1>1, HeadTailProperties, LenProperties
<1>3. \A i \in 1 .. Len(wire) : wire[i].from \in Nat /\ wire[i].to \in 0 .. head
  BY FramesOnWire
<1>4. /\ fetched = NoId
      /\ online => contains <= sent
      /\ \A i \in 1 .. Len(wire) :
           /\ wire[i].to <= sent
           /\ wire[i].type = "update" =>
                contains < wire[i].from /\ \A j \in 1 .. i - 1 : wire[j].to < wire[i].from
  BY DEF WireInOrder
<1>5. ASSUME online PROVE contains' <= sent
  <2>1. contains <= sent
    BY <1>4, <1>5
  <2>2. wire[1].to <= sent
    BY <1>2, <1>4
  <2>3. QED
    BY <1>2, <2>1, <2>2
<1>6. ASSUME NEW i \in 1 .. Len(wire')
      PROVE  /\ wire'[i].to <= sent
             /\ wire'[i].type = "update" =>
                  /\ contains' < wire'[i].from
                  /\ \A j \in 1 .. i - 1 : wire'[j].to < wire'[i].from
  <2>1. i + 1 \in 1 .. Len(wire) /\ wire'[i] = wire[i + 1] /\ 1 \in 1 .. (i + 1) - 1
    BY <1>2
  <2>2. ASSUME wire'[i].type = "update"
        PROVE  contains' < wire'[i].from
    <3>1. contains < wire[i + 1].from /\ wire[1].to < wire[i + 1].from
      BY <1>4, <2>1, <2>2
    <3>2. QED
      BY <1>2, <2>1, <3>1
  <2>3. ASSUME wire'[i].type = "update", NEW j \in 1 .. i - 1
        PROVE  wire'[j].to < wire'[i].from
    <3>1. j + 1 \in 1 .. (i + 1) - 1 /\ j \in 1 .. Len(wire')
      BY <1>2
    <3>2. wire'[j] = wire[j + 1]
      BY <1>2, <3>1
    <3>3. wire[j + 1].to < wire[i + 1].from
      BY <1>4, <2>1, <2>3, <3>1
    <3>4. QED
      BY <2>1, <3>2, <3>3
  <2>4. QED
    BY <1>4, <2>1, <2>2, <2>3
<1>7. QED
  BY <1>4, <1>5, <1>6, Zenon

\* Reading a frame, with an ID or without, keeps the book exact.
LEMMA DeliveryFollows ==
  ASSUME FeedInv, BookFollows, WireInOrder, Deliver
  PROVE  BookFollows' /\ WireInOrder'
<1>1. /\ UNCHANGED <<venueVars, stream, online, sent, fetched>>
      /\ wire # <<>> /\ wire' = Tail(wire)
  BY DEF Deliver
<1>2. PICK msg : msg = Venue!Parse(Exchange, Head(wire))
  OBVIOUS
<1>3. Apply(Book, msg)
  BY <1>2 DEF Deliver
<1>4. IF Head(wire).type = "snapshot"
      THEN contains' = Head(wire).to /\ missed' = FALSE
      ELSE IF synced[Book]
      THEN /\ contains' = Venue!Larger(contains, Head(wire).to)
           /\ missed' = (missed \/ Head(wire).from > contains + 1)
      ELSE UNCHANGED <<contains, missed>>
  BY DEF Deliver
<1>5. /\ head \in Nat /\ TypeOK /\ contains \in 0 .. head /\ stream \in AllStreams
      /\ wire \in Seq(Snapshots \cup Deltas) /\ VenueTypes /\ OneLevelEach
  BY DEF BookFollows, FeedInv, VenueTypes
<1>6. Head(wire) \in Snapshots \cup Deltas /\ Head(wire) = wire[1] /\ 1 \in 1 .. Len(wire)
  BY <1>1, <1>5, HeadTailProperties, LenProperties
<1>7. CASE Head(wire) \in Snapshots
  <2>1. PICK from \in Nat, to \in 0 .. head : Head(wire) = Frame("snapshot", from, to)
    BY <1>7, Zenon DEF Snapshots
  <2>2. to \in Nat /\ stream \in Opening \cup Whole
    BY <1>5, <1>7 DEF Snapshots
  <2>3. Head(wire).type = "snapshot" /\ Head(wire).to = to
    BY <2>1 DEF Frame
  <2>4. msg.is_snapshot = TRUE /\ msg.last = Mark(to) /\ msg.levels = history[to]
    <3>1. CASE stream \in Stamped
      <4>1. IsSnapshotOf(Venue!Parse(Exchange, Frame("snapshot", from, to)), to)
        BY <2>2, <3>1, ParseOfSnapshot
      <4>2. IsSnapshotOf(msg, to)
        BY <1>2, <2>1, <4>1
      <4>3. QED
        BY <2>2, <3>1, <4>2, MarkOf, Zenon DEF IsSnapshotOf
    <3>2. CASE stream \notin Stamped
      <4>1. stream \in Unnumbered /\ msg = Venue!Parse(Exchange, Frame("snapshot", from, to))
        BY <1>2, <1>5, <2>1, <3>2 DEF Unnumbered
      <4>2. msg.is_snapshot = TRUE /\ msg.last = NoId /\ msg.levels = history[to]
        BY <2>2, <4>1, ParseOfPlainSnapshot, ZenonT(60)
      <4>3. QED
        BY <2>2, <3>2, <4>2, MarkOf, Zenon
    <3>3. QED
      BY <3>1, <3>2
  <2>5. contains' = to /\ missed' = FALSE
    BY <1>4, <2>3
  <2>6. BookFollows'
    BY <1>1, <1>3, <1>5, <2>4, <2>5, SnapshotFollows
  <2>7. WireInOrder'
    BY <1>1, <1>5, <2>3, <2>5, ReadKeepsOrder
  <2>8. QED
    BY <2>6, <2>7
<1>8. CASE Head(wire) \in Deltas
  <2>1. PICK from \in 1 .. head, to \in 1 .. head :
          Head(wire) = Frame("update", from, to) /\ from <= to /\ (stream \in OneUpdate => from = to)
    BY <1>8 DEF Deltas, Ranges
  <2>2. stream \notin Whole
    BY <1>8 DEF Deltas
  <2>3. Head(wire).type = "update" /\ Head(wire).from = from /\ Head(wire).to = to
    BY <2>1 DEF Frame
  <2>4. from \in Nat /\ to \in Nat
    BY <1>5
  <2>5. /\ msg.is_snapshot = FALSE /\ (msg.first = Mark(from) \/ stream \notin Stamped)
        /\ msg.last = Mark(to) /\ msg.levels = [k \in Touched(from, to) |-> history[to][k]]
    <3>1. CASE stream \in Stamped
      <4>1. IsDeltaOf(Venue!Parse(Exchange, Frame("update", from, to)), from, to)
        BY <1>5, <2>1, <2>2, <3>1, ParseOfDelta
      <4>2. IsDeltaOf(msg, from, to)
        BY <1>2, <2>1, <4>1
      <4>3. QED
        BY <2>4, <3>1, <4>2, MarkOf, Zenon DEF IsDeltaOf
    <3>2. CASE stream \notin Stamped
      <4>1. stream \in Unnumbered /\ msg = Venue!Parse(Exchange, Frame("update", from, to))
        BY <1>2, <1>5, <2>1, <3>2 DEF Unnumbered
      <4>2. /\ msg.is_snapshot = FALSE /\ msg.last = NoId
            /\ msg.levels = [k \in Touched(from, to) |-> history[to][k]]
        BY <2>2, <2>4, <4>1, ParseOfPlainDelta, ZenonT(60)
      <4>3. QED
        BY <2>4, <3>2, <4>2, MarkOf, Zenon
    <3>3. QED
      BY <3>1, <3>2
  <2>6. stream \notin Stamped => contains < from
    BY <1>6, <2>3 DEF WireInOrder
  <2>7. IF synced[Book]
        THEN /\ contains' = Venue!Larger(contains, to)
             /\ missed' = (missed \/ from > contains + 1)
        ELSE UNCHANGED <<contains, missed>>
    BY <1>4, <2>3, Zenon
  <2>8. BookFollows'
    BY <1>1, <1>3, <2>1, <2>5, <2>6, <2>7, DeltaFollows
  <2>9. contains' = contains \/ contains' = Head(wire).to
    <3>1. contains' = contains \/ contains' = Venue!Larger(contains, to)
      BY <2>7, Zenon
    <3>2. QED
      BY <1>5, <2>3, <2>4, <3>1 DEF Venue!Larger
  <2>10. WireInOrder'
    BY <1>1, <1>5, <2>9, ReadKeepsOrder
  <2>11. QED
    BY <2>8, <2>10
<1>9. QED
  BY <1>6, <1>7, <1>8

LEMMA VenueUpdatesKeepFollowing ==
  ASSUME FeedInv, FeedInv', BookFollows, WireInOrder, VenueUpdates
  PROVE  BookFollows' /\ WireInOrder'
<1>1. /\ ExchangeUpdates
      /\ UNCHANGED <<levels, last_update_id, synced, outcome>>
      /\ UNCHANGED <<stream, online, sent, wire, fetched, contains, missed>>
  BY DEF VenueUpdates, ExchangeUpdates, bookVars, feedVars
<1>2. /\ head \in Nat /\ head' = head + 1 /\ head' \in Nat /\ history' \in [0 .. head' -> States]
      /\ \A i \in 0 .. head : history'[i] = history[i]
  BY <1>1 DEF FeedInv, VenueTypes, ExchangeUpdates
<1>3. /\ TypeOK /\ contains \in 0 .. head /\ missed \in BOOLEAN
      /\ ~ missed => outcome[Book] # "Gap"
      /\ ~ missed /\ synced[Book] =>
           levels[Book] = history[contains] /\ last_update_id[Book] = Mark(contains)
  BY DEF BookFollows
<1>4. TypeOK'
  <2>1. last_update_id \in [Books -> 0 .. head' \cup {NoId}]
    BY <1>2, <1>3 DEF TypeOK
  <2>2. QED
    BY <1>1, <1>2, <1>3, <2>1 DEF TypeOK
<1>5. contains' \in 0 .. head' /\ history'[contains] = history[contains]
  BY <1>1, <1>2, <1>3
<1>6. Mark(contains)' = Mark(contains)
  BY <1>1 DEF Mark
<1>7. BookFollows'
  BY <1>1, <1>3, <1>4, <1>5, <1>6, Zenon DEF BookFollows
<1>8. WireInOrder'
  BY <1>1 DEF WireInOrder
<1>9. QED
  BY <1>7, <1>8

\* A new session: the venue's snapshot, where it sends one, is newer than the book.
LEMMA SubscribeKeepsOrder ==
  ASSUME FeedInv, BookFollows, WireInOrder, Subscribe
  PROVE  WireInOrder'
<1> SUFFICES ASSUME stream \notin Stamped
             PROVE  /\ fetched' = NoId
                    /\ online' => contains' <= sent'
                    /\ \A i \in 1 .. Len(wire') :
                         /\ wire'[i].to <= sent'
                         /\ wire'[i].type = "update" =>
                              /\ contains' < wire'[i].from
                              /\ \A j \in 1 .. i - 1 : wire'[j].to < wire'[i].from
  BY DEF WireInOrder, Subscribe
<1>1. /\ UNCHANGED <<fetched, contains>> /\ sent' = head
      /\ wire' = IF stream \in Opening THEN <<Frame("snapshot", head, head)>> ELSE <<>>
  BY DEF Subscribe
<1>2. fetched = NoId /\ contains \in 0 .. head /\ head \in Nat
  BY DEF WireInOrder, BookFollows, FeedInv, VenueTypes
<1>3. CASE stream \in Opening
  <2>1. Len(wire') = 1 /\ wire'[1] = Frame("snapshot", head, head)
    BY <1>1, <1>3
  <2>2. wire'[1].to = head /\ wire'[1].type = "snapshot"
    BY <2>1 DEF Frame
  <2>3. QED
    BY <1>1, <1>2, <2>1, <2>2
<1>4. CASE stream \notin Opening
  <2>1. Len(wire') = 0
    BY <1>1, <1>4
  <2>2. QED
    BY <1>1, <1>2, <2>1
<1>5. QED
  BY <1>3, <1>4

\* The next frame starts where the last one ended.
LEMMA PushKeepsOrder ==
  ASSUME FeedInv, BookFollows, WireInOrder, Push
  PROVE  WireInOrder'
<1> SUFFICES ASSUME stream \notin Stamped
             PROVE  /\ fetched' = NoId
                    /\ online' => contains' <= sent'
                    /\ \A i \in 1 .. Len(wire') :
                         /\ wire'[i].to <= sent'
                         /\ wire'[i].type = "update" =>
                              /\ contains' < wire'[i].from
                              /\ \A j \in 1 .. i - 1 : wire'[j].to < wire'[i].from
  BY DEF WireInOrder, Push
<1>1. /\ online /\ UNCHANGED <<fetched, contains>>
      /\ \E to \in sent + 1 .. head, type \in {"snapshot", "update"} :
           wire' = Append(wire, Frame(type, sent + 1, to)) /\ sent' = to
  BY DEF Push
<1>2. PICK to \in sent + 1 .. head, type \in {"snapshot", "update"} :
        wire' = Append(wire, Frame(type, sent + 1, to)) /\ sent' = to
  BY <1>1
<1>3. /\ fetched = NoId
      /\ online => contains <= sent
      /\ \A i \in 1 .. Len(wire) :
           /\ wire[i].to <= sent
           /\ wire[i].type = "update" =>
                contains < wire[i].from /\ \A j \in 1 .. i - 1 : wire[j].to < wire[i].from
  BY DEF WireInOrder
<1>4. /\ contains \in 0 .. head /\ head \in Nat /\ sent \in 0 .. head
      /\ wire \in Seq(Snapshots \cup Deltas)
  BY DEF BookFollows, FeedInv, VenueTypes
<1>5. /\ Len(wire) \in Nat
      /\ \A i \in 1 .. Len(wire) : wire[i].from \in Nat /\ wire[i].to \in 0 .. head
  BY FramesOnWire
<1>6. /\ Len(wire') = Len(wire) + 1
      /\ \A i \in 1 .. Len(wire) : wire'[i] = wire[i]
      /\ wire'[Len(wire) + 1] = Frame(type, sent + 1, to)
  <2>1. wire \in Seq(Snapshots \cup Deltas \cup {Frame(type, sent + 1, to)})
    BY <1>4, LargerSeq
  <2>2. QED
    BY <1>2, <1>5, <2>1, AppendProperties
<1>7. contains <= sent
  BY <1>1, <1>3
<1>8. ASSUME NEW i \in 1 .. Len(wire')
      PROVE  /\ wire'[i].to <= to
             /\ wire'[i].type = "update" =>
                  /\ contains < wire'[i].from
                  /\ \A j \in 1 .. i - 1 : wire'[j].to < wire'[i].from
  <2>1. CASE i \in 1 .. Len(wire)
    <3>1. wire'[i] = wire[i] /\ wire[i].to <= to
      BY <1>3, <1>4, <1>5, <1>6, <2>1
    <3>2. ASSUME wire[i].type = "update", NEW j \in 1 .. i - 1
          PROVE  wire'[j].to < wire[i].from
      <4>1. j \in 1 .. Len(wire) /\ wire'[j] = wire[j]
        BY <1>5, <1>6, <2>1
      <4>2. QED
        BY <1>3, <2>1, <3>2, <4>1
    <3>3. QED
      BY <1>3, <2>1, <3>1, <3>2
  <2>2. CASE i = Len(wire) + 1
    <3>1. wire'[i].to = to /\ wire'[i].from = sent + 1
      BY <1>6, <2>2 DEF Frame
    <3>2. ASSUME NEW j \in 1 .. i - 1
          PROVE  wire'[j].to < sent + 1
      <4>1. j \in 1 .. Len(wire) /\ wire'[j] = wire[j]
        BY <1>5, <1>6, <2>2
      <4>2. wire[j].to <= sent /\ wire[j].to \in 0 .. head
        BY <1>3, <1>5, <4>1
      <4>3. QED
        BY <1>4, <4>1, <4>2
    <3>3. QED
      BY <1>4, <1>7, <3>1, <3>2
  <2>3. QED
    BY <1>5, <1>6, <2>1, <2>2
<1>9. online' => contains' <= sent'
  BY <1>1, <1>2, <1>4, <1>7
<1>10. QED
  BY <1>1, <1>2, <1>3, <1>8, <1>9

LEMMA FollowStep ==
  ASSUME FeedInv, FeedInv', BookFollows, WireInOrder, [BookFeedNext]_allVars
  PROVE  BookFollows' /\ WireInOrder'
<1>1. ASSUME UNCHANGED <<vars, stream, contains, missed>>
      PROVE  BookFollows'
  <2>1. UNCHANGED <<history, head, levels, last_update_id, synced, outcome>>
    BY <1>1 DEF vars, venueVars, bookVars
  <2>2. TypeOK'
    BY <2>1 DEF BookFollows, TypeOK
  <2>3. Mark(contains)' = Mark(contains)
    BY <1>1 DEF Mark
  <2>4. QED
    BY <1>1, <2>1, <2>2, <2>3, Zenon DEF BookFollows
<1>2. CASE VenueUpdates
  BY <1>2, VenueUpdatesKeepFollowing
<1>3. CASE Subscribe
  BY <1>1, <1>3, SubscribeKeepsOrder DEF Subscribe
<1>4. CASE Push
  BY <1>1, <1>4, PushKeepsOrder DEF Push
<1>5. CASE Disconnect
  <2>1. /\ UNCHANGED <<vars, stream, fetched, contains, missed>>
        /\ wire' = <<>> /\ ~ online'
    BY <1>5 DEF Disconnect
  <2>2. Len(wire') = 0
    BY <2>1
  <2>3. WireInOrder'
    BY <2>1, <2>2 DEF WireInOrder, Stamped
  <2>4. QED
    BY <1>1, <2>1, <2>3
<1>6. CASE FetchSnapshot
  <2>1. UNCHANGED <<vars, stream, contains, missed>> /\ stream \in Stamped
    BY <1>6 DEF FetchSnapshot, Fetching, Stamped
  <2>2. WireInOrder'
    BY <2>1 DEF WireInOrder, Stamped
  <2>3. QED
    BY <1>1, <2>1, <2>2
<1>7. CASE ApplyFetched
  <2>1. /\ fetched # NoId /\ Apply(Book, Snapshot(fetched)) /\ contains' = fetched
        /\ missed' = FALSE /\ UNCHANGED <<venueVars, stream>>
    BY <1>7 DEF ApplyFetched
  <2>2. stream \in Stamped
    BY <2>1 DEF WireInOrder
  <2>3. fetched \in 0 .. head /\ fetched \in Nat /\ TypeOK
    BY <2>1 DEF FeedInv, VenueTypes, BookFollows
  <2>4. /\ Snapshot(fetched).is_snapshot = TRUE /\ Snapshot(fetched).last = fetched
        /\ Snapshot(fetched).levels = history[fetched]
    BY DEF Snapshot
  <2>5. Snapshot(fetched).last = Mark(fetched)
    BY <2>2, <2>3, <2>4, MarkOf
  <2>6. BookFollows'
    BY <2>1, <2>3, <2>4, <2>5, SnapshotFollows
  <2>7. WireInOrder'
    BY <2>1, <2>2 DEF WireInOrder, Stamped
  <2>8. QED
    BY <2>6, <2>7
<1>8. CASE Deliver
  BY <1>8, DeliveryFollows
<1>9. CASE SkipFrame
  <2>1. /\ wire # <<>> /\ wire' = Tail(wire) /\ contains' = contains
        /\ UNCHANGED <<vars, stream, online, sent, fetched, contains, missed>>
    BY <1>9 DEF SkipFrame
  <2>2. contains \in 0 .. head
    BY DEF BookFollows
  <2>3. WireInOrder'
    BY <2>1, <2>2, ReadKeepsOrder
  <2>4. QED
    BY <1>1, <2>1, <2>3
<1>10. CASE UNCHANGED allVars
  <2>1. UNCHANGED <<vars, stream, online, sent, wire, fetched, contains, missed>>
    BY <1>10 DEF allVars, feedVars
  <2>2. WireInOrder'
    BY <2>1 DEF WireInOrder
  <2>3. QED
    BY <1>1, <2>1, <2>2
<1>11. QED
  BY <1>2, <1>3, <1>4, <1>5, <1>6, <1>7, <1>8, <1>9, <1>10 DEF BookFeedNext

LEMMA FollowInit == BookFeedInit => BookFollows /\ WireInOrder
<1> SUFFICES ASSUME BookFeedInit PROVE BookFollows /\ WireInOrder
  OBVIOUS
<1>1. Init /\ wire = <<>> /\ fetched = NoId /\ contains = 0 /\ missed = FALSE /\ online = FALSE
  BY DEF BookFeedInit
<1>2. TypeOK /\ head = 0
  BY <1>1, IInvInit DEF IInv, Init
<1>3. outcome[Book] = "None" /\ synced[Book] = FALSE
  BY <1>1, BooksAssumption DEF Init, Book
<1>4. BookFollows
  <2>1. contains \in 0 .. head /\ missed \in BOOLEAN
    <3>1. contains \in 0 .. head
      BY <1>1, <1>2
    <3>2. missed \in BOOLEAN
      BY <1>1
    <3>3. QED
      BY <3>1, <3>2
  <2>2. ~ synced[Book] /\ outcome[Book] # "Gap"
    BY <1>3
  <2>3. QED
    BY <1>2, <2>1, <2>2 DEF BookFollows
<1>5. WireInOrder
  <2>1. Len(wire) = 0 /\ ~ online
    BY <1>1
  <2>2. QED
    BY <1>1, <2>1 DEF WireInOrder
<1>6. QED
  BY <1>4, <1>5

\* As long as every update since the last snapshot reached it, a synced book is
\* the venue's book at the last of them and reports no gap: on every stream, the
\* ones without IDs included, for any sessions and any length of the wire.
THEOREM LosslessBooksAreExact == BookFeedSpec => []LosslessBookIsExact
<1>1. BookFollows => LosslessBookIsExact
  BY DEF BookFollows, LosslessBookIsExact
<1>2. FeedInv /\ FeedInv' /\ BookFollows /\ WireInOrder /\ [BookFeedNext]_allVars
        => BookFollows' /\ WireInOrder'
  BY FollowStep
<1>3. QED
  BY <1>1, <1>2, FeedInit, FeedStep, FollowInit, PTL DEF BookFeedSpec
==================================================================================
