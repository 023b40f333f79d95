---------------------------- MODULE LocalOrderBook ----------------------------
(***************************************************************************)
(* LocalOrderBook (src/src/book.rs): a local copy of an exchange's order   *)
(* book assembled from snapshots and deltas that carry update IDs.         *)
(*                                                                         *)
(* The exchange numbers its book's states 0, 1, 2, ...; history[i] is the  *)
(* book after update i.  What reaches the consumers is the worst a feed    *)
(* with reconnects can do: any snapshot of a past state and any delta over *)
(* a past range of updates, at any time, any number of times, in any order *)
(* or never.  The venues' stamping (Binance U/u, Bybit u, OKX prevSeqId/   *)
(* seqId, Crypto.com pu/u, KuCoin sequence) yields such a range; a venue   *)
(* that leaves out the first ID is covered by the unwrap_or in apply.      *)
(*                                                                         *)
(* A side of the book maps a price to a quantity; a level that is absent   *)
(* from the BTreeMap has quantity 0 here, so removing a level and setting  *)
(* it to 0 are the same.  Several books may exist (Books): snapshot() of   *)
(* one can seed another.                                                   *)
(***************************************************************************)
EXTENDS Integers

CONSTANTS Books,       \* the LocalOrderBook values of the program
          Prices,      \* the prices that occur
          Quantities,  \* the non-zero quantities that occur
          MaxUpdates,  \* bound on the exchange's updates
          NoId         \* Option::None for an update ID

ASSUME PricesAssumption     == Prices \subseteq Int
ASSUME QuantitiesAssumption == Quantities \subseteq Nat \ {0}
ASSUME NoIdAssumption       == NoId \notin Nat
ASSUME MaxUpdatesAssumption == MaxUpdates \in Nat

VARIABLES
  history,         \* the exchange's book after each update
  head,            \* the last update of the exchange
  levels,          \* bids and asks of each local book
  last_update_id,  \* last applied update ID of each local book
  synced,          \* a snapshot was applied and no gap was seen since
  outcome          \* what the last apply returned

venueVars == <<history, head>>
bookVars  == <<levels, last_update_id, synced, outcome>>
vars == <<venueVars, bookVars>>

-----------------------------------------------------------------------------

Levels == {"bid", "ask"} \X Prices

States == [Levels -> Quantities \cup {0}]

NoLevels == [k \in Levels |-> 0]

Has(state, side, p) == state[<<side, p>>] # 0

\* best_bid() >= best_ask(), when both sides have depth.
IsCrossed(state) ==
  \E b, a \in Prices : Has(state, "bid", b) /\ Has(state, "ask", a) /\ b >= a

\* Set or remove the listed levels, leave the others alone.
ApplyLevels(state, listed) ==
  [k \in Levels |-> IF k \in DOMAIN listed THEN listed[k] ELSE state[k]]

-----------------------------------------------------------------------------
(* Messages *)

Snapshot(id) == [is_snapshot |-> TRUE, first |-> id, last |-> id, levels |-> history[id]]

\* The levels touched by updates first..last, with the quantity after last.
Touched(first, last) ==
  {k \in Levels : \E i \in first - 1 .. last : history[i][k] # history[last][k]}

Delta(first, last, shown) ==
  [is_snapshot |-> FALSE, first |-> shown, last |-> last,
   levels |-> [k \in Touched(first, last) |-> history[last][k]]]

\* snapshot(): export a book so that it can seed another.
Export(b) ==
  [is_snapshot |-> TRUE, first |-> last_update_id[b], last |-> last_update_id[b],
   levels |-> levels[b]]

-----------------------------------------------------------------------------
(* apply(), one disjunct per outcome *)

Set(b, state, id, sync, out) ==
  /\ levels' = [levels EXCEPT ![b] = state]
  /\ last_update_id' = [last_update_id EXCEPT ![b] = id]
  /\ synced' = [synced EXCEPT ![b] = sync]
  /\ outcome' = [outcome EXCEPT ![b] = out]

ApplySnapshot(b, msg) ==
  /\ msg.is_snapshot
  /\ Set(b, ApplyLevels(NoLevels, msg.levels), msg.last, TRUE, "Snapshot")

\* Mutant of ApplyUnsynced: the next delta resynchronises the book.
ApplyUnsyncedResumes(b, msg) ==
  /\ ~ msg.is_snapshot
  /\ ~ synced[b]
  /\ Set(b, ApplyLevels(levels[b], msg.levels), last_update_id[b], TRUE, "Delta")

ApplyUnsynced(b, msg) ==
  /\ ~ msg.is_snapshot
  /\ ~ synced[b]
  /\ Set(b, levels[b], last_update_id[b], FALSE, "AwaitingSnapshot")

\* Both the book and the message carry IDs: the sequence check applies.
Checked(b, msg) == last_update_id[b] # NoId /\ msg.last # NoId

FirstOf(msg) == IF msg.first = NoId THEN msg.last ELSE msg.first

IsStale(b, msg) == Checked(b, msg) /\ msg.last <= last_update_id[b]

\* Mutant of IsGap: one missing update is tolerated.
IsGapOfTwo(b, msg) ==
  /\ Checked(b, msg)
  /\ msg.last > last_update_id[b]
  /\ FirstOf(msg) > last_update_id[b] + 2

IsGap(b, msg) ==
  /\ Checked(b, msg)
  /\ msg.last > last_update_id[b]
  /\ FirstOf(msg) > last_update_id[b] + 1

ApplyStale(b, msg) ==
  /\ ~ msg.is_snapshot
  /\ synced[b]
  /\ IsStale(b, msg)
  /\ Set(b, levels[b], last_update_id[b], TRUE, "Stale")

\* Mutant of ApplyGap: the levels of the delta after the gap are kept.
ApplyGapAnyway(b, msg) ==
  /\ ~ msg.is_snapshot
  /\ synced[b]
  /\ IsGap(b, msg)
  /\ Set(b, ApplyLevels(levels[b], msg.levels), last_update_id[b], FALSE, "Gap")

ApplyGap(b, msg) ==
  /\ ~ msg.is_snapshot
  /\ synced[b]
  /\ IsGap(b, msg)
  /\ Set(b, levels[b], last_update_id[b], FALSE, "Gap")

\* Mutant of ApplyDelta: the next expected ID is stored.
ApplyDeltaNextId(b, msg) ==
  /\ ~ msg.is_snapshot
  /\ synced[b]
  /\ ~ IsStale(b, msg)
  /\ ~ IsGap(b, msg)
  /\ Set(b, ApplyLevels(levels[b], msg.levels),
            IF msg.last # NoId THEN msg.last + 1 ELSE last_update_id[b], TRUE, "Delta")

ApplyDelta(b, msg) ==
  /\ ~ msg.is_snapshot
  /\ synced[b]
  /\ ~ IsStale(b, msg)
  /\ ~ IsGap(b, msg)
  /\ Set(b, ApplyLevels(levels[b], msg.levels),
            IF msg.last # NoId THEN msg.last ELSE last_update_id[b], TRUE, "Delta")

Apply(b, msg) ==
  \/ ApplySnapshot(b, msg)
  \/ ApplyUnsynced(b, msg)
  \/ ApplyStale(b, msg)
  \/ ApplyGap(b, msg)
  \/ ApplyDelta(b, msg)

-----------------------------------------------------------------------------

Init ==
  /\ head = 0
  /\ history = [i \in {0} |-> NoLevels]
  /\ levels = [b \in Books |-> NoLevels]
  /\ last_update_id = [b \in Books |-> NoId]
  /\ synced = [b \in Books |-> FALSE]
  /\ outcome = [b \in Books |-> "None"]

\* The matching engine moves to any other uncrossed book.
ExchangeUpdates ==
  /\ head < MaxUpdates
  /\ \E state \in States :
       /\ ~ IsCrossed(state)
       /\ history' = [i \in 0 .. head + 1 |-> IF i <= head THEN history[i] ELSE state]
  /\ head' = head + 1
  /\ UNCHANGED bookVars

DeliverSnapshot(b) ==
  /\ \E id \in 0 .. head : Apply(b, Snapshot(id))
  /\ UNCHANGED venueVars

DeliverDelta(b) ==
  /\ \E first \in 1 .. head, last \in 1 .. head :
       /\ first <= last
       /\ \E shown \in {first, NoId} : Apply(b, Delta(first, last, shown))
  /\ UNCHANGED venueVars

\* One book seeds another.  The program exports a book that has been seeded
\* itself: an export of a book without IDs would be taken for a snapshot of an
\* unsequenced venue.
Reseed(b) ==
  /\ \E c \in Books \ {b} : last_update_id[c] # NoId /\ Apply(b, Export(c))
  /\ UNCHANGED venueVars

Next ==
  \/ ExchangeUpdates
  \/ \E b \in Books : DeliverSnapshot(b) \/ DeliverDelta(b) \/ Reseed(b)

Spec == Init /\ [][Next]_vars

-----------------------------------------------------------------------------
(* Properties *)

Outcomes == {"None", "Snapshot", "Delta", "AwaitingSnapshot", "Stale", "Gap"}

TypeOK ==
  /\ head \in Nat
  /\ history \in [0 .. head -> States]
  /\ levels \in [Books -> States]
  /\ last_update_id \in [Books -> 0 .. head \cup {NoId}]
  /\ synced \in [Books -> BOOLEAN]
  /\ outcome \in [Books -> Outcomes]

\* A synced book is exactly the exchange's book after the update it names, for
\* every loss, duplication and reordering of the feed: no delta is applied on
\* top of a state it does not follow.
SyncedIsExact ==
  \A b \in Books : synced[b] =>
    last_update_id[b] # NoId /\ levels[b] = history[last_update_id[b]]

\* is_crossed() never fires on a synced book of a venue whose own book is
\* never crossed: a crossed local book means a delta was misapplied.
SyncedIsNotCrossed == \A b \in Books : synced[b] => ~ IsCrossed(levels[b])

\* Only a snapshot moves a book back to an older update, and only a snapshot
\* brings it back in sync; a gap leaves its levels as they were.
OnlySnapshotsRewind ==
  [][\A b \in Books :
       \/ outcome'[b] = "Snapshot"
       \/ /\ synced'[b] => synced[b]
          /\ last_update_id[b] # NoId => last_update_id'[b] >= last_update_id[b]
          /\ synced[b] /\ ~ synced'[b] => levels'[b] = levels[b]]_vars

\* The inductive invariant: even a book that lost sync still shows the state
\* of the last update it applied, so exporting it is sound.
LevelsMatchId ==
  \A b \in Books : last_update_id[b] # NoId => levels[b] = history[last_update_id[b]]

SyncedHasId == \A b \in Books : synced[b] => last_update_id[b] # NoId

VenueIsNotCrossed == \A i \in 0 .. head : ~ IsCrossed(history[i])

IInv == TypeOK /\ LevelsMatchId /\ SyncedHasId /\ VenueIsNotCrossed
=============================================================================
