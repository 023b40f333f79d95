------------------------- MODULE LocalOrderBook_proofs -------------------------
(***************************************************************************)
(* Machine-checked proofs about LocalOrderBook: for every set of prices    *)
(* and quantities, any number of books and updates, and any loss,          *)
(* duplication or reordering of the feed.                                  *)
(***************************************************************************)
EXTENDS LocalOrderBook, TLAPS

USE PricesAssumption, QuantitiesAssumption, NoIdAssumption, MaxUpdatesAssumption

\* Replacing a book by a snapshot leaves exactly the snapshot.
LEMMA ApplySnapshotIsCopy ==
  ASSUME NEW state \in States
  PROVE  ApplyLevels(NoLevels, state) = state
BY DEF ApplyLevels, States

\* A delta over first..last turns any state it reaches back to into the state
\* after last: what it does not list did not change in between.
LEMMA ApplyDeltaIsExact ==
  ASSUME TypeOK,
         NEW first \in 1 .. head, NEW last \in 1 .. head, NEW id \in 0 .. head,
         first <= id + 1, id <= last, NEW shown
  PROVE  ApplyLevels(history[id], Delta(first, last, shown).levels) = history[last]
<1> DEFINE new == ApplyLevels(history[id], Delta(first, last, shown).levels)
<1>1. history[id] \in States /\ history[last] \in States
  BY DEF TypeOK
<1>2. id \in first - 1 .. last
  BY DEF TypeOK
<1>3. Delta(first, last, shown).levels = [k \in Touched(first, last) |-> history[last][k]]
  BY DEF Delta
<1>4. ASSUME NEW k \in Levels PROVE new[k] = history[last][k]
  <2>1. CASE k \in Touched(first, last)
    BY <1>3, <2>1 DEF ApplyLevels
  <2>2. CASE k \notin Touched(first, last)
    <3>1. history[id][k] = history[last][k]
      BY <1>2, <2>2 DEF Touched
    <3> QED
      BY <1>3, <2>2, <3>1 DEF ApplyLevels
  <2> QED
    BY <2>1, <2>2
<1>5. DOMAIN new = Levels /\ DOMAIN history[last] = Levels
  BY <1>1 DEF ApplyLevels, States
<1> QED
  BY <1>1, <1>4, <1>5 DEF ApplyLevels, States

\* What one step of a book may do, whatever the message was: keep its levels
\* and ID, or take over the exchange's state after some update.
BookStep(b) ==
  \E id \in 0 .. head \cup {NoId}, state \in States, sync \in BOOLEAN, out \in Outcomes :
    /\ Set(b, state, id, sync, out)
    /\ id = NoId => last_update_id[b] = NoId /\ ~ sync
    /\ id # NoId => state = history[id]
    /\ out # "Snapshot" =>
         /\ sync => synced[b]
         /\ last_update_id[b] # NoId => id >= last_update_id[b]
         /\ synced[b] /\ ~ sync => state = levels[b]

LEMMA SnapshotIsBookStep ==
  ASSUME IInv, NEW b \in Books, NEW msg,
         msg.is_snapshot, NEW id \in 0 .. head, msg.last = id, msg.levels = history[id],
         Apply(b, msg)
  PROVE  BookStep(b)
<1>1. history[id] \in States /\ id # NoId
  BY DEF IInv, TypeOK
<1>2. Set(b, history[id], id, TRUE, "Snapshot")
  BY <1>1, ApplySnapshotIsCopy
  DEF Apply, ApplySnapshot, ApplyUnsynced, ApplyStale, ApplyGap, ApplyDelta
<1> QED
  BY <1>1, <1>2 DEF BookStep, Outcomes

LEMMA DeltaIsBookStep ==
  ASSUME IInv, NEW b \in Books,
         NEW first \in 1 .. head, NEW last \in 1 .. head, first <= last,
         NEW shown \in {first, NoId}, Apply(b, Delta(first, last, shown))
  PROVE  BookStep(b)
<1> DEFINE msg == Delta(first, last, shown)
<1>1. /\ ~ msg.is_snapshot /\ msg.last = last /\ msg.first = shown
  BY DEF Delta
<1>2. /\ levels[b] \in States /\ last_update_id[b] \in 0 .. head \cup {NoId}
      /\ synced[b] \in BOOLEAN
      /\ last_update_id[b] # NoId => levels[b] = history[last_update_id[b]]
      /\ synced[b] => last_update_id[b] # NoId
      /\ head \in Nat
  BY DEF IInv, TypeOK, LevelsMatchId, SyncedHasId
<1>3. first # NoId /\ last # NoId /\ first <= FirstOf(msg)
  BY <1>1 DEF FirstOf
\* The book keeps its levels and its ID.
<1>4. ASSUME NEW sync \in BOOLEAN, NEW out \in Outcomes \ {"Snapshot"},
             Set(b, levels[b], last_update_id[b], sync, out), sync => synced[b]
      PROVE  BookStep(b)
  <2>1. last_update_id[b] # NoId => last_update_id[b] >= last_update_id[b]
    BY <1>2
  <2>2. last_update_id[b] = NoId => ~ sync
    BY <1>2, <1>4
  <2> QED
    BY <1>2, <1>4, <2>1, <2>2, Zenon DEF BookStep
<1>5. CASE ApplyUnsynced(b, msg)
  BY <1>4, <1>5 DEF ApplyUnsynced, Outcomes
<1>6. CASE ApplyStale(b, msg)
  BY <1>4, <1>6 DEF ApplyStale, Outcomes
<1>7. CASE ApplyGap(b, msg)
  BY <1>4, <1>7 DEF ApplyGap, Outcomes
<1>8. CASE ApplyDelta(b, msg)
  <2>1. synced[b] /\ last_update_id[b] \in 0 .. head /\ Checked(b, msg)
    BY <1>1, <1>2, <1>3, <1>8 DEF ApplyDelta, Checked
  <2>2. last > last_update_id[b] /\ FirstOf(msg) <= last_update_id[b] + 1
    <3>1. FirstOf(msg) \in Nat
      BY <1>1 DEF FirstOf
    <3> QED
      BY <1>1, <1>2, <1>8, <2>1, <3>1 DEF ApplyDelta, IsStale, IsGap
  <2>3. first <= last_update_id[b] + 1
    <3>1. FirstOf(msg) \in Nat
      BY <1>1 DEF FirstOf
    <3> QED
      BY <1>3, <2>1, <2>2, <3>1
  <2>4. ApplyLevels(levels[b], msg.levels) = history[last]
    BY <1>2, <2>1, <2>2, <2>3, ApplyDeltaIsExact DEF IInv
  <2>5. Set(b, history[last], last, TRUE, "Delta")
    BY <1>1, <1>3, <1>8, <2>4 DEF ApplyDelta
  <2>6. history[last] \in States
    BY DEF IInv, TypeOK
  <2>7. last >= last_update_id[b] /\ last \in 0 .. head \cup {NoId}
    BY <1>2, <2>1, <2>2
  <2>8. "Delta" \in Outcomes /\ "Delta" # "Snapshot"
    BY DEF Outcomes
  <2> QED
    BY <1>3, <2>1, <2>5, <2>6, <2>7, <2>8, Zenon DEF BookStep
<1> QED
  BY <1>1, <1>5, <1>6, <1>7, <1>8 DEF Apply, ApplySnapshot

LEMMA ConsumerStep ==
  ASSUME IInv, NEW b \in Books, DeliverSnapshot(b) \/ DeliverDelta(b) \/ Reseed(b)
  PROVE  BookStep(b) /\ UNCHANGED venueVars
<1>1. CASE DeliverSnapshot(b)
  BY <1>1, SnapshotIsBookStep DEF DeliverSnapshot, Snapshot
<1>2. CASE DeliverDelta(b)
  BY <1>2, DeltaIsBookStep DEF DeliverDelta
<1>3. CASE Reseed(b)
  <2>1. PICK c \in Books : last_update_id[c] # NoId /\ Apply(b, Export(c))
    BY <1>3 DEF Reseed
  <2>2. last_update_id[c] \in 0 .. head /\ levels[c] = history[last_update_id[c]]
    BY <2>1 DEF IInv, TypeOK, LevelsMatchId
  <2>3. BookStep(b)
    BY <2>1, <2>2, SnapshotIsBookStep DEF Export
  <2> QED
    BY <1>3, <2>3 DEF Reseed
<1> QED
  BY <1>1, <1>2, <1>3

LEMMA IInvStep == IInv /\ [Next]_vars => IInv'
<1> SUFFICES ASSUME IInv, [Next]_vars PROVE IInv'
  OBVIOUS
<1>1. CASE ExchangeUpdates
  <2>1. PICK state \in States :
          /\ ~ IsCrossed(state)
          /\ history' = [i \in 0 .. head + 1 |-> IF i <= head THEN history[i] ELSE state]
    BY <1>1 DEF ExchangeUpdates
  <2>2. /\ head' = head + 1 /\ head \in Nat
        /\ UNCHANGED <<levels, last_update_id, synced, outcome>>
    BY <1>1 DEF ExchangeUpdates, bookVars, IInv, TypeOK
  <2>3. \A i \in 0 .. head : history'[i] = history[i]
    BY <2>1, <2>2
  <2>4. TypeOK'
    BY <2>1, <2>2 DEF IInv, TypeOK
  <2>5. LevelsMatchId'
    <3> SUFFICES ASSUME NEW b \in Books, last_update_id[b] # NoId
                 PROVE  levels[b] = history'[last_update_id[b]]
      BY <2>2 DEF LevelsMatchId
    <3>1. last_update_id[b] \in 0 .. head
      BY DEF IInv, TypeOK
    <3> QED
      BY <2>3, <3>1 DEF IInv, LevelsMatchId
  <2>6. SyncedHasId'
    BY <2>2 DEF IInv, SyncedHasId
  <2>7. VenueIsNotCrossed'
    <3> SUFFICES ASSUME NEW i \in 0 .. head + 1 PROVE ~ IsCrossed(history'[i])
      BY <2>2 DEF VenueIsNotCrossed, IsCrossed, Has
    <3>1. history'[i] = IF i <= head THEN history[i] ELSE state
      BY <2>1
    <3>2. CASE i <= head
      BY <2>2, <3>1, <3>2 DEF IInv, VenueIsNotCrossed
    <3>3. CASE ~ i <= head
      BY <2>1, <3>1, <3>3
    <3> QED
      BY <3>2, <3>3
  <2> QED
    BY <2>4, <2>5, <2>6, <2>7 DEF IInv
<1>2. ASSUME NEW b \in Books, DeliverSnapshot(b) \/ DeliverDelta(b) \/ Reseed(b)
      PROVE  IInv'
  <2>1. BookStep(b) /\ UNCHANGED <<history, head>>
    BY <1>2, ConsumerStep DEF venueVars
  <2>2. PICK id \in 0 .. head \cup {NoId}, state \in States, sync \in BOOLEAN, out \in Outcomes :
          /\ Set(b, state, id, sync, out)
          /\ id = NoId => last_update_id[b] = NoId /\ ~ sync
          /\ id # NoId => state = history[id]
    BY <2>1 DEF BookStep
  <2>3. TypeOK'
    BY <2>1, <2>2 DEF IInv, TypeOK, Set
  <2>4. LevelsMatchId' /\ SyncedHasId'
    BY <2>1, <2>2 DEF IInv, TypeOK, Set, LevelsMatchId, SyncedHasId
  <2>5. VenueIsNotCrossed'
    BY <2>1 DEF IInv, VenueIsNotCrossed, IsCrossed, Has
  <2> QED
    BY <2>3, <2>4, <2>5 DEF IInv
<1>3. CASE UNCHANGED vars
  BY <1>3 DEF vars, venueVars, bookVars, IInv, TypeOK, LevelsMatchId, SyncedHasId,
              VenueIsNotCrossed, IsCrossed, Has
<1> QED
  BY <1>1, <1>2, <1>3 DEF Next

LEMMA IInvInit == Init => IInv
<1> SUFFICES ASSUME Init PROVE IInv
  OBVIOUS
<1>1. NoLevels \in States
  BY DEF NoLevels, States
<1>2. TypeOK
  BY <1>1 DEF Init, TypeOK, Outcomes
<1>3. LevelsMatchId /\ SyncedHasId
  BY DEF Init, LevelsMatchId, SyncedHasId
<1>4. ~ IsCrossed(NoLevels)
  BY DEF IsCrossed, Has, NoLevels, Levels
<1>5. VenueIsNotCrossed
  BY <1>4 DEF Init, VenueIsNotCrossed
<1> QED
  BY <1>2, <1>3, <1>5 DEF IInv

\* IInv is an inductive invariant of the local books.
THEOREM InductiveInvariant == Spec => []IInv
BY IInvInit, IInvStep, PTL DEF Spec

\* The variables keep their types.
THEOREM TypeCorrect == Spec => []TypeOK
<1>1. IInv => TypeOK
  BY DEF IInv
<1> QED
  BY <1>1, InductiveInvariant, PTL

\* A synced book equals the exchange's book after the update it names.
THEOREM SyncedBooksAreExact == Spec => []SyncedIsExact
<1>1. IInv => SyncedIsExact
  BY DEF IInv, LevelsMatchId, SyncedHasId, SyncedIsExact
<1> QED
  BY <1>1, InductiveInvariant, PTL

\* A synced book of a venue that is never crossed is never crossed.
THEOREM SyncedBooksAreNotCrossed == Spec => []SyncedIsNotCrossed
<1>1. IInv => SyncedIsNotCrossed
  BY DEF IInv, TypeOK, LevelsMatchId, SyncedHasId, VenueIsNotCrossed, SyncedIsNotCrossed
<1> QED
  BY <1>1, InductiveInvariant, PTL

\* Without a snapshot a book neither goes back to an older update nor comes
\* back in sync.
THEOREM RewindNeedsSnapshot == Spec => OnlySnapshotsRewind
<1> DEFINE A == \A b \in Books :
       \/ outcome'[b] = "Snapshot"
       \/ /\ synced'[b] => synced[b]
          /\ last_update_id[b] # NoId => last_update_id'[b] >= last_update_id[b]
          /\ synced[b] /\ ~ synced'[b] => levels'[b] = levels[b]
<1>1. ASSUME IInv, ExchangeUpdates PROVE A
  BY <1>1 DEF ExchangeUpdates, bookVars, IInv, TypeOK
<1>2. ASSUME IInv, NEW b \in Books, DeliverSnapshot(b) \/ DeliverDelta(b) \/ Reseed(b) PROVE A
  <2>1. BookStep(b)
    BY <1>2, ConsumerStep
  <2> SUFFICES ASSUME NEW c \in Books, outcome'[c] # "Snapshot"
               PROVE  /\ synced'[c] => synced[c]
                      /\ last_update_id[c] # NoId => last_update_id'[c] >= last_update_id[c]
                      /\ synced[c] /\ ~ synced'[c] => levels'[c] = levels[c]
    OBVIOUS
  <2>2. CASE c = b
    BY <1>2, <2>1, <2>2 DEF BookStep, Set, IInv, TypeOK
  <2>3. CASE c # b
    BY <1>2, <2>1, <2>3 DEF BookStep, Set, IInv, TypeOK
  <2> QED
    BY <2>2, <2>3
<1>3. IInv /\ [Next]_vars => [A]_vars
  BY <1>1, <1>2 DEF Next
<1> QED
  BY <1>3, InductiveInvariant, PTL DEF Spec, OnlySnapshotsRewind
=============================================================================
