-------------------------------- MODULE MCParts --------------------------------
(* Small instances of the components that run on their own: a book stream, a     *)
(* private feed, a public tape, the outbound guard, the server-time offset and   *)
(* the pages of candles.  They share no state, so each behaviour is one of the   *)
(* six beside the others at rest.                                                *)
EXTENDS BookFeed, AccountFeed, TapeFeed, RateGuard, ServerClock, KlinePages, TLC
CONSTANTS b1, s1, s2
VARIABLE focus

MCQuotes == {[last |-> 2, bid |-> 1, ask |-> 3, rate |-> 0],
             [last |-> 2, bid |-> 2, ask |-> 3, rate |-> 1],
             [last |-> 4, bid |-> 3, ask |-> 5, rate |-> 1]}

SyncSymmetry == Permutations(Syncs)

Parts == {"book", "account", "tape", "guard", "offset", "klines"}

\* Beside another part in focus, one initial state will do.
BookAtRest    == focus # "book"    => stream = "bybit"
AccountAtRest == focus # "account" => account = "bybit" /\ direction = 1
TapeAtRest    == focus # "tape"    => tape = "bybit" /\ quote.last = 4 /\ bars = <<1>>
KlinesAtRest  ==
  focus # "klines" => listed = {} /\ total = 0 /\ pageSize = 1 /\ now = History * Granularity

MCInit ==
  /\ focus \in Parts
  /\ BookFeedInit /\ BookAtRest
  /\ AccountInit /\ AccountAtRest
  /\ TapeInit /\ TapeAtRest
  /\ GuardInit /\ ClockInit
  /\ PagingInit /\ KlinesAtRest

MCVars == <<focus, allVars, accountVars, tapeVars, guardVars, clockVars, pagingVars>>

\* One part moves, the others stay as they are.
Moves(part) == focus = part /\ UNCHANGED focus

MCNext ==
  \/ /\ Moves("book") /\ BookFeedNext
     /\ UNCHANGED <<accountVars, tapeVars, guardVars, clockVars, pagingVars>>
  \/ /\ Moves("account") /\ AccountNext
     /\ UNCHANGED <<allVars, tapeVars, guardVars, clockVars, pagingVars>>
  \/ /\ Moves("tape") /\ TapeNext
     /\ UNCHANGED <<allVars, accountVars, guardVars, clockVars, pagingVars>>
  \/ /\ Moves("guard") /\ GuardNext
     /\ UNCHANGED <<allVars, accountVars, tapeVars, clockVars, pagingVars>>
  \/ /\ Moves("offset") /\ ClockNext
     /\ UNCHANGED <<allVars, accountVars, tapeVars, guardVars, pagingVars>>
  \/ /\ Moves("klines") /\ PagingNext
     /\ UNCHANGED <<allVars, accountVars, tapeVars, guardVars, clockVars>>

MCSpec == MCInit /\ [][MCNext]_MCVars
=================================================================================
