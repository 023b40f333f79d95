------------------------------- MODULE KlinePages -------------------------------
(* KuCoinClient::fetch_klines_extended: pages of candles fetched backwards in    *)
(* time from now, collected, sorted and cut to the number asked for.             *)
(*                                                                               *)
(* A candle is its opening time.  The exchange has a candle for some multiples   *)
(* of the granularity (none where nothing was traded) and answers a window with  *)
(* the candles that open within it, both ends included.                          *)
EXTENDS Integers, Sequences, FiniteSets, SequencesExt, FiniteSetsExt

CONSTANTS
  Granularity, \* length of a candle
  History,     \* bound on the candles the exchange may have
  MaxTotal,    \* bound on `total`
  MaxPage      \* bound on `page_size`

ASSUME GranularityAssumption == Granularity \in Nat \ {0}
ASSUME PagingBoundsAssumption == History \in Nat /\ MaxTotal \in Nat /\ MaxPage \in Nat \ {0}

VARIABLES
  listed,     \* the candles of the exchange
  malformed,  \* those among them that from_raw refuses
  total,      \* arguments
  pageSize,
  now,        \* now_ms, read once before the loop
  windowEnd,  \* window_end_ms
  all,        \* candles so far
  pages,      \* pages fetched that held something
  paging      \* "loop", "ok" or "error"

pagingVars == <<listed, malformed, total, pageSize, now, windowEnd, all, pages, paging>>

PagingInit ==
  /\ listed \in SUBSET {k * Granularity : k \in 1..History}
  /\ malformed \in {{}} \cup {{k} : k \in listed}
  /\ total \in 0..MaxTotal
  /\ pageSize \in 1..MaxPage
  /\ now \in History * Granularity..(History + 1) * Granularity - 1
  /\ windowEnd = now
  /\ all = <<>>
  /\ pages = 0
  /\ paging = "loop"

WindowStart == windowEnd - Granularity * Min({total - Len(all), pageSize})

Window == {t \in listed : WindowStart <= t /\ t <= windowEnd}

\* Mutant of NextWindowEnd: the next page ends where this one began.
OverlappingWindowEnd == WindowStart

NextWindowEnd == WindowStart - Granularity

(* page.sort_by_key: the well-formed candles of the window, oldest first.        *)
Page == {page \in SetToSeqs(Window \ malformed) :
           \A i, j \in DOMAIN page : i < j => page[i] < page[j]}

FetchPage ==
  /\ paging = "loop"
  /\ Len(all) < total
  /\ \E page \in Page : all' = all \o page
  /\ IF Window = {}
     THEN paging' = "ok" /\ UNCHANGED <<windowEnd, pages>>
     ELSE windowEnd' = NextWindowEnd /\ pages' = pages + 1 /\ UNCHANGED paging
  /\ UNCHANGED <<listed, malformed, total, pageSize, now>>

PageFails ==
  /\ paging = "loop"
  /\ Len(all) < total
  /\ paging' = "error"
  /\ UNCHANGED <<listed, malformed, total, pageSize, now, windowEnd, all, pages>>

EnoughPages ==
  /\ paging = "loop"
  /\ Len(all) >= total
  /\ paging' = "ok"
  /\ UNCHANGED <<listed, malformed, total, pageSize, now, windowEnd, all, pages>>

PagingNext == FetchPage \/ PageFails \/ EnoughPages

PagingSpec == PagingInit /\ [][PagingNext]_pagingVars

(* all.sort_by_key and truncate: the caller gets the candles, as their places in *)
(* `all`, before which fewer than `total` others are sorted.                      *)
Older(i, j) == all[i] < all[j] \/ (all[i] = all[j] /\ i < j)

Fetched == {i \in DOMAIN all : Cardinality({j \in DOMAIN all : Older(j, i)}) < total}

\* The well-formed candles from the oldest one returned up to now that are not returned.
Missing ==
  LET returned == {all[i] : i \in Fetched}
  IN  {t \in listed \ malformed : \E r \in returned : r <= t} \ returned

\* No candle is returned twice, also when now falls on the opening of a candle
\* and both ends of each window hold one.  Of the well-formed candles from the
\* oldest one returned up to now, each boundary between two pages hides at most
\* one and the cut to `total` takes the newest; nothing else is missing.
LosesOneCandlePerBoundary ==
  /\ \A i, j \in DOMAIN all : all[i] = all[j] => i = j
  /\ paging = "ok" /\ Fetched # {} =>
       Cardinality(Missing) <= (pages - 1) + (Len(all) - Cardinality(Fetched))
=============================================================================
