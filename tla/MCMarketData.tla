---------------------------- MODULE MCMarketData ----------------------------
(* Small instances of MarketData.                                           *)
EXTENDS MarketData

CONSTANTS s1, s2

Quotes(bids, asks) ==
  [level \in Sides \X Prices |->
     CASE level[1] = "bid" /\ level[2] \in DOMAIN bids -> bids[level[2]]
       [] level[1] = "ask" /\ level[2] \in DOMAIN asks -> asks[level[2]]
       [] OTHER -> 0]

\* Two books that share a level with different quantities, and a market
\* that nobody bids in.
Tight == Quotes([p \in {2} |-> 1], [p \in {3} |-> 2])
Wide == Quotes([p \in {1} |-> 2], [p \in {3} |-> 1])
OneSided == Quotes(<<>>, [p \in {3} |-> 1])
ThreeBooks == {Tight, Wide, OneSided}
Moving == [s \in Symbols |-> IF s = s1 THEN 3 ELSE 1]
Standing == [s \in Symbols |-> 1]

\* Order books are collected for two symbols, and no candles.
OrderbooksOnly ==
  /\ Init /\ streams = {"orderbook"} /\ pc = "dial" /\ stage = "returned"
  /\ clock = LastInstant /\ listed = {}

\* Candles are collected, and nothing else is done.
CandlesCollected ==
  /\ Init /\ streams = {"kline"} /\ pc = "dial" /\ stage = "returned"
  /\ history = [s \in Symbols |-> <<Tight>>]
  /\ clock = 0 /\ listed = {0, 2}

\* Candles are backfilled, and nothing else is done.
CandlesBackfilled ==
  /\ Init /\ streams = {} /\ pc = "returned" /\ stage = "idle"
  /\ history = [s \in Symbols |-> <<Tight>>]

\* Candles are collected and backfilled at once.
CandlesOnly ==
  /\ Init /\ streams = {"kline"} /\ pc = "dial" /\ stage = "idle"
  /\ history = [s \in Symbols |-> <<Tight>>]
  /\ clock = 0 /\ listed = {0, 1}

MarketSpec ==
  /\ OrderbooksOnly \/ CandlesCollected \/ CandlesBackfilled
  /\ [][Next]_vars /\ WF_vars(Collect) /\ WF_vars(Backfill)

TwoWritersSpec == CandlesOnly /\ [][Next]_vars
=============================================================================
