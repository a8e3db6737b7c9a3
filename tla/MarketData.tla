------------------------------ MODULE MarketData ------------------------------
(***************************************************************************)
(* The two writers of market data: the realtime collector, which rebuilds  *)
(* order books from snapshots and deltas and stores candles as they move,  *)
(* and the backfill, which pages through past candles over REST.  They     *)
(* meet in the candles table.                                              *)
(*                                                                         *)
(* The exchange keeps, per symbol, the sequence of the states its order    *)
(* book went through; a book is the quantity at every price of each side,  *)
(* 0 for no level.  A connection delivers the updates of a topic in order  *)
(* and starts with a snapshot.  The last state stored per symbol stands    *)
(* for orderbook_snapshots: it is the row the paper quotes read.           *)
(*                                                                         *)
(* Time is counted in half candles: candle t trades at instants 2t + 1 and *)
(* 2t + 2, and closes at 2t + 2.  What a candle row says is the instant    *)
(* its values were taken at, and whether it calls the candle closed.       *)
(***************************************************************************)
EXTENDS Integers, FiniteSets, Sequences

CONSTANTS Symbols,
          Prices,
          MaxQuantity,
          Books,              \* order book states the exchange goes through
          MaxUpdates,         \* bound on the states of each book
          Messages,           \* collectorRunner.messages
          ReconnectAttempts,  \* collectorRunner.reconnectAttempts
          Limit,              \* backfill Request.Limit: candles of a page
          LastCandle,         \* bound on the candles
          None

Sides == {"bid", "ask"}
Levels == [Sides \X Prices -> 0..MaxQuantity]

ASSUME PricesAssumption == Prices \subseteq Nat \ {0} /\ MaxQuantity \in Nat
ASSUME BooksAssumption == Books \subseteq Levels
ASSUME RunnerAssumption == Messages \in Nat \ {0} /\ ReconnectAttempts \in Nat
ASSUME BackfillAssumption == Limit \in Nat \ {0} /\ LastCandle \in Nat
ASSUME NoneAssumption == None \notin [update : Nat, book : Levels] \cup Nat

VARIABLES
  clock,
  history,         \* exchange: the states of each order book, oldest first
  listed,          \* exchange: the candles in which there was trading
  streams,         \* what the collector subscribes to
  pc, messagesRead, reconnectsUsed, exit,
  expired,         \* whether the -timeout of the collector has passed
  awaiting,        \* symbols whose snapshot this connection still owes
  next,            \* the next update of each book on this connection
  heard,           \* instant of the last kline frame of this connection
  local,           \* Service.orderbooks
  latest,          \* newest row of each symbol in orderbook_snapshots
  unrecorded,      \* symbols whose last rejection left no quality event
  candles,         \* candles table
  stage, end, cursor, previousTail, page, result,     \* the backfill
  gaps,            \* CANDLE_GAP events
  fetched          \* history: the candles a backfill was given

exchange == <<clock, history, listed>>
runner == <<streams, pc, messagesRead, reconnectsUsed, exit, expired>>
connection == <<awaiting, next, heard>>
books == <<local, latest, unrecorded>>
backfill == <<stage, end, cursor, previousTail, page, result, gaps, fetched>>
vars == <<exchange, runner, connection, books, candles, backfill>>

LastInstant == 2 * (LastCandle + 1)
Candle(instant) == (instant - 1) \div 2
CloseOf(t) == 2 * t + 2
Row == [asOf : 0..LastInstant, closed : BOOLEAN]
Updates == [update : Nat, book : Levels]
CandleIds == 0..LastCandle

TypeOK ==
  /\ clock \in 0..LastInstant
  /\ history \in [Symbols -> Seq(Levels) \ {<<>>}]
  /\ listed \subseteq CandleIds
  /\ streams \subseteq {"kline", "orderbook"}
  /\ pc \in {"dial", "top", "read", "backoff", "returned"}
  /\ messagesRead \in 0..Messages
  /\ reconnectsUsed \in 0..ReconnectAttempts
  /\ exit \in {"none", "ok", "error"}
  /\ expired \in BOOLEAN
  /\ awaiting \subseteq Symbols
  /\ next \in [Symbols -> Nat \ {0}]
  /\ heard \in 0..LastInstant
  /\ local \in [Symbols -> Updates \cup {None}]
  /\ latest \in [Symbols -> Updates \cup {None}]
  /\ unrecorded \subseteq Symbols
  /\ candles \in [CandleIds -> Row \cup {None}]
  /\ stage \in {"idle", "fetch", "map", "store", "returned"}
  /\ end \in Nat /\ cursor \in Nat
  /\ previousTail \in CandleIds \cup {None}
  /\ DOMAIN page \subseteq CandleIds
  /\ \A t \in DOMAIN page : page[t] \in Row
  /\ result \in {"none", "ok", "error"}
  /\ gaps \subseteq CandleIds /\ fetched \subseteq CandleIds

\* Either program may be left out: it has returned, with no outcome.
Init ==
  /\ clock \in 0..LastInstant
  /\ history \in [Symbols -> {<<book>> : book \in Books}]
  /\ listed \in SUBSET CandleIds
  /\ streams \in SUBSET {"kline", "orderbook"}
  /\ pc \in {"dial", "returned"} /\ messagesRead = 0 /\ reconnectsUsed = 0
  /\ exit = "none" /\ expired = FALSE
  /\ awaiting = Symbols /\ next = [s \in Symbols |-> 1] /\ heard = 0
  /\ local = [s \in Symbols |-> None]
  /\ latest = [s \in Symbols |-> None]
  /\ unrecorded = {}
  /\ candles = [t \in CandleIds |-> None]
  /\ stage \in {"idle", "returned"} /\ end = 0 /\ cursor = 0
  /\ previousTail = None
  /\ page = <<>> /\ result = "none" /\ gaps = {} /\ fetched = {}

-----------------------------------------------------------------------------
(* The exchange and the clock.                                              *)

Tick ==
  /\ clock < LastInstant
  /\ clock' = clock + 1
  /\ UNCHANGED <<history, listed, runner, connection, books, candles, backfill>>

Quote(s) ==
  /\ "orderbook" \in streams    \* nobody looks otherwise
  /\ Len(history[s]) < MaxUpdates[s]
  /\ \E book \in Books : history' = [history EXCEPT ![s] = Append(@, book)]
  /\ UNCHANGED <<clock, listed, runner, connection, books, candles, backfill>>

Expire ==
  /\ pc # "returned" /\ ~expired
  /\ expired' = TRUE
  /\ UNCHANGED <<exchange, streams, pc, messagesRead, reconnectsUsed, exit,
                 connection, books, candles, backfill>>

-----------------------------------------------------------------------------
(* OrderbookBook.                                                           *)

Quoted(book, side) == {p \in Prices : book[side, p] > 0}

\* ValidateOrderbookSnapshot: both sides are there and do not cross.
Valid(book) ==
  /\ Quoted(book, "bid") # {} /\ Quoted(book, "ask") # {}
  /\ \A b \in Quoted(book, "bid"), a \in Quoted(book, "ask") : b < a

\* What the exchange sends for the step from one state to the next.
Delta(old, new) ==
  [level \in {l \in Sides \X Prices : old[l] # new[l]} |-> new[level]]

\* Fault: a level whose quantity went to 0 stays.
ApplyDeltaKeepingLevels(book, delta) ==
  [level \in Sides \X Prices |->
     IF level \in DOMAIN delta /\ delta[level] > 0 THEN delta[level]
     ELSE book[level]]

\* applyLevelDeltas: quantity 0 deletes a level.
ApplyDelta(book, delta) ==
  [level \in Sides \X Prices |->
     IF level \in DOMAIN delta THEN delta[level] ELSE book[level]]

Received(s) ==
  Delta(history[s][next[s] - 1], history[s][next[s]])

-----------------------------------------------------------------------------
(* collectorRunner.                                                         *)

Return(outcome) == pc' = "returned" /\ exit' = outcome

\* Closes the connection and backs off, or gives up.
Reconnect ==
  \/ /\ reconnectsUsed < ReconnectAttempts
     /\ reconnectsUsed' = reconnectsUsed + 1
     /\ pc' = "backoff" /\ UNCHANGED exit
  \/ /\ reconnectsUsed >= ReconnectAttempts
     /\ Return("error") /\ UNCHANGED reconnectsUsed

\* connectAndSubscribe: every topic starts again with a snapshot.
Connect ==
  /\ pc = "dial"
  /\ \/ /\ ~expired
        /\ pc' = "top" /\ UNCHANGED exit
        /\ awaiting' = Symbols
        /\ next' = [s \in Symbols |-> Len(history[s])]
        /\ heard' = clock
     \/ Return("error") /\ UNCHANGED connection
  /\ UNCHANGED <<exchange, streams, messagesRead, reconnectsUsed, expired,
                 books, candles, backfill>>

Backoff ==
  /\ pc = "backoff"
  /\ \/ ~expired /\ pc' = "dial" /\ UNCHANGED exit
     \/ expired /\ Return("error")
  /\ UNCHANGED <<exchange, streams, messagesRead, reconnectsUsed, expired,
                 connection, books, candles, backfill>>

\* The head of the loop: enough messages, or a heartbeat that may fail.
TopOfLoop ==
  /\ pc = "top"
  /\ \/ /\ messagesRead >= Messages
        /\ Return("ok") /\ UNCHANGED reconnectsUsed
     \/ /\ messagesRead < Messages
        /\ \/ pc' = "read" /\ UNCHANGED <<reconnectsUsed, exit>>
           \/ Reconnect
  /\ UNCHANGED <<exchange, streams, messagesRead, expired, connection, books,
                 candles, backfill>>

\* Fault: failed reads are repeated for as long as they fail.
ReadFailsUncounted ==
  /\ pc = "read"
  /\ pc' = "backoff"
  /\ UNCHANGED <<exchange, streams, messagesRead, reconnectsUsed, exit,
                 expired, connection, books, candles, backfill>>

\* The read timeout, a closed connection, a frame that is not text.
ReadFails ==
  /\ pc = "read"
  /\ Reconnect
  /\ UNCHANGED <<exchange, streams, messagesRead, expired, connection, books,
                 candles, backfill>>

\* handlePayload has answered.
Handled(needsSnapshot) ==
  /\ messagesRead' = messagesRead + 1
  /\ \/ needsSnapshot /\ messagesRead' < Messages /\ Reconnect
     \/ /\ ~needsSnapshot \/ messagesRead' >= Messages
        /\ pc' = "top" /\ UNCHANGED <<reconnectsUsed, exit>>

\* ProcessOrderbook once the update has been applied: the book is stored,
\* unless a write of a quality event or of the row itself fails.
Accept(s, book) ==
  LET now == [update |-> next[s], book |-> book] IN
  /\ local' = [local EXCEPT ![s] = now]
  /\ unrecorded' = unrecorded \ {s}
  /\ \/ ~expired /\ latest' = [latest EXCEPT ![s] = now]
     \/ UNCHANGED latest
  /\ Handled(FALSE)

\* Fault: the rejected book stays, as OrderbookBook.Apply alone leaves it.
RejectUpdateOnly(s) ==
  /\ UNCHANGED <<local, latest>>
  /\ \/ /\ ~expired
        /\ unrecorded' = unrecorded \ {s}
        /\ Handled(TRUE)
     \/ /\ unrecorded' = unrecorded \cup {s}
        /\ Handled(FALSE)

\* Fault: the collector waits for a snapshot without asking for one.
RejectAndWait(s) ==
  /\ local' = [local EXCEPT ![s] = None]
  /\ UNCHANGED latest
  /\ unrecorded' = unrecorded \ {s}
  /\ Handled(FALSE)

\* ProcessOrderbook when it has not: the local book is dropped, and a
\* snapshot is asked for if the quality event could be written.
Reject(s) ==
  /\ local' = [local EXCEPT ![s] = None]
  /\ UNCHANGED latest
  /\ \/ /\ ~expired
        /\ unrecorded' = unrecorded \ {s}
        /\ Handled(TRUE)
     \/ /\ unrecorded' = unrecorded \cup {s}
        /\ Handled(FALSE)

\* A frame of an orderbook topic is read and handled.
ReadSnapshot(s) ==
  /\ pc = "read" /\ "orderbook" \in streams
  /\ next[s] <= Len(history[s])
  /\ IF Valid(history[s][next[s]]) THEN Accept(s, history[s][next[s]])
     ELSE Reject(s)
  /\ awaiting' = awaiting \ {s}
  /\ next' = [next EXCEPT ![s] = @ + 1]
  /\ UNCHANGED <<exchange, streams, expired, heard, candles, backfill>>

ReadDelta(s) ==
  /\ pc = "read" /\ "orderbook" \in streams
  /\ s \notin awaiting /\ next[s] <= Len(history[s])
  /\ IF local[s] = None THEN Reject(s)
     ELSE LET candidate == ApplyDelta(local[s].book, Received(s)) IN
          IF Valid(candidate) THEN Accept(s, candidate) ELSE Reject(s)
  /\ next' = [next EXCEPT ![s] = @ + 1]
  /\ UNCHANGED <<exchange, streams, expired, awaiting, heard, candles,
                 backfill>>

\* A frame of a kline topic: the values at an instant, confirmed at its close.
ReadKline ==
  /\ pc = "read" /\ "kline" \in streams
  /\ \E i \in heard + 1 .. clock :
       LET t == Candle(i) IN
       /\ t \in listed
       /\ \A j \in heard + 1 .. i - 1 : Candle(j) \notin listed
       /\ \/ /\ ~expired
             /\ candles' = [candles EXCEPT ![t] =
                              [asOf |-> i, closed |-> i = CloseOf(t)]]
          \/ UNCHANGED candles
       /\ heard' = i
  /\ Handled(FALSE)
  /\ UNCHANGED <<exchange, streams, expired, awaiting, next, books, backfill>>

\* The answer to a command, a ticker, public trades: no state here.
ReadOther ==
  /\ pc = "read"
  /\ Handled(FALSE)
  /\ UNCHANGED <<exchange, streams, expired, connection, books, candles,
                 backfill>>

-----------------------------------------------------------------------------
(* The backfill of one symbol and interval.                                 *)

Least(a, b) == IF a < b THEN a ELSE b
PageEnd == Least(cursor + Limit, end)

Start ==
  /\ stage = "idle"
  /\ \E e \in 1..LastCandle + 1 : end' = e
  /\ stage' = "fetch"
  /\ UNCHANGED <<exchange, runner, connection, books, candles, cursor,
                 previousTail, page, result, gaps, fetched>>

\* GetKlines: the exchange answers with at most Limit candles of the window,
\* the newest ones; whether the window includes its end is its business.
Answer(until) ==
  LET window == {t \in listed : cursor <= t /\ t <= until /\ 2 * t < clock} IN
  {t \in window : Cardinality({u \in window : t < u}) < Limit}

Fetch ==
  /\ stage = "fetch" /\ cursor < end
  /\ \/ \E until \in {PageEnd - 1, PageEnd} :
          /\ page' = [t \in Answer(until) |->
                        [asOf |-> Least(clock, CloseOf(t)), closed |-> FALSE]]
          /\ stage' = "map" /\ UNCHANGED result
     \/ stage' = "returned" /\ result' = "error" /\ UNCHANGED page
  /\ UNCHANGED <<exchange, runner, connection, books, candles, end, cursor,
                 previousTail, gaps, fetched>>

\* gaps.Detect on the candles of a page behind the tail of the last one.
Detect(given) ==
  {t \in CandleIds : /\ t \notin given
                     /\ \E u, v \in given : u < t /\ t < v}

\* Fault: the gap between two pages is not looked at.
TailedNot(given) == given

Tailed(given) ==
  given \cup (IF previousTail = None THEN {} ELSE {previousTail})

\* mapKline reads the clock; then the gaps found are recorded.
MapPage ==
  LET given == DOMAIN page
      found == Detect(Tailed(given)) IN
  /\ stage = "map"
  /\ \/ /\ given = {}
        /\ cursor' = PageEnd
        /\ stage' = "fetch"
        /\ UNCHANGED <<page, result, gaps, fetched>>
     \/ /\ given # {}
        /\ page' = [t \in given |-> [page[t] EXCEPT
                                       !.closed = CloseOf(t) <= clock]]
        /\ gaps' = gaps \cup found
        /\ fetched' = fetched \cup given
        /\ stage' = "store" /\ UNCHANGED <<cursor, result>>
     \/ /\ found # {}      \* their transaction fails, or seems to
        /\ gaps' \in {gaps, gaps \cup found}
        /\ stage' = "returned" /\ result' = "error"
        /\ UNCHANGED <<cursor, page, fetched>>
  /\ UNCHANGED <<exchange, runner, connection, books, candles, end,
                 previousTail>>

\* UpsertCandles, one transaction whose confirmation may be lost.
StorePage ==
  /\ stage = "store"
  /\ candles' \in {candles, [t \in CandleIds |->
                     IF t \in DOMAIN page THEN page[t] ELSE candles[t]]}
  /\ \/ \E tail \in DOMAIN page :
           /\ \A t \in DOMAIN page : t <= tail /\ candles'[t] = page[t]
           /\ previousTail' = tail
           /\ cursor' = tail + 1
           /\ stage' = "fetch" /\ UNCHANGED result
     \/ /\ stage' = "returned" /\ result' = "error"
        /\ UNCHANGED <<previousTail, cursor>>
  /\ UNCHANGED <<exchange, runner, connection, books, end, page, gaps,
                 fetched>>

Finish ==
  /\ stage = "fetch" /\ cursor >= end
  /\ stage' = "returned" /\ result' = "ok"
  /\ UNCHANGED <<exchange, runner, connection, books, candles, end, cursor,
                 previousTail, page, gaps, fetched>>

-----------------------------------------------------------------------------

ReadBook == \E s \in Symbols : ReadSnapshot(s) \/ ReadDelta(s)
Collect == Connect \/ Backoff \/ TopOfLoop \/ ReadFails \/ ReadBook
             \/ ReadKline \/ ReadOther
Backfill == Start \/ Fetch \/ MapPage \/ StorePage \/ Finish
Terminated == pc = "returned" /\ stage = "returned" /\ UNCHANGED vars
Next ==
  \/ Tick \/ Expire \/ Collect \/ Backfill \/ Terminated
  \/ \E s \in Symbols : Quote(s)

Spec == Init /\ [][Next]_vars

\* A started process takes its steps: reads have a deadline and REST calls
\* are bounded.  The exchange, the clock and the timeout owe nothing.
FairSpec == Spec /\ WF_vars(Collect) /\ WF_vars(Backfill)

-----------------------------------------------------------------------------
(* Properties.                                                              *)

\* The newest stored order book of a symbol is a state the exchange's book
\* really had, at the update it is stored under: nothing is left of levels
\* deleted, of updates lost with a connection or of a rejected update.
LatestBookIsReal ==
  \A s \in Symbols :
    latest[s] # None =>
      /\ latest[s].update \in 1..Len(history[s])
      /\ latest[s].book = history[s][latest[s].update]
      /\ Valid(latest[s].book)

\* Between two frames, a local book is the state its connection has got to,
\* or no frame of the symbol has come since the connection was made.
BookInStep ==
  \A s \in Symbols :
    local[s] # None =>
      /\ local[s].update \in 1..Len(history[s])
      /\ local[s].book = history[s][local[s].update]
      /\ Valid(local[s].book)
      /\ pc \in {"top", "read"} /\ s \notin awaiting =>
           local[s].update = next[s] - 1

\* The connection is not ahead of the exchange, and a delta follows a state.
FramesExist ==
  \A s \in Symbols :
    /\ next[s] \in 1..Len(history[s]) + 1
    /\ s \notin awaiting => next[s] > 1

ReadingHasRoom == pc = "read" => messagesRead < Messages

\* What a backfill was given so far ends at the tail of its last page and
\* lies below its cursor; the page at hand lies beyond.
PagesFollow ==
  /\ stage = "idle" => fetched = {} /\ previousTail = None /\ cursor = 0
  /\ stage \in {"idle", "fetch", "map"} =>
       \/ fetched = {} /\ previousTail = None
       \/ /\ previousTail \in fetched
          /\ \A t \in fetched : t <= previousTail /\ t < cursor
  /\ stage = "map" => cursor < end /\ \A t \in DOMAIN page : cursor <= t
  /\ stage = "store" => /\ DOMAIN page # {} /\ DOMAIN page \subseteq fetched
                        /\ \A t \in fetched \ DOMAIN page :
                             \A u \in DOMAIN page : t < u

NoSilentHole ==
  \A t \in CandleIds :
    (\E u, v \in fetched : u < t /\ t < v) => t \in fetched \cup gaps

IInv == /\ TypeOK /\ ReadingHasRoom /\ FramesExist /\ BookInStep
        /\ LatestBookIsReal /\ PagesFollow /\ NoSilentHole

\* A collector that goes on reading deltas of a symbol it has no book for is
\* one that could not write the quality event of the rejection, or one that
\* has read all its messages: it never just waits for a snapshot.
BlindOnlyUnrecorded ==
  \A s \in Symbols :
    pc \in {"top", "read"} /\ s \notin awaiting /\ local[s] = None =>
      s \in unrecorded \/ messagesRead = Messages

\* Between the first and the last candle a successful backfill was given,
\* every missing one is in a gap event, also across pages and empty pages.
HolesAreReported ==
  result = "ok" =>
    \A t \in CandleIds :
      (\E u, v \in fetched : u < t /\ t < v) => t \in fetched \cup gaps

\* Collector and backfill end, whatever the exchange and the network do.
EveryCommandReturns ==
  <>(pc = "returned") /\ (stage = "fetch" ~> stage = "returned")

\* A candle stored as closed has the values it closed with: the features are
\* calculated from closed candles only.
ClosedCandleIsFinal ==
  \A t \in CandleIds :
    candles[t] # None => (candles[t].closed => candles[t].asOf = CloseOf(t))
=============================================================================
