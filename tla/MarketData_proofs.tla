-------------------------- MODULE MarketData_proofs --------------------------
(***************************************************************************)
(* Proofs about MarketData, for any symbols, books, page sizes, message    *)
(* and reconnect bounds.  The last part bounds the work of the collector   *)
(* and of the backfill by measures that their steps lower.                 *)
(***************************************************************************)
EXTENDS MarketData, TLAPS

\* Applied to the state it starts from, a delta gives the state it leads to.
LEMMA DeltaApplied ==
  ASSUME NEW old \in Levels, NEW new \in Levels
  PROVE  ApplyDelta(old, Delta(old, new)) = new
  BY DEF Levels, ApplyDelta, Delta

LEMMA AppliedTyped ==
  ASSUME NEW book \in Levels, NEW old \in Levels, NEW new \in Levels
  PROVE  ApplyDelta(book, Delta(old, new)) \in Levels
  BY DEF Levels, ApplyDelta, Delta

-----------------------------------------------------------------------------
(* Types.                                                                   *)

LEMMA ReconnectTyped ==
  ASSUME TypeOK, ReadingHasRoom, Reconnect
  PROVE  /\ reconnectsUsed' \in 0..ReconnectAttempts
         /\ pc' \in {"backoff", "returned"}
         /\ exit' \in {"none", "ok", "error"}
  BY RunnerAssumption DEF TypeOK, Reconnect, Return

LEMMA HandledTyped ==
  ASSUME TypeOK, ReadingHasRoom, pc = "read", NEW b \in BOOLEAN, Handled(b)
  PROVE  /\ messagesRead' \in 0..Messages
         /\ reconnectsUsed' \in 0..ReconnectAttempts
         /\ pc' \in {"top", "backoff", "returned"}
         /\ exit' \in {"none", "ok", "error"}
<1>1. messagesRead' \in 0..Messages
  BY RunnerAssumption DEF TypeOK, ReadingHasRoom, Handled
<1>2. CASE Reconnect
  BY <1>1, <1>2, ReconnectTyped
<1>3. CASE pc' = "top" /\ UNCHANGED <<reconnectsUsed, exit>>
  BY <1>1, <1>3 DEF TypeOK
<1> QED
  BY <1>2, <1>3 DEF Handled

LEMMA AcceptTyped ==
  ASSUME TypeOK, ReadingHasRoom, pc = "read",
         NEW s \in Symbols, NEW book \in Levels, Accept(s, book)
  PROVE  /\ local' \in [Symbols -> Updates \cup {None}]
         /\ latest' \in [Symbols -> Updates \cup {None}]
         /\ unrecorded' \subseteq Symbols
         /\ messagesRead' \in 0..Messages
         /\ reconnectsUsed' \in 0..ReconnectAttempts
         /\ pc' \in {"top", "backoff", "returned"}
         /\ exit' \in {"none", "ok", "error"}
<1>1. [update |-> next[s], book |-> book] \in Updates
  BY DEF TypeOK, Updates
<1>2. Handled(FALSE)
  BY DEF Accept
<1>3. /\ local' \in [Symbols -> Updates \cup {None}]
      /\ latest' \in [Symbols -> Updates \cup {None}]
      /\ unrecorded' \subseteq Symbols
  BY <1>1 DEF TypeOK, Accept
<1> QED
  BY <1>2, <1>3, HandledTyped

LEMMA RejectTyped ==
  ASSUME TypeOK, ReadingHasRoom, pc = "read", NEW s \in Symbols, Reject(s)
  PROVE  /\ local' \in [Symbols -> Updates \cup {None}]
         /\ latest' \in [Symbols -> Updates \cup {None}]
         /\ unrecorded' \subseteq Symbols
         /\ messagesRead' \in 0..Messages
         /\ reconnectsUsed' \in 0..ReconnectAttempts
         /\ pc' \in {"top", "backoff", "returned"}
         /\ exit' \in {"none", "ok", "error"}
<1>1. Handled(TRUE) \/ Handled(FALSE)
  BY DEF Reject
<1>2. /\ local' \in [Symbols -> Updates \cup {None}]
      /\ latest' \in [Symbols -> Updates \cup {None}]
      /\ unrecorded' \subseteq Symbols
  BY DEF TypeOK, Reject
<1> QED
  BY <1>1, <1>2, HandledTyped

\* What the frames of a symbol say is a state of its book.
LEMMA StateTyped ==
  ASSUME TypeOK, NEW s \in Symbols, NEW u \in 1..Len(history[s])
  PROVE  history[s][u] \in Levels
<1>1. history[s] \in Seq(Levels)
  BY DEF TypeOK
<1> QED
  BY <1>1

\* Each of these is typed by itself; TypeOK asks for all of them.
ExchangeTyped ==
  /\ clock \in 0..LastInstant
  /\ history \in [Symbols -> Seq(Levels) \ {<<>>}]
  /\ listed \subseteq CandleIds

RunnerTyped ==
  /\ streams \subseteq {"kline", "orderbook"}
  /\ pc \in {"dial", "top", "read", "backoff", "returned"}
  /\ messagesRead \in 0..Messages
  /\ reconnectsUsed \in 0..ReconnectAttempts
  /\ exit \in {"none", "ok", "error"}
  /\ expired \in BOOLEAN

ConnectionTyped ==
  /\ awaiting \subseteq Symbols
  /\ next \in [Symbols -> Nat \ {0}]
  /\ heard \in 0..LastInstant

BooksTyped ==
  /\ local \in [Symbols -> Updates \cup {None}]
  /\ latest \in [Symbols -> Updates \cup {None}]
  /\ unrecorded \subseteq Symbols

CandlesTyped == candles \in [CandleIds -> Row \cup {None}]

BackfillTyped ==
  /\ stage \in {"idle", "fetch", "map", "store", "returned"}
  /\ end \in Nat /\ cursor \in Nat
  /\ previousTail \in CandleIds \cup {None}
  /\ DOMAIN page \subseteq CandleIds
  /\ \A t \in DOMAIN page : page[t] \in Row
  /\ result \in {"none", "ok", "error"}
  /\ gaps \subseteq CandleIds /\ fetched \subseteq CandleIds

LEMMA TypeParts ==
  TypeOK <=> /\ ExchangeTyped /\ RunnerTyped /\ ConnectionTyped
             /\ BooksTyped /\ CandlesTyped /\ BackfillTyped
  BY DEF TypeOK, ExchangeTyped, RunnerTyped, ConnectionTyped, BooksTyped,
         CandlesTyped, BackfillTyped

LEMMA TypePartsNext ==
  TypeOK' <=> /\ ExchangeTyped' /\ RunnerTyped' /\ ConnectionTyped'
              /\ BooksTyped' /\ CandlesTyped' /\ BackfillTyped'
  BY DEF TypeOK, ExchangeTyped, RunnerTyped, ConnectionTyped, BooksTyped,
         CandlesTyped, BackfillTyped

\* What an action leaves alone stays typed.
LEMMA StillTyped ==
  /\ TypeOK /\ UNCHANGED exchange => ExchangeTyped'
  /\ TypeOK /\ UNCHANGED runner => RunnerTyped'
  /\ TypeOK /\ UNCHANGED connection => ConnectionTyped'
  /\ TypeOK /\ UNCHANGED books => BooksTyped'
  /\ TypeOK /\ UNCHANGED candles => CandlesTyped'
  /\ TypeOK /\ UNCHANGED backfill => BackfillTyped'
<1>1. /\ TypeOK /\ UNCHANGED exchange => ExchangeTyped'
      /\ TypeOK /\ UNCHANGED runner => RunnerTyped'
      /\ TypeOK /\ UNCHANGED connection => ConnectionTyped'
  BY DEF TypeOK, exchange, runner, connection, ExchangeTyped, RunnerTyped,
         ConnectionTyped
<1>2. /\ TypeOK /\ UNCHANGED books => BooksTyped'
      /\ TypeOK /\ UNCHANGED candles => CandlesTyped'
      /\ TypeOK /\ UNCHANGED backfill => BackfillTyped'
  BY DEF TypeOK, books, backfill, BooksTyped, CandlesTyped, BackfillTyped
<1> QED
  BY <1>1, <1>2

LEMMA InstantTyped ==
  /\ LastInstant \in Nat
  /\ \A t \in CandleIds : CloseOf(t) \in 0..LastInstant
  BY BackfillAssumption DEF LastInstant, CandleIds, CloseOf

LEMMA InitTyped ==
  ASSUME Init
  PROVE  TypeOK /\ ReadingHasRoom
<1>1. ExchangeTyped
  <2>1. \A book \in Books : <<book>> \in Seq(Levels) \ {<<>>}
    BY BooksAssumption
  <2>2. /\ clock \in 0..LastInstant /\ listed \subseteq CandleIds
        /\ history \in [Symbols -> {<<book>> : book \in Books}]
    BY DEF Init
  <2>3. {<<book>> : book \in Books} \subseteq Seq(Levels) \ {<<>>}
    BY <2>1
  <2>4. history \in [Symbols -> Seq(Levels) \ {<<>>}]
    BY <2>2, <2>3
  <2> QED
    BY <2>2, <2>4 DEF ExchangeTyped
<1>2. RunnerTyped /\ ConnectionTyped /\ BooksTyped /\ ReadingHasRoom
  <2>1. RunnerTyped
    <3>1. 0 \in 0..Messages /\ 0 \in 0..ReconnectAttempts
      BY RunnerAssumption
    <3>2. streams \subseteq {"kline", "orderbook"}
      BY DEF Init
    <3> QED
      BY <3>1, <3>2 DEF Init, RunnerTyped
  <2>2. ConnectionTyped
    BY InstantTyped DEF Init, ConnectionTyped
  <2>3. BooksTyped
    BY DEF Init, BooksTyped
  <2>4. ReadingHasRoom
    BY DEF Init, ReadingHasRoom
  <2> QED
    BY <2>1, <2>2, <2>3, <2>4
<1>3. CandlesTyped /\ BackfillTyped
  BY DEF Init, CandlesTyped, BackfillTyped
<1> QED
  BY <1>1, <1>2, <1>3, TypeParts

LEMMA ReadAccepts ==
  ASSUME TypeOK, NEW s \in Symbols, ReadSnapshot(s) \/ ReadDelta(s)
  PROVE  /\ pc = "read" /\ next[s] \in 1..Len(history[s])
         /\ Reject(s) \/ \E book \in Levels : Accept(s, book)
<1>1. pc = "read" /\ next[s] \in 1..Len(history[s])
  <2>1. next[s] \in Nat \ {0} /\ next[s] <= Len(history[s])
    BY DEF TypeOK, ReadSnapshot, ReadDelta
  <2>2. history[s] \in Seq(Levels)
    BY DEF TypeOK
  <2> QED
    BY <2>1, <2>2 DEF ReadSnapshot, ReadDelta
<1>2. history[s][next[s]] \in Levels
  BY <1>1, StateTyped
<1>3. ASSUME local[s] # None
      PROVE  ApplyDelta(local[s].book, Received(s)) \in Levels
  <2>1. local[s].book \in Levels
    BY <1>3 DEF TypeOK, Updates
  <2> QED
    BY <1>2, <2>1 DEF Levels, ApplyDelta, Received, Delta
<1>4. Reject(s) \/ \E book \in Levels : Accept(s, book)
  BY <1>2, <1>3 DEF ReadSnapshot, ReadDelta
<1> QED
  BY <1>1, <1>4

LEMMA ReadTyped ==
  ASSUME TypeOK, ReadingHasRoom, NEW s \in Symbols,
         ReadSnapshot(s) \/ ReadDelta(s)
  PROVE  TypeOK' /\ ReadingHasRoom'
<1>1. /\ pc = "read" /\ next[s] \in 1..Len(history[s])
      /\ Reject(s) \/ \E book \in Levels : Accept(s, book)
  BY ReadAccepts
<1>2. /\ BooksTyped'
      /\ messagesRead' \in 0..Messages
      /\ reconnectsUsed' \in 0..ReconnectAttempts
      /\ pc' \in {"top", "backoff", "returned"}
      /\ exit' \in {"none", "ok", "error"}
  BY <1>1, AcceptTyped, RejectTyped DEF BooksTyped
<1>3. RunnerTyped' /\ ReadingHasRoom'
  BY <1>2 DEF TypeOK, RunnerTyped, ReadingHasRoom, ReadSnapshot, ReadDelta
<1>4. ConnectionTyped'
  BY <1>1 DEF TypeOK, ConnectionTyped, ReadSnapshot, ReadDelta
<1>5. ExchangeTyped' /\ CandlesTyped' /\ BackfillTyped'
  BY StillTyped DEF ReadSnapshot, ReadDelta
<1> QED
  BY <1>2, <1>3, <1>4, <1>5, TypePartsNext

LEMMA RunnerStepTyped ==
  ASSUME TypeOK, ReadingHasRoom,
         Connect \/ Backoff \/ TopOfLoop \/ ReadFails \/ ReadOther \/ Expire
  PROVE  TypeOK' /\ ReadingHasRoom'
<1>1. /\ UNCHANGED exchange /\ UNCHANGED books /\ UNCHANGED candles
      /\ UNCHANGED backfill /\ UNCHANGED streams
  BY DEF Connect, Backoff, TopOfLoop, ReadFails, ReadOther, Expire, Handled,
         Reconnect, Return
<1>2. CASE Connect
  <2>1. \A s \in Symbols : Len(history[s]) \in Nat \ {0}
    <3>1. \A s \in Symbols : history[s] \in Seq(Levels) \ {<<>>}
      BY DEF TypeOK
    <3> QED
      BY <3>1
  <2>2. ConnectionTyped'
    BY <1>2, <2>1 DEF TypeOK, Connect, ConnectionTyped, connection
  <2>3. RunnerTyped' /\ ReadingHasRoom'
    BY <1>2 DEF TypeOK, Connect, RunnerTyped, ReadingHasRoom, Return
  <2> QED
    BY <1>1, <2>2, <2>3, StillTyped, TypePartsNext
<1>3. CASE Backoff \/ Expire
  <2>1. RunnerTyped' /\ ReadingHasRoom'
    BY <1>3 DEF TypeOK, Backoff, Expire, RunnerTyped, ReadingHasRoom, Return
  <2>2. UNCHANGED connection
    BY <1>3 DEF Backoff, Expire
  <2> QED
    BY <1>1, <2>1, <2>2, StillTyped, TypePartsNext
<1>4. CASE TopOfLoop \/ ReadFails
  <2>1. CASE Reconnect
    <3>1. RunnerTyped' /\ ReadingHasRoom'
      BY <1>4, <2>1, ReconnectTyped
         DEF TypeOK, TopOfLoop, ReadFails, RunnerTyped, ReadingHasRoom
    <3> QED
      BY <1>1, <1>4, <3>1, StillTyped, TypePartsNext DEF TopOfLoop, ReadFails
  <2>2. CASE ~Reconnect
    <3>1. RunnerTyped' /\ ReadingHasRoom'
      BY <1>4, <2>2, RunnerAssumption
         DEF TypeOK, TopOfLoop, ReadFails, RunnerTyped, ReadingHasRoom, Return
    <3> QED
      BY <1>1, <1>4, <3>1, StillTyped, TypePartsNext DEF TopOfLoop, ReadFails
  <2> QED
    BY <2>1, <2>2
<1>5. CASE ReadOther
  <2>1. RunnerTyped' /\ ReadingHasRoom'
    BY <1>5, HandledTyped
       DEF TypeOK, ReadOther, RunnerTyped, ReadingHasRoom
  <2> QED
    BY <1>1, <1>5, <2>1, StillTyped, TypePartsNext DEF ReadOther
<1> QED
  BY <1>2, <1>3, <1>4, <1>5

LEMMA ReadKlineTyped ==
  ASSUME TypeOK, ReadingHasRoom, ReadKline
  PROVE  TypeOK' /\ ReadingHasRoom'
<1>1. RunnerTyped' /\ ReadingHasRoom'
  BY HandledTyped DEF TypeOK, ReadKline, RunnerTyped, ReadingHasRoom
<1>2. heard' \in 0..LastInstant /\ CandlesTyped'
  <2>1. PICK i \in heard + 1 .. clock :
          /\ Candle(i) \in listed /\ heard' = i
          /\ \/ candles' = [candles EXCEPT ![Candle(i)] =
                              [asOf |-> i, closed |-> i = CloseOf(Candle(i))]]
             \/ UNCHANGED candles
    BY DEF ReadKline
  <2>2. i \in 0..LastInstant
    BY <2>1, InstantTyped DEF TypeOK
  <2>3. [asOf |-> i, closed |-> i = CloseOf(Candle(i))] \in Row
    BY <2>2 DEF Row
  <2> QED
    BY <2>1, <2>2, <2>3 DEF TypeOK, CandlesTyped
<1>3. ConnectionTyped'
  BY <1>2 DEF TypeOK, ReadKline, ConnectionTyped
<1>4. ExchangeTyped' /\ BooksTyped' /\ BackfillTyped'
  BY StillTyped DEF ReadKline
<1> QED
  BY <1>1, <1>2, <1>3, <1>4, TypePartsNext

LEMMA BackfillStepTyped ==
  ASSUME TypeOK, ReadingHasRoom, Backfill
  PROVE  TypeOK' /\ ReadingHasRoom'
<1>1. /\ UNCHANGED exchange /\ UNCHANGED runner /\ UNCHANGED connection
      /\ UNCHANGED books
  BY DEF Backfill, Start, Fetch, MapPage, StorePage, Finish
<1>2. ReadingHasRoom'
  BY <1>1 DEF ReadingHasRoom, runner
<1>3. CASE Start \/ Finish
  <2>1. BackfillTyped'
    BY <1>3, BackfillAssumption DEF TypeOK, Start, Finish, BackfillTyped
  <2> QED
    BY <1>1, <1>2, <1>3, <2>1, StillTyped, TypePartsNext DEF Start, Finish
<1>4. CASE Fetch
  <2>1. \A until : Answer(until) \subseteq CandleIds
    BY DEF Answer, TypeOK
  <2>2. \A t \in CandleIds : [asOf |-> Least(clock, CloseOf(t)), closed |-> FALSE] \in Row
    BY InstantTyped DEF TypeOK, Least, Row
  <2>3. DOMAIN page' \subseteq CandleIds /\ \A t \in DOMAIN page' : page'[t] \in Row
    BY <1>4, <2>1, <2>2 DEF TypeOK, Fetch
  <2>4. BackfillTyped'
    BY <1>4, <2>3 DEF TypeOK, Fetch, BackfillTyped
  <2> QED
    BY <1>1, <1>2, <1>4, <2>4, StillTyped, TypePartsNext DEF Fetch
<1>5. CASE MapPage
  <2>1. DOMAIN page' = DOMAIN page /\ \A t \in DOMAIN page : page'[t] \in Row
    <3>1. \A row \in Row, b \in BOOLEAN : [row EXCEPT !.closed = b] \in Row
      BY DEF Row
    <3>2. \A t \in DOMAIN page : page[t] \in Row
      BY DEF TypeOK
    <3>3. \A t \in DOMAIN page : (CloseOf(t) <= clock) \in BOOLEAN
      OBVIOUS
    <3>4. \A t \in DOMAIN page :
            [page[t] EXCEPT !.closed = (CloseOf(t) <= clock)] \in Row
      BY <3>1, <3>2, <3>3
    <3> QED
      BY <1>5, <3>2, <3>4 DEF MapPage
  <2>2. \A given : Detect(given) \subseteq CandleIds
    BY DEF Detect
  <2>3. cursor' \in Nat
    BY <1>5, BackfillAssumption DEF TypeOK, MapPage, PageEnd, Least
  <2>4. gaps' \subseteq CandleIds /\ fetched' \subseteq CandleIds
    BY <1>5, <2>2 DEF TypeOK, MapPage
  <2>5. BackfillTyped'
    BY <1>5, <2>1, <2>3, <2>4 DEF TypeOK, MapPage, BackfillTyped
  <2> QED
    BY <1>1, <1>2, <1>5, <2>5, StillTyped, TypePartsNext DEF MapPage
<1>6. CASE StorePage
  <2>1. CandlesTyped'
    BY <1>6 DEF TypeOK, StorePage, CandlesTyped
  <2>2. BackfillTyped'
    BY <1>6 DEF TypeOK, StorePage, BackfillTyped, CandleIds
  <2> QED
    BY <1>1, <1>2, <2>1, <2>2, StillTyped, TypePartsNext
<1> QED
  BY <1>3, <1>4, <1>5, <1>6 DEF Backfill

LEMMA ExchangeStepTyped ==
  ASSUME TypeOK, ReadingHasRoom, Tick \/ \E s \in Symbols : Quote(s)
  PROVE  TypeOK' /\ ReadingHasRoom'
<1>1. /\ UNCHANGED runner /\ UNCHANGED connection /\ UNCHANGED books
      /\ UNCHANGED candles /\ UNCHANGED backfill
  BY DEF Tick, Quote
<1>2. ReadingHasRoom'
  BY <1>1 DEF ReadingHasRoom, runner
<1>3. ExchangeTyped'
  <2>1. CASE Tick
    BY <2>1, InstantTyped DEF TypeOK, Tick, ExchangeTyped
  <2>2. ASSUME NEW s \in Symbols, Quote(s)
        PROVE  ExchangeTyped'
    <3>1. PICK book \in Books : history' = [history EXCEPT ![s] = Append(@, book)]
      BY <2>2 DEF Quote
    <3>2. Append(history[s], book) \in Seq(Levels) \ {<<>>}
      <4>1. history[s] \in Seq(Levels) /\ book \in Levels
        BY BooksAssumption DEF TypeOK
      <4> QED
        BY <4>1
    <3> QED
      BY <2>2, <3>1, <3>2 DEF TypeOK, Quote, ExchangeTyped
  <2> QED
    BY <2>1, <2>2
<1> QED
  BY <1>1, <1>2, <1>3, StillTyped, TypePartsNext

LEMMA StepTyped ==
  ASSUME TypeOK, ReadingHasRoom, [Next]_vars
  PROVE  TypeOK' /\ ReadingHasRoom'
<1>1. CASE UNCHANGED vars
  <2>1. /\ UNCHANGED exchange /\ UNCHANGED runner /\ UNCHANGED connection
        /\ UNCHANGED books /\ UNCHANGED candles /\ UNCHANGED backfill
    BY <1>1 DEF vars
  <2>2. ReadingHasRoom'
    BY <2>1 DEF ReadingHasRoom, runner
  <2> QED
    BY <2>1, <2>2, StillTyped, TypePartsNext
<1>2. CASE Next
  BY <1>1, <1>2, ReadTyped, RunnerStepTyped, ReadKlineTyped, BackfillStepTyped,
     ExchangeStepTyped DEF Next, Collect, ReadBook, Terminated
<1> QED
  BY <1>1, <1>2

\* Every variable keeps its type, and the collector reads a frame only when
\* it still has messages to read.
THEOREM TypeCorrect == Spec => [](TypeOK /\ ReadingHasRoom)
<1>1. Init => TypeOK /\ ReadingHasRoom
  BY InitTyped
<1>2. (TypeOK /\ ReadingHasRoom) /\ [Next]_vars => (TypeOK /\ ReadingHasRoom)'
  BY StepTyped
<1> QED
  BY <1>1, <1>2, PTL DEF Spec

-----------------------------------------------------------------------------
(* Order books.                                                             *)

BookInv == FramesExist /\ BookInStep /\ LatestBookIsReal

\* The frame at hand is about a state the book was in.
LEMMA FrameState ==
  ASSUME TypeOK, FramesExist, NEW s \in Symbols, next[s] <= Len(history[s])
  PROVE  next[s] \in 1..Len(history[s]) /\ history[s][next[s]] \in Levels
<1>1. Len(history[s]) \in Nat /\ next[s] \in 1..Len(history[s]) + 1
  <2>1. history[s] \in Seq(Levels)
    BY DEF TypeOK
  <2> QED
    BY <2>1 DEF FramesExist
<1> QED
  BY <1>1, StateTyped

\* A delta that is applied to the local book gives the state it leads to.
LEMMA AppliedIsReal ==
  ASSUME TypeOK, BookInv, NEW s \in Symbols, pc = "read",
         s \notin awaiting, next[s] <= Len(history[s]), local[s] # None
  PROVE  ApplyDelta(local[s].book, Received(s)) = history[s][next[s]]
<1>1. next[s] \in 1..Len(history[s]) /\ history[s][next[s]] \in Levels
  BY FrameState DEF BookInv
<1>2. /\ local[s].update \in 1..Len(history[s])
      /\ local[s].book = history[s][local[s].update]
      /\ local[s].update = next[s] - 1
  BY DEF BookInv, BookInStep
<1>3. history[s][next[s] - 1] \in Levels
  BY <1>2, StateTyped
<1> QED
  BY <1>1, <1>2, <1>3, DeltaApplied DEF Received

\* A book is accepted only when it is the state of its frame, and valid.
LEMMA ReadIsReal ==
  ASSUME TypeOK, BookInv, NEW s \in Symbols, ReadSnapshot(s) \/ ReadDelta(s)
  PROVE  /\ pc = "read" /\ UNCHANGED history
         /\ next[s] \in 1..Len(history[s])
         /\ next' = [next EXCEPT ![s] = @ + 1]
         /\ awaiting' \in {awaiting, awaiting \ {s}}
         /\ \/ Reject(s)
            \/ /\ Accept(s, history[s][next[s]])
               /\ Valid(history[s][next[s]])
<1>1. next[s] <= Len(history[s])
  BY DEF ReadSnapshot, ReadDelta
<1>2. next[s] \in 1..Len(history[s])
  BY <1>1, FrameState DEF BookInv
<1>3. CASE ReadSnapshot(s)
  BY <1>2, <1>3 DEF ReadSnapshot, exchange
<1>4. CASE ReadDelta(s)
  <2>1. local[s] # None =>
          ApplyDelta(local[s].book, Received(s)) = history[s][next[s]]
    BY <1>4, AppliedIsReal DEF ReadDelta
  <2> QED
    BY <1>2, <1>4, <2>1 DEF ReadDelta, exchange
<1> QED
  BY <1>3, <1>4

LEMMA FramesRead ==
  ASSUME TypeOK, FramesExist, UNCHANGED history, NEW s \in Symbols,
         next[s] \in 1..Len(history[s]), next' = [next EXCEPT ![s] = @ + 1],
         awaiting' \in {awaiting, awaiting \ {s}}
  PROVE  FramesExist'
<1>1. ASSUME NEW r \in Symbols
      PROVE  next'[r] \in 1..Len(history[r]) + 1 /\ (r \notin awaiting' => next'[r] > 1)
  <2>1. Len(history[r]) \in Nat
    <3>1. history[r] \in Seq(Levels)
      BY DEF TypeOK
    <3> QED
      BY <3>1
  <2>2. CASE r = s
    BY <2>1, <2>2 DEF TypeOK
  <2>3. CASE r # s
    BY <2>1, <2>3 DEF TypeOK, FramesExist
  <2> QED
    BY <2>2, <2>3
<1> QED
  BY <1>1 DEF FramesExist

LEMMA BookRead ==
  ASSUME TypeOK, BookInv, NEW s \in Symbols, ReadSnapshot(s) \/ ReadDelta(s)
  PROVE  BookInv'
<1>1. /\ pc = "read" /\ UNCHANGED history
      /\ next[s] \in 1..Len(history[s])
      /\ next' = [next EXCEPT ![s] = @ + 1]
      /\ awaiting' \in {awaiting, awaiting \ {s}}
  BY ReadIsReal
<1>2. FramesExist'
  BY <1>1, FramesRead DEF BookInv
<1>3. ASSUME NEW r \in Symbols, r # s
      PROVE  /\ local'[r] = local[r] /\ latest'[r] = latest[r]
             /\ next'[r] = next[r] /\ (r \notin awaiting' => r \notin awaiting)
  <2>1. Reject(s) \/ Accept(s, history[s][next[s]])
    BY ReadIsReal
  <2> QED
    BY <1>1, <1>3, <2>1 DEF TypeOK, Reject, Accept
<1>4. /\ local'[s] # None =>
            /\ local'[s].update = next[s]
            /\ local'[s].book = history[s][next[s]] /\ Valid(history[s][next[s]])
      /\ latest'[s] # latest[s] =>
            /\ latest'[s].update = next[s]
            /\ latest'[s].book = history[s][next[s]] /\ Valid(history[s][next[s]])
  <2>1. CASE Reject(s)
    BY <2>1 DEF TypeOK, Reject
  <2>2. CASE Accept(s, history[s][next[s]]) /\ Valid(history[s][next[s]])
    BY <2>2 DEF TypeOK, Accept
  <2> QED
    BY <2>1, <2>2, ReadIsReal
<1>5. BookInStep'
  <2>1. ASSUME NEW r \in Symbols, local'[r] # None
        PROVE  /\ local'[r].update \in 1..Len(history'[r])
               /\ local'[r].book = history'[r][local'[r].update]
               /\ Valid(local'[r].book)
               /\ pc' \in {"top", "read"} /\ r \notin awaiting' =>
                    local'[r].update = next'[r] - 1
    <3>1. CASE r = s
      BY <1>1, <1>4, <2>1, <3>1 DEF TypeOK
    <3>2. CASE r # s
      BY <1>1, <1>3, <2>1, <3>2 DEF BookInv, BookInStep
    <3> QED
      BY <3>1, <3>2
  <2> QED
    BY <2>1 DEF BookInStep, Valid, Quoted
<1>6. LatestBookIsReal'
  <2>1. ASSUME NEW r \in Symbols, latest'[r] # None
        PROVE  /\ latest'[r].update \in 1..Len(history'[r])
               /\ latest'[r].book = history'[r][latest'[r].update]
               /\ Valid(latest'[r].book)
    <3>1. CASE r = s /\ latest'[s] # latest[s]
      BY <1>1, <1>4, <3>1
    <3>2. CASE latest'[r] = latest[r]
      BY <1>1, <2>1, <3>2 DEF BookInv, LatestBookIsReal
    <3> QED
      BY <1>3, <3>1, <3>2
  <2> QED
    BY <2>1 DEF LatestBookIsReal, Valid, Quoted
<1> QED
  BY <1>2, <1>5, <1>6 DEF BookInv

\* A step that touches no book and reads no frame of one.
LEMMA BookKept ==
  ASSUME BookInv, UNCHANGED <<history, next, awaiting, local, latest>>,
         pc' \in {"top", "read"} => pc \in {"top", "read"}
  PROVE  BookInv'
<1>1. FramesExist' /\ LatestBookIsReal'
  BY DEF BookInv, FramesExist, LatestBookIsReal, Valid, Quoted
<1>2. BookInStep'
  BY DEF BookInv, BookInStep, Valid, Quoted
<1> QED
  BY <1>1, <1>2 DEF BookInv

LEMMA BookConnect ==
  ASSUME TypeOK, BookInv, Connect
  PROVE  BookInv'
<1>1. CASE UNCHANGED connection /\ pc' = "returned"
  BY <1>1, BookKept DEF Connect, exchange, books, connection
<1>2. CASE awaiting' = Symbols /\ next' = [s \in Symbols |-> Len(history[s])]
  <2>1. UNCHANGED history /\ UNCHANGED local /\ UNCHANGED latest
    BY DEF Connect, exchange, books
  <2>2. \A s \in Symbols : Len(history[s]) \in Nat \ {0}
    <3>1. \A s \in Symbols : history[s] \in Seq(Levels) \ {<<>>}
      BY DEF TypeOK
    <3> QED
      BY <3>1
  <2>3. FramesExist'
    BY <1>2, <2>1, <2>2 DEF FramesExist
  <2>4. BookInStep' /\ LatestBookIsReal'
    BY <1>2, <2>1, ZenonT(60) DEF BookInv, BookInStep, LatestBookIsReal, Valid, Quoted
  <2> QED
    BY <2>3, <2>4 DEF BookInv
<1> QED
  BY <1>1, <1>2 DEF Connect, Return

LEMMA BookQuote ==
  ASSUME TypeOK, BookInv, NEW q \in Symbols, Quote(q)
  PROVE  BookInv'
<1>1. PICK book \in Books : history' = [history EXCEPT ![q] = Append(@, book)]
  BY DEF Quote
<1>2. UNCHANGED <<next, awaiting, local, latest, pc>>
  BY DEF Quote, connection, books, runner
<1>3. ASSUME NEW s \in Symbols
      PROVE  /\ Len(history[s]) \in Nat /\ Len(history'[s]) \in Nat
             /\ Len(history[s]) <= Len(history'[s])
             /\ \A u \in 1..Len(history[s]) : history'[s][u] = history[s][u]
  <2>1. history[s] \in Seq(Levels)
    BY DEF TypeOK
  <2>2. history'[s] = history[s] \/ history'[s] = Append(history[s], book)
    BY <1>1 DEF TypeOK
  <2>3. book \in Levels
    BY BooksAssumption
  <2> QED
    BY <2>1, <2>2, <2>3
<1>4. FramesExist'
  <2>1. ASSUME NEW s \in Symbols
        PROVE  next[s] \in 1..Len(history'[s]) + 1 /\ (s \notin awaiting => next[s] > 1)
    BY <1>3 DEF BookInv, FramesExist
  <2> QED
    BY <1>2, <2>1 DEF FramesExist
<1>5. BookInStep'
  <2>1. ASSUME NEW s \in Symbols, local[s] # None
        PROVE  /\ local[s].update \in 1..Len(history'[s])
               /\ local[s].book = history'[s][local[s].update]
               /\ Valid(local[s].book)
               /\ pc \in {"top", "read"} /\ s \notin awaiting =>
                    local[s].update = next[s] - 1
    BY <1>3, <2>1 DEF BookInv, BookInStep
  <2> QED
    BY <1>2, <2>1 DEF BookInStep, Valid, Quoted
<1>6. LatestBookIsReal'
  <2>1. ASSUME NEW s \in Symbols, latest[s] # None
        PROVE  /\ latest[s].update \in 1..Len(history'[s])
               /\ latest[s].book = history'[s][latest[s].update]
               /\ Valid(latest[s].book)
    BY <1>3, <2>1 DEF BookInv, LatestBookIsReal
  <2> QED
    BY <1>2, <2>1 DEF LatestBookIsReal, Valid, Quoted
<1> QED
  BY <1>4, <1>5, <1>6 DEF BookInv

LEMMA InitBook ==
  ASSUME Init
  PROVE  BookInv
<1>1. \A s \in Symbols : Len(history[s]) = 1
  BY DEF Init
<1>2. FramesExist
  BY <1>1 DEF Init, FramesExist
<1>3. BookInStep /\ LatestBookIsReal
  BY DEF Init, BookInStep, LatestBookIsReal
<1> QED
  BY <1>2, <1>3 DEF BookInv

LEMMA BookStep ==
  ASSUME TypeOK, BookInv, [Next]_vars
  PROVE  BookInv'
<1>1. CASE Tick \/ Expire \/ Backfill \/ UNCHANGED vars
  <2>1. UNCHANGED <<history, next, awaiting, local, latest, pc>>
    <3>1. CASE Tick \/ Expire
      BY <3>1 DEF Tick, Expire, exchange, runner, connection, books
    <3>2. CASE Backfill
      BY <3>2 DEF Backfill, Start, Fetch, MapPage, StorePage, Finish,
                  exchange, runner, connection, books
    <3>3. CASE UNCHANGED vars
      BY <3>3 DEF vars, exchange, runner, connection, books
    <3> QED
      BY <1>1, <3>1, <3>2, <3>3
  <2> QED
    BY <2>1, BookKept
<1>2. CASE Backoff \/ TopOfLoop \/ ReadFails \/ ReadOther \/ ReadKline
  <2>1. UNCHANGED <<history, next, awaiting, local, latest>>
    BY <1>2 DEF Backoff, TopOfLoop, ReadFails, ReadOther, ReadKline, exchange,
                connection, books
  <2>2. pc' \in {"top", "read"} => pc \in {"top", "read"}
    BY <1>2 DEF Backoff, TopOfLoop, ReadFails, ReadOther, ReadKline, Return
  <2> QED
    BY <2>1, <2>2, BookKept
<1>3. CASE Connect
  BY <1>3, BookConnect
<1>4. CASE ReadBook
  BY <1>4, BookRead DEF ReadBook
<1>5. CASE \E s \in Symbols : Quote(s)
  BY <1>5, BookQuote
<1> QED
  BY <1>1, <1>2, <1>3, <1>4, <1>5 DEF Next, Collect, Terminated

\* The newest stored order book of a symbol, the one quotes are read from,
\* is a state the book of the exchange really had.
THEOREM BooksAreReal == Spec => []LatestBookIsReal
<1>1. Init => TypeOK /\ ReadingHasRoom /\ BookInv
  BY InitTyped, InitBook
<1>2. /\ TypeOK /\ ReadingHasRoom /\ BookInv
      /\ [Next]_vars
      => (TypeOK /\ ReadingHasRoom /\ BookInv)'
  BY StepTyped, BookStep
<1>3. BookInv => LatestBookIsReal
  BY DEF BookInv
<1> QED
  BY <1>1, <1>2, <1>3, PTL DEF Spec

-----------------------------------------------------------------------------
(* The backfill.                                                            *)

HoleInv == PagesFollow /\ NoSilentHole

\* A hole between the candles given so far or in the page at hand is an old
\* one, or the detector finds it in the page behind the tail.
LEMMA HoleFound ==
  ASSUME TypeOK, HoleInv, stage = "map", NEW t \in CandleIds,
         NEW u \in fetched \cup DOMAIN page,
         NEW v \in fetched \cup DOMAIN page,
         u < t, t < v, t \notin fetched \cup DOMAIN page
  PROVE  t \in gaps \cup Detect(Tailed(DOMAIN page))
<1>1. /\ fetched \subseteq Nat /\ DOMAIN page \subseteq Nat
      /\ t \in Nat /\ cursor \in Nat
  BY DEF TypeOK, CandleIds
<1>2. \/ fetched = {} /\ previousTail = None
      \/ /\ previousTail \in fetched
         /\ \A e \in fetched : e <= previousTail /\ e < cursor
  BY DEF HoleInv, PagesFollow
<1>3. \A e \in DOMAIN page : cursor <= e
  BY DEF HoleInv, PagesFollow
<1>4. CASE u \in fetched /\ v \in fetched
  BY <1>4 DEF HoleInv, NoSilentHole
<1>5. CASE u \in DOMAIN page /\ v \in fetched
  BY <1>1, <1>2, <1>3, <1>5
<1>6. CASE u \in DOMAIN page /\ v \in DOMAIN page
  <2>1. t \notin Tailed(DOMAIN page)
    BY <1>2 DEF Tailed
  <2> QED
    BY <1>6, <2>1 DEF Detect, Tailed
<1>7. CASE u \in fetched /\ v \in DOMAIN page
  <2>1. previousTail \in fetched /\ previousTail \in Nat /\ previousTail # t
    BY <1>1, <1>2, <1>7
  <2>2. CASE t < previousTail
    BY <1>7, <2>1, <2>2 DEF HoleInv, NoSilentHole
  <2>3. CASE previousTail < t
    <3>1. previousTail # None
      BY <2>1, NoneAssumption
    <3>2. Tailed(DOMAIN page) = DOMAIN page \cup {previousTail}
      BY <3>1 DEF Tailed
    <3> QED
      BY <1>7, <2>1, <2>3, <3>2 DEF Detect
  <2> QED
    BY <1>1, <2>1, <2>2, <2>3
<1> QED
  BY <1>4, <1>5, <1>6, <1>7

LEMMA HoleMap ==
  ASSUME TypeOK, HoleInv, MapPage
  PROVE  HoleInv'
<1>1. fetched \subseteq Nat /\ DOMAIN page \subseteq Nat /\ cursor \in Nat
  BY DEF TypeOK, CandleIds
<1>2. stage = "map" /\ UNCHANGED previousTail
  BY DEF MapPage
<1>3. CASE stage' = "fetch"
  <2>1. cursor' \in Nat /\ UNCHANGED fetched /\ UNCHANGED gaps
    BY <1>1, <1>3, BackfillAssumption DEF TypeOK, MapPage, PageEnd, Least
  <2>2. cursor <= cursor'
    <3>1. cursor' = PageEnd /\ cursor < end /\ end \in Nat
      BY <1>2, <1>3 DEF TypeOK, HoleInv, PagesFollow, MapPage
    <3> QED
      BY <1>1, <3>1, BackfillAssumption DEF PageEnd, Least
  <2> QED
    BY <1>1, <1>2, <1>3, <2>1, <2>2 DEF HoleInv, PagesFollow, NoSilentHole
<1>4. CASE stage' = "returned"
  <2>1. UNCHANGED fetched /\ gaps \subseteq gaps'
    BY <1>4 DEF MapPage
  <2> QED
    BY <1>4, <2>1 DEF HoleInv, PagesFollow, NoSilentHole
<1>5. CASE stage' = "store"
  <2>1. /\ DOMAIN page # {} /\ DOMAIN page' = DOMAIN page
        /\ gaps' = gaps \cup Detect(Tailed(DOMAIN page))
        /\ fetched' = fetched \cup DOMAIN page
    BY <1>5 DEF MapPage
  <2>2. \A t \in fetched, u \in DOMAIN page : t < u
    BY <1>1, <1>2 DEF HoleInv, PagesFollow
  <2>3. PagesFollow'
    BY <1>5, <2>1, <2>2 DEF PagesFollow
  <2>4. NoSilentHole'
    BY <1>2, <2>1, HoleFound DEF NoSilentHole
  <2> QED
    BY <2>3, <2>4 DEF HoleInv
<1> QED
  BY <1>3, <1>4, <1>5 DEF MapPage

LEMMA HoleStore ==
  ASSUME TypeOK, HoleInv, StorePage
  PROVE  HoleInv'
<1>1. UNCHANGED fetched /\ UNCHANGED gaps
  BY DEF StorePage
<1>2. NoSilentHole'
  BY <1>1 DEF HoleInv, NoSilentHole
<1>3. CASE stage' = "returned"
  BY <1>2, <1>3 DEF HoleInv, PagesFollow
<1>4. CASE stage' = "fetch"
  <2>1. PICK tail \in DOMAIN page :
          /\ \A t \in DOMAIN page : t <= tail
          /\ previousTail' = tail /\ cursor' = tail + 1
    BY <1>4 DEF StorePage
  <2>2. fetched \subseteq Nat /\ tail \in Nat
    BY DEF TypeOK, CandleIds
  <2>3. /\ tail \in fetched
        /\ \A t \in fetched \ DOMAIN page : t < tail
    BY DEF HoleInv, PagesFollow, StorePage
  <2>4. \A t \in fetched : t <= tail /\ t < tail + 1
    BY <2>1, <2>2, <2>3
  <2>5. PagesFollow'
    BY <1>1, <1>4, <2>1, <2>3, <2>4 DEF PagesFollow
  <2> QED
    BY <1>2, <2>5 DEF HoleInv
<1> QED
  BY <1>3, <1>4 DEF StorePage

LEMMA HoleStep ==
  ASSUME TypeOK, HoleInv, [Next]_vars
  PROVE  HoleInv'
<1>1. CASE UNCHANGED backfill
  BY <1>1 DEF backfill, HoleInv, PagesFollow, NoSilentHole
<1>2. CASE Start
  <2>1. UNCHANGED <<cursor, previousTail, gaps, fetched>>
    BY <1>2 DEF Start
  <2>2. stage = "idle" /\ stage' = "fetch"
    BY <1>2 DEF Start
  <2> QED
    BY <2>1, <2>2 DEF HoleInv, PagesFollow, NoSilentHole
<1>3. CASE Fetch
  <2>1. UNCHANGED <<cursor, previousTail, gaps, fetched>>
    BY <1>3 DEF Fetch
  <2>2. stage' = "map" => \A t \in DOMAIN page' : cursor <= t
    BY <1>3 DEF Fetch, Answer
  <2>3. /\ stage = "fetch" /\ stage' \in {"map", "returned"}
        /\ cursor < end /\ UNCHANGED end
    BY <1>3 DEF Fetch
  <2> QED
    BY <2>1, <2>2, <2>3 DEF HoleInv, PagesFollow, NoSilentHole
<1>4. CASE MapPage
  BY <1>4, HoleMap
<1>5. CASE StorePage
  BY <1>5, HoleStore
<1>6. CASE Finish
  BY <1>6 DEF Finish, HoleInv, PagesFollow, NoSilentHole
<1>7. CASE Tick \/ Expire \/ Collect \/ Terminated \/ \E s \in Symbols : Quote(s)
  <2>1. CASE Tick \/ Expire \/ Terminated \/ \E s \in Symbols : Quote(s)
    BY <1>1, <2>1 DEF Tick, Expire, Terminated, Quote, vars
  <2>2. CASE Collect
    BY <1>1, <2>2 DEF Collect, ReadBook, Connect, Backoff, TopOfLoop, ReadFails,
                      ReadSnapshot, ReadDelta, ReadKline, ReadOther
  <2> QED
    BY <1>7, <2>1, <2>2
<1>8. CASE UNCHANGED vars
  BY <1>1, <1>8 DEF vars
<1> QED
  BY <1>2, <1>3, <1>4, <1>5, <1>6, <1>7, <1>8 DEF Next, Backfill

LEMMA InitHole ==
  ASSUME Init
  PROVE  HoleInv
BY DEF Init, HoleInv, PagesFollow, NoSilentHole

\* The inductive invariant of the two writers: a connection delivers states
\* that exist, books are in step with it, pages follow each other.
THEOREM InductiveInvariant == Spec => []IInv
<1>1. Init => TypeOK /\ ReadingHasRoom /\ BookInv /\ HoleInv
  BY InitTyped, InitBook, InitHole
<1>2. /\ TypeOK /\ ReadingHasRoom /\ BookInv /\ HoleInv
      /\ [Next]_vars
      => (TypeOK /\ ReadingHasRoom /\ BookInv /\ HoleInv)'
  BY StepTyped, BookStep, HoleStep
<1>3. TypeOK /\ ReadingHasRoom /\ BookInv /\ HoleInv <=> IInv
  BY DEF IInv, BookInv, HoleInv
<1> QED
  BY <1>1, <1>2, <1>3, PTL DEF Spec

\* Every candle missing between the first and the last one that a successful
\* backfill was given is in a gap event.
THEOREM HolesReported == Spec => []HolesAreReported
<1>1. IInv => HolesAreReported
  BY DEF IInv, NoSilentHole, HolesAreReported
<1> QED
  BY <1>1, InductiveInvariant, PTL

-----------------------------------------------------------------------------
(* Waiting for a snapshot.                                                  *)

LEMMA BlindStep ==
  ASSUME TypeOK, ReadingHasRoom, BlindOnlyUnrecorded, [Next]_vars
  PROVE  BlindOnlyUnrecorded'
<1>1. CASE UNCHANGED <<awaiting, local, unrecorded, messagesRead>>
           /\ (pc' \in {"top", "read"} => pc \in {"top", "read"})
  BY <1>1 DEF BlindOnlyUnrecorded
<1>2. CASE Tick \/ Expire \/ Backfill \/ Terminated \/ UNCHANGED vars
           \/ \E s \in Symbols : Quote(s)
  <2>1. UNCHANGED <<awaiting, local, unrecorded, messagesRead, pc>>
    <3>1. CASE Tick \/ Expire \/ \E s \in Symbols : Quote(s)
      BY <3>1 DEF Tick, Expire, Quote, runner, connection, books
    <3>2. CASE Backfill
      BY <3>2 DEF Backfill, Start, Fetch, MapPage, StorePage, Finish, runner,
                  connection, books
    <3>3. CASE Terminated \/ UNCHANGED vars
      BY <3>3 DEF Terminated, vars, runner, connection, books
    <3> QED
      BY <1>2, <3>1, <3>2, <3>3
  <2> QED
    BY <1>1, <2>1
<1>3. CASE Backoff \/ TopOfLoop \/ ReadFails
  <2>1. UNCHANGED <<awaiting, local, unrecorded, messagesRead>>
    BY <1>3 DEF Backoff, TopOfLoop, ReadFails, connection, books
  <2>2. pc' \in {"top", "read"} => pc \in {"top", "read"}
    BY <1>3 DEF Backoff, TopOfLoop, ReadFails, Return
  <2> QED
    BY <1>1, <2>1, <2>2
<1>4. CASE Connect
  BY <1>4 DEF Connect, Return, BlindOnlyUnrecorded
<1>5. CASE ReadOther \/ ReadKline
  <2>1. /\ UNCHANGED <<awaiting, local, unrecorded>>
        /\ pc = "read"
    BY <1>5 DEF ReadOther, ReadKline, connection, books
  <2>2. messagesRead # Messages
    BY <2>1, RunnerAssumption DEF TypeOK, ReadingHasRoom
  <2> QED
    BY <2>1, <2>2 DEF BlindOnlyUnrecorded
<1>6. ASSUME NEW s \in Symbols, ReadSnapshot(s) \/ ReadDelta(s)
      PROVE  BlindOnlyUnrecorded'
  <2>1. /\ pc = "read" /\ messagesRead # Messages
        /\ awaiting' \in {awaiting, awaiting \ {s}}
    BY <1>6, RunnerAssumption
       DEF TypeOK, ReadingHasRoom, ReadSnapshot, ReadDelta
  <2>2. \A r \in Symbols : r \notin awaiting /\ local[r] = None => r \in unrecorded
    BY <2>1 DEF BlindOnlyUnrecorded
  <2>3. CASE Reject(s)
    <3>1. messagesRead' \in 0..Messages
      BY <2>1, <2>3, HandledTyped DEF Reject
    <3>2. /\ local' = [local EXCEPT ![s] = None]
          /\ unrecorded \ {s} \subseteq unrecorded'
          /\ \/ s \in unrecorded'
             \/ pc' \in {"top", "read"} => messagesRead' >= Messages
      BY <2>3 DEF Reject, Handled, Reconnect, Return
    <3>3. \/ s \in unrecorded'
          \/ pc' \in {"top", "read"} => messagesRead' = Messages
      BY <3>1, <3>2, RunnerAssumption
    <3> QED
      BY <2>1, <2>2, <3>2, <3>3 DEF TypeOK, BlindOnlyUnrecorded
  <2>4. ASSUME NEW book \in Levels, Accept(s, book)
        PROVE  BlindOnlyUnrecorded'
    <3>1. /\ local' = [local EXCEPT ![s] = [update |-> next[s], book |-> book]]
          /\ unrecorded' = unrecorded \ {s}
      BY <2>4 DEF Accept
    <3>2. [update |-> next[s], book |-> book] # None
      BY NoneAssumption DEF TypeOK
    <3> QED
      BY <2>1, <2>2, <3>1, <3>2 DEF TypeOK, BlindOnlyUnrecorded
  <2> QED
    BY <1>6, <2>3, <2>4, ReadAccepts
<1> QED
  BY <1>2, <1>3, <1>4, <1>5, <1>6 DEF Next, Collect, ReadBook

\* A collector never goes on waiting for a snapshot of a symbol without one
\* on the way: it has reconnected, or could not write the rejection down.
THEOREM NeverJustWaits == Spec => []BlindOnlyUnrecorded
<1>1. Init => TypeOK /\ ReadingHasRoom /\ BlindOnlyUnrecorded
  BY InitTyped DEF Init, BlindOnlyUnrecorded
<1>2. /\ TypeOK /\ ReadingHasRoom /\ BlindOnlyUnrecorded
      /\ [Next]_vars
      => (TypeOK /\ ReadingHasRoom /\ BlindOnlyUnrecorded)'
  BY StepTyped, BlindStep
<1> QED
  BY <1>1, <1>2, PTL DEF Spec

-----------------------------------------------------------------------------
(***************************************************************************)
(* Bounded work.  That the two commands return (EveryCommandReturns) takes *)
(* fairness, and TLC checks it; what it rests on holds for any constants:  *)
(* measures that every step of a command lowers and no other step raises.  *)
(***************************************************************************)
\* The most steps the collector can still take: a message, a reconnection and
\* the way to the next read each count.
CollectorLeft ==
  IF pc = "returned" THEN 0
  ELSE 4 * (ReconnectAttempts - reconnectsUsed) + 2 * (Messages - messagesRead)
         + (CASE pc = "backoff" -> 4 [] pc = "dial" -> 3 [] pc = "top" -> 2
              [] OTHER -> 1)

\* The most steps the backfill can still take: three for each candle that its
\* cursor has not passed.
BackfillLeft ==
  CASE stage = "returned" -> 0
    [] stage = "idle" -> 3 * (LastCandle + 2) + 4
    [] stage = "fetch" -> 3 * (end + 1 - cursor) + 3
    [] stage = "map" -> 3 * (end + 1 - cursor) + 2
    [] OTHER -> 3 * (end + 1 - cursor) + 1

CommandsAreBounded ==
  [][/\ Collect => CollectorLeft' < CollectorLeft
     /\ Backfill => BackfillLeft' < BackfillLeft
     /\ CollectorLeft' <= CollectorLeft /\ BackfillLeft' <= BackfillLeft]_vars

\* The page at hand lies in the window that is left, the cursor at most one
\* candle behind its end.
PageInWindow ==
  /\ end <= LastCandle + 1 /\ cursor <= end + 1
  /\ stage \in {"map", "store"} =>
       \A t \in DOMAIN page : cursor <= t /\ t <= end

\* What the commands still have to do is a number of steps.
LEMMA LeftType ==
  ASSUME TypeOK, PageInWindow
  PROVE  /\ CollectorLeft \in 0..(4 * ReconnectAttempts + 2 * Messages + 4)
         /\ BackfillLeft \in 0..(3 * (LastCandle + 2) + 4)
         /\ pc # "returned" => CollectorLeft > 0
         /\ stage # "returned" => BackfillLeft > 0
<1>1. /\ ReconnectAttempts - reconnectsUsed \in 0..ReconnectAttempts
      /\ Messages - messagesRead \in 0..Messages
      /\ ReconnectAttempts \in Nat /\ Messages \in Nat
  BY RunnerAssumption DEF TypeOK
<1>2. end + 1 - cursor \in 0..(LastCandle + 2) /\ LastCandle \in Nat
  BY BackfillAssumption DEF TypeOK, PageInWindow
<1> QED BY <1>1, <1>2 DEF CollectorLeft, BackfillLeft

\* A step of the collector uses up a message, a reconnection or some of the way
\* to the next read.
LEMMA CollectorTurns ==
  ASSUME TypeOK, ReadingHasRoom, Collect
  PROVE  /\ pc # "returned"
         /\ \/ pc' = "returned"
            \/ /\ messagesRead' = messagesRead /\ reconnectsUsed' = reconnectsUsed
               /\ <<pc, pc'>> \in {<<"dial", "top">>, <<"backoff", "dial">>,
                                   <<"top", "read">>}
            \/ /\ messagesRead' = messagesRead + 1
               /\ reconnectsUsed' = reconnectsUsed
               /\ pc = "read" /\ pc' = "top"
            \/ /\ messagesRead' \in {messagesRead, messagesRead + 1}
               /\ reconnectsUsed' = reconnectsUsed + 1
               /\ pc \in {"top", "read"} /\ pc' = "backoff"
<1>1. CASE Connect
  BY <1>1 DEF Connect, Return
<1>2. CASE Backoff
  BY <1>2 DEF Backoff, Return
<1>3. CASE TopOfLoop
  BY <1>3 DEF TopOfLoop, Reconnect, Return
<1>4. CASE ReadFails
  BY <1>4 DEF ReadFails, Reconnect, Return
<1>5. ASSUME pc = "read", NEW needed, Handled(needed)
      PROVE  \/ pc' = "returned"
             \/ /\ messagesRead' = messagesRead + 1
                /\ reconnectsUsed' = reconnectsUsed /\ pc' = "top"
             \/ /\ messagesRead' = messagesRead + 1
                /\ reconnectsUsed' = reconnectsUsed + 1 /\ pc' = "backoff"
  BY <1>5 DEF Handled, Reconnect, Return
<1>6. CASE ReadBook
  <2>1. pc = "read" /\ \E needed \in BOOLEAN : Handled(needed)
    BY <1>6 DEF ReadBook, ReadSnapshot, ReadDelta, Accept, Reject
  <2> QED BY <1>5, <2>1
<1>7. CASE ReadKline
  BY <1>5, <1>7 DEF ReadKline
<1>8. CASE ReadOther
  BY <1>5, <1>8 DEF ReadOther
<1> QED BY <1>1, <1>2, <1>3, <1>4, <1>6, <1>7, <1>8 DEF Collect

\* Each step of the collector leaves it fewer.
LEMMA CollectorCounts ==
  ASSUME TypeOK, TypeOK', ReadingHasRoom, PageInWindow, Collect
  PROVE  CollectorLeft' < CollectorLeft
<1>1. /\ ReconnectAttempts \in Nat /\ Messages \in Nat
      /\ reconnectsUsed \in Nat /\ messagesRead \in Nat
  BY RunnerAssumption DEF TypeOK
<1>2. pc # "returned"
  BY CollectorTurns
<1>3. CASE pc' = "returned"
  <2>1. CollectorLeft' = 0
    BY <1>3 DEF CollectorLeft
  <2>2. CollectorLeft > 0
    BY <1>2, LeftType
  <2> QED BY <2>1, <2>2
<1>4. CASE /\ messagesRead' = messagesRead /\ reconnectsUsed' = reconnectsUsed
           /\ <<pc, pc'>> \in {<<"dial", "top">>, <<"backoff", "dial">>,
                               <<"top", "read">>}
  BY <1>1, <1>4 DEF CollectorLeft
<1>5. CASE /\ messagesRead' = messagesRead + 1
           /\ reconnectsUsed' = reconnectsUsed
           /\ pc = "read" /\ pc' = "top"
  BY <1>1, <1>5 DEF CollectorLeft
<1>6. CASE /\ messagesRead' \in {messagesRead, messagesRead + 1}
           /\ reconnectsUsed' = reconnectsUsed + 1
           /\ pc \in {"top", "read"} /\ pc' = "backoff"
  BY <1>1, <1>6 DEF CollectorLeft
<1> QED BY <1>3, <1>4, <1>5, <1>6, CollectorTurns

\* The end of a page to fetch lies behind its cursor and in the window.
LEMMA PageEndLies ==
  ASSUME TypeOK, PagesFollow, MapPage \/ Fetch
  PROVE  cursor < PageEnd /\ PageEnd <= end /\ PageEnd \in Nat
<1>1. stage = "map" \/ cursor < end
  BY DEF MapPage, Fetch
<1>2. cursor < end
  BY <1>1 DEF PagesFollow
<1>3. cursor \in Nat /\ end \in Nat /\ Limit \in Nat \ {0}
  BY BackfillAssumption DEF TypeOK
<1> QED BY <1>2, <1>3 DEF PageEnd, Least

\* How the cursor leaves a page: to its end when it is empty, one behind its
\* last candle when it has been stored.
LEMMA PageMoves ==
  ASSUME TypeOK, PageInWindow
  PROVE  /\ MapPage =>
              /\ stage = "map" /\ end' = end
              /\ \/ stage' = "fetch" /\ cursor' = PageEnd
                 \/ /\ stage' = "store" /\ cursor' = cursor
                    /\ DOMAIN page' = DOMAIN page
                 \/ stage' = "returned" /\ cursor' = cursor
         /\ StorePage =>
              /\ stage = "store" /\ end' = end
              /\ \/ /\ stage' = "fetch" /\ cursor' > cursor
                    /\ cursor' <= end + 1
                 \/ stage' = "returned" /\ cursor' = cursor
<1>1. ASSUME MapPage
      PROVE  /\ stage = "map" /\ end' = end
             /\ \/ stage' = "fetch" /\ cursor' = PageEnd
                \/ /\ stage' = "store" /\ cursor' = cursor
                   /\ DOMAIN page' = DOMAIN page
                \/ stage' = "returned" /\ cursor' = cursor
  BY <1>1 DEF MapPage
<1>2. ASSUME StorePage
      PROVE  /\ stage = "store" /\ end' = end
             /\ \/ /\ stage' = "fetch" /\ cursor' > cursor
                   /\ cursor' <= end + 1
                \/ stage' = "returned" /\ cursor' = cursor
  <2>1. /\ stage = "store" /\ end' = end
        /\ \/ /\ \E tail \in DOMAIN page : cursor' = tail + 1
              /\ stage' = "fetch"
           \/ stage' = "returned" /\ cursor' = cursor
    BY <1>2, Zenon DEF StorePage
  <2>2. cursor \in Nat /\ end \in Nat
    BY DEF TypeOK
  <2>3. ASSUME NEW tail \in DOMAIN page
        PROVE  tail \in Nat /\ cursor <= tail /\ tail <= end
    BY <2>1, <2>3, BackfillAssumption DEF PageInWindow, TypeOK, CandleIds
  <2> QED BY <2>1, <2>2, <2>3
<1> QED BY <1>1, <1>2

\* What a step of the backfill does to its stage and its cursor: with every
\* page, an empty one included, the cursor advances.
LEMMA BackfillTurns ==
  ASSUME TypeOK, PagesFollow, PageInWindow, Backfill
  PROVE  \/ stage # "returned" /\ stage' = "returned"
         \/ stage = "idle" /\ stage' = "fetch" /\ cursor' = 0
         \/ /\ <<stage, stage'>> \in {<<"fetch", "map">>, <<"map", "store">>}
            /\ end' = end /\ cursor' = cursor
         \/ /\ stage \in {"map", "store"} /\ stage' = "fetch"
            /\ end' = end /\ cursor' > cursor
<1>1. CASE Start
  BY <1>1 DEF Start, PagesFollow
<1>2. CASE Fetch \/ Finish
  BY <1>2 DEF Fetch, Finish
<1>3. CASE MapPage
  <2>1. PageEnd > cursor
    BY <1>3, PageEndLies
  <2> QED BY <1>3, <2>1, PageMoves
<1>4. CASE StorePage
  <2> QED BY <1>4, PageMoves
<1> QED BY <1>1, <1>2, <1>3, <1>4 DEF Backfill

\* Each step of the backfill leaves it fewer.
LEMMA BackfillCounts ==
  ASSUME TypeOK, TypeOK', PagesFollow, PageInWindow, PageInWindow', Backfill
  PROVE  BackfillLeft' < BackfillLeft
<1>1. /\ LastCandle \in Nat /\ end \in Nat /\ cursor \in Nat
      /\ end' \in Nat /\ cursor' \in Nat /\ end' <= LastCandle + 1
  BY BackfillAssumption DEF TypeOK, PageInWindow
<1>2. CASE stage # "returned" /\ stage' = "returned"
  <2>1. BackfillLeft' = 0
    BY <1>2 DEF BackfillLeft
  <2>2. BackfillLeft > 0
    BY <1>2, LeftType
  <2> QED BY <2>1, <2>2
<1>3. CASE stage = "idle" /\ stage' = "fetch" /\ cursor' = 0
  BY <1>1, <1>3 DEF BackfillLeft
<1>4. CASE /\ <<stage, stage'>> \in {<<"fetch", "map">>, <<"map", "store">>}
           /\ end' = end /\ cursor' = cursor
  BY <1>1, <1>4 DEF BackfillLeft
<1>5. CASE /\ stage \in {"map", "store"} /\ stage' = "fetch"
           /\ end' = end /\ cursor' > cursor
  BY <1>1, <1>5 DEF BackfillLeft
<1> QED BY <1>2, <1>3, <1>4, <1>5, BackfillTurns

\* A step of one command leaves the measure of the other.
LEMMA TheOtherStays ==
  ASSUME [Next]_vars
  PROVE  /\ ~Collect => CollectorLeft' = CollectorLeft
         /\ ~Backfill => BackfillLeft' = BackfillLeft /\ UNCHANGED backfill
<1>1. CASE Collect
  <2>1. UNCHANGED backfill
    BY <1>1 DEF Collect, ReadBook, Connect, Backoff, TopOfLoop, ReadFails,
       ReadSnapshot, ReadDelta, ReadKline, ReadOther
  <2> QED BY <1>1, <2>1 DEF backfill, BackfillLeft
<1>2. CASE Backfill
  <2>1. UNCHANGED runner
    BY <1>2 DEF Backfill, Start, Fetch, MapPage, StorePage, Finish
  <2> QED BY <1>2, <2>1 DEF runner, CollectorLeft
<1>3. CASE Tick \/ Expire \/ Terminated \/ UNCHANGED vars \/ \E s \in Symbols : Quote(s)
  <2>1. UNCHANGED backfill /\ UNCHANGED <<pc, messagesRead, reconnectsUsed>>
    BY <1>3 DEF Tick, Expire, Terminated, Quote, vars, runner
  <2> QED BY <2>1 DEF backfill, BackfillLeft, CollectorLeft
<1> QED BY <1>1, <1>2, <1>3 DEF Next

\* Pages stay in the window of the backfill that asked for them.
LEMMA PageStep ==
  ASSUME TypeOK, TypeOK', PagesFollow, PageInWindow, [Next]_vars
  PROVE  PageInWindow'
<1>1. CASE UNCHANGED backfill
  BY <1>1 DEF backfill, PageInWindow
<1>2. CASE Start
  <2>1. /\ stage = "idle" /\ stage' = "fetch" /\ cursor' = cursor
        /\ \E e \in 1..LastCandle + 1 : end' = e
    BY <1>2 DEF Start
  <2> QED BY <2>1, BackfillAssumption DEF PageInWindow, PagesFollow
<1>3. CASE Fetch
  <2>1. /\ cursor' = cursor /\ end' = end
        /\ \/ stage' = "returned"
           \/ \E until \in {PageEnd - 1, PageEnd} : DOMAIN page' = Answer(until)
    BY <1>3 DEF Fetch
  <2>2. PageEnd <= end /\ PageEnd \in Nat /\ end \in Nat
    BY <1>3, PageEndLies DEF TypeOK
  <2>3. ASSUME NEW until \in {PageEnd - 1, PageEnd}, NEW t \in Answer(until)
        PROVE  cursor <= t /\ t <= end
    <3>1. t \in listed /\ cursor <= t /\ t <= until
      BY <2>3 DEF Answer
    <3>2. t \in Int /\ until \in Int /\ until <= PageEnd
      BY <2>2, <2>3, <3>1, BackfillAssumption DEF TypeOK, CandleIds
    <3> QED BY <2>2, <3>1, <3>2
  <2> QED BY <2>1, <2>3 DEF PageInWindow
<1>4. CASE MapPage
  <2>1. PageEnd <= end /\ PageEnd \in Nat /\ end \in Nat
    BY <1>4, PageEndLies DEF TypeOK
  <2>2. end <= LastCandle + 1 /\ cursor <= end + 1
    BY DEF PageInWindow
  <2>3. stage = "map" /\ \A t \in DOMAIN page : cursor <= t /\ t <= end
    BY <1>4, PageMoves DEF PageInWindow
  <2> QED BY <1>4, <2>1, <2>2, <2>3, PageMoves DEF PageInWindow
<1>5. CASE StorePage
  <2>1. end' = end /\ stage' \in {"fetch", "returned"} /\ cursor' <= end + 1
    BY <1>5, PageMoves DEF PageInWindow
  <2> QED BY <2>1 DEF PageInWindow
<1>6. CASE Finish
  BY <1>6 DEF Finish, PageInWindow
<1> QED BY <1>1, <1>2, <1>3, <1>4, <1>5, <1>6, TheOtherStays DEF Backfill

\* Every step of the collector or the backfill leaves it fewer steps, and no
\* step of anything else gives it more: whatever the exchange and the network
\* answer, the collector makes at most 4 steps for each reconnection and 2 for
\* each message, and the backfill, whose cursor passes every page, empty ones
\* included, 3 for each candle of its window (collectorRunner.Run in
\* cmd/collector/runner.go, BackfillCandles in internal/app/backfill).
THEOREM BoundedCommands ==
  Spec => [](/\ CollectorLeft \in 0..(4 * ReconnectAttempts + 2 * Messages + 4)
             /\ BackfillLeft \in 0..(3 * (LastCandle + 2) + 4))
          /\ CommandsAreBounded
<1>1. Init => PageInWindow
  BY BackfillAssumption DEF Init, PageInWindow
<1>2. IInv => TypeOK /\ ReadingHasRoom /\ PagesFollow
  BY DEF IInv
<1>3. IInv /\ IInv' /\ PageInWindow /\ [Next]_vars => PageInWindow'
  <2> SUFFICES ASSUME IInv, IInv', PageInWindow, [Next]_vars PROVE PageInWindow'
    OBVIOUS
  <2>1. TypeOK /\ TypeOK' /\ PagesFollow
    BY DEF IInv
  <2> QED BY <2>1, PageStep
<1>4. IInv /\ PageInWindow =>
        /\ CollectorLeft \in 0..(4 * ReconnectAttempts + 2 * Messages + 4)
        /\ BackfillLeft \in 0..(3 * (LastCandle + 2) + 4)
  BY <1>2, LeftType
<1>5. IInv /\ IInv' /\ PageInWindow /\ PageInWindow' /\ [Next]_vars =>
        [/\ Collect => CollectorLeft' < CollectorLeft
         /\ Backfill => BackfillLeft' < BackfillLeft
         /\ CollectorLeft' <= CollectorLeft /\ BackfillLeft' <= BackfillLeft]_vars
  <2> SUFFICES ASSUME IInv, IInv', PageInWindow, PageInWindow', [Next]_vars
               PROVE  /\ Collect => CollectorLeft' < CollectorLeft
                      /\ Backfill => BackfillLeft' < BackfillLeft
                      /\ CollectorLeft' <= CollectorLeft
                      /\ BackfillLeft' <= BackfillLeft
    OBVIOUS
  <2>1. TypeOK /\ TypeOK' /\ ReadingHasRoom /\ PagesFollow
    BY DEF IInv
  <2>2. /\ Collect => CollectorLeft' < CollectorLeft
        /\ Backfill => BackfillLeft' < BackfillLeft
    BY <2>1, CollectorCounts, BackfillCounts
  <2>3. /\ CollectorLeft \in Int /\ BackfillLeft \in Int
    BY <1>4
  <2>4. CollectorLeft' \in Int /\ BackfillLeft' \in Int
    <3>1. /\ ReconnectAttempts \in Int /\ Messages \in Int /\ LastCandle \in Int
          /\ reconnectsUsed' \in Int /\ messagesRead' \in Int
      BY <2>1, RunnerAssumption, BackfillAssumption DEF TypeOK
    <3>2. end' \in Int /\ cursor' \in Int
      BY <2>1 DEF TypeOK
    <3>3. CollectorLeft' \in Int
      BY <3>1 DEF CollectorLeft
    <3>4. BackfillLeft' \in Int
      BY <3>1, <3>2 DEF BackfillLeft
    <3> QED BY <3>3, <3>4
  <2> QED BY <2>2, <2>3, <2>4, TheOtherStays
<1> QED
  BY <1>1, <1>3, <1>4, <1>5, InductiveInvariant, PTL DEF Spec, CommandsAreBounded
=============================================================================
