------------------------------ MODULE Backtest ------------------------------
(***************************************************************************)
(* Research on stored data (internal/app/research, internal/backtest,      *)
(* internal/research, internal/hypothesis): which states of a series match *)
(* the rules of a hypothesis, the round trips they become, their summary,  *)
(* split and walk-forward folds, and what the result gates decide of it.   *)
(* No state; used by the module SignalEntry.                               *)
(*                                                                         *)
(* A series is the stored states and candles of one symbol and interval,   *)
(* both in the order of their times; a state carries the features that are *)
(* complete when it closes, as a function from their names.  Prices are    *)
(* integers; an executed price is in units of a 2*Bps-th of a price, money *)
(* in units of a 2*Bps*Bps-th.  A ratio is compared by cross multiplying   *)
(* and never divided.  Percentages come in units of which Whole make 100 % *)
(* and a profit factor in units of which Unit make 1.                      *)
(***************************************************************************)
EXTENDS Integers, Sequences, SequencesExt, FiniteSetsExt, Units

(***************************************************************************)
(* The rules of a hypothesis.  A rule compares a feature with a constant   *)
(* or, when other is not empty, with another feature.  A feature that is   *)
(* missing or incomplete skips the rule, and a skipped rule fails the      *)
(* state.  A crossing compares with the features of the last state the     *)
(* regime allowed, not with those of the candle before.                    *)
(***************************************************************************)
Resolved(rule, features) ==
    {rule.feature} \union ({rule.other} \ {""}) \subseteq DOMAIN features

Operand(rule, features) ==
    IF rule.other = "" THEN rule.value ELSE features[rule.other]

IsCross(rule) == rule.operator \in {"crosses_above", "crosses_below"}

RuleSkipped(rule, current, previous) ==
    \/ ~Resolved(rule, current)
    \/ IsCross(rule) /\ ~Resolved(rule, previous)

RuleHolds(rule, current, previous) ==
    LET left == current[rule.feature]
        right == Operand(rule, current)
        was == previous[rule.feature]
        bar == Operand(rule, previous)
    IN  CASE rule.operator = ">" -> left > right
          [] rule.operator = ">=" -> left >= right
          [] rule.operator = "<" -> left < right
          [] rule.operator = "<=" -> left <= right
          [] rule.operator = "==" -> left = right
          [] rule.operator = "!=" -> left # right
          [] rule.operator = "crosses_above" -> was <= bar /\ left > right
          [] rule.operator = "crosses_below" -> was >= bar /\ left < right

SkipsOne(spec, current, previous) ==
    \E rule \in spec.rules : RuleSkipped(rule, current, previous)

RulesPass(spec, current, previous) ==
    /\ spec.rules # {} /\ ~SkipsOne(spec, current, previous)
    /\ \A rule \in spec.rules : RuleHolds(rule, current, previous)

AllowsRegime(spec, state) ==
    /\ ~state.noTrade
    /\ state.regime \in spec.allowed \ spec.blocked
    /\ state.confidence >= spec.minConfidence

TradeDirection(spec, regime) ==
    CASE spec.direction \in {"LONG", "SHORT"} -> spec.direction
      [] spec.direction = "BOTH" /\ regime = "TREND_DOWN" -> "SHORT"
      [] /\ spec.direction = "BOTH"
         /\ regime \in {"TREND_UP", "BREAKOUT_SETUP"} -> "LONG"
      [] OTHER -> "none"

(***************************************************************************)
(* A round trip at taker cost.  Half the spread and the slippage move each *)
(* fill against the trade, and each fill pays its fee.                     *)
(***************************************************************************)
ValidCosts(costs) ==
    /\ {costs.takerFeeBPS, costs.spreadBPS, costs.slippageBPS, costs.factor}
          \subseteq Int
    /\ costs.takerFeeBPS >= 0 /\ costs.spreadBPS >= 0 /\ costs.slippageBPS >= 0
    /\ costs.factor > 0
    /\ costs.spreadBPS + 2 * costs.slippageBPS * costs.factor < 2 * Bps

ValidRequest(request) ==
    /\ {request.holding, request.quantity, request.equity} \subseteq Nat \ {0}
    /\ request.folds \in Nat \ {1} /\ request.split \in Nat
    /\ request.minCoveragePct \in 1..Whole
    /\ ValidCosts(request.costs)

\* The part after the split, if there is one, is a proper part of the window.
ValidSplit(split, run) ==
    split # 0 => run.windowStart < split /\ split < run.windowEnd

\* What the tables hold of a symbol and interval: one candle for a time it
\* opens at, in the order of these times, and each closes after it opens.
ValidSeries(series) ==
    LET candles == series.candles
        states == series.states
    IN  /\ Len(states) \in Nat /\ DOMAIN states = 1..Len(states)
        /\ \A i \in DOMAIN states : states[i].closeTime \in Int
        /\ Len(candles) \in Nat /\ DOMAIN candles = 1..Len(candles)
        /\ \A i \in DOMAIN candles :
              /\ {candles[i].openTime, candles[i].closeTime,
                  candles[i].open, candles[i].close} \subseteq Int
              /\ candles[i].openTime < candles[i].closeTime
              /\ \A j \in 1..(i - 1) : candles[j].openTime < candles[i].openTime

ExecutedPrice(mid, costs, upwards) ==
    LET impact == costs.spreadBPS + 2 * costs.slippageBPS * costs.factor
    IN  mid * (IF upwards THEN 2 * Bps + impact ELSE 2 * Bps - impact)

RoundTrip(direction, entry, exit, request) ==
    LET long == direction = "LONG"
        costs == request.costs
        entryPrice == ExecutedPrice(entry.open, costs, long)
        exitPrice == ExecutedPrice(exit.close, costs, ~long)
        gross == request.quantity *
                   (IF long THEN exitPrice - entryPrice ELSE entryPrice - exitPrice)
        fees == request.quantity * (entryPrice + exitPrice) * costs.takerFeeBPS
    IN  [direction |-> direction, entryTime |-> entry.openTime,
         exitTime |-> exit.closeTime, netPnL |-> gross * Bps - fees]

(***************************************************************************)
(* One series: each state that matches enters at the candle that opens     *)
(* when the state closes and leaves after the holding period, unless the   *)
(* trade before is still open or the candles are not there.                *)
(***************************************************************************)
InWindow(time, run) == run.windowStart <= time /\ time < run.windowEnd

\* The candles that may serve the trades of the window.
WindowCandles(series, run, request) ==
    {i \in DOMAIN series.candles :
        /\ run.windowStart <= series.candles[i].openTime
        /\ series.candles[i].openTime < run.windowEnd + request.holding}

WindowStates(series, run) ==
    {i \in DOMAIN series.states : InWindow(series.states[i].closeTime, run)}

EntryIndexes(series, run, request, state) ==
    {i \in WindowCandles(series, run, request) :
        series.candles[i].openTime = state.closeTime}

\* Fault: a state opens a trade while the trade before it is still open.
TradeOfOverlapping(spec, run, request, series, state, nextEntry) ==
    LET direction == TradeDirection(spec, state.regime)
        entries == EntryIndexes(series, run, request, state)
        entry == Max(entries)
        exit == entry + request.holding - 1
    IN  IF /\ direction # "none" /\ entries # {}
           /\ exit \in WindowCandles(series, run, request)
        THEN <<RoundTrip(direction, series.candles[entry], series.candles[exit],
                         request)>>
        ELSE <<>>

\* The trade a matching state opens, as a sequence of at most one.
TradeOf(spec, run, request, series, state, nextEntry) ==
    LET direction == TradeDirection(spec, state.regime)
        entries == EntryIndexes(series, run, request, state)
        entry == Max(entries)
        exit == entry + request.holding - 1
    IN  IF /\ direction # "none" /\ state.closeTime >= nextEntry
           /\ entries # {} /\ exit \in WindowCandles(series, run, request)
        THEN <<RoundTrip(direction, series.candles[entry], series.candles[exit],
                         request)>>
        ELSE <<>>

BacktestState(spec, run, request, series, sofar, state) ==
    LET current == state.features
        opened == IF RulesPass(spec, current, sofar.previous)
                  THEN TradeOf(spec, run, request, series, state, sofar.nextEntry)
                  ELSE <<>>
    IN  IF ~InWindow(state.closeTime, run) \/ ~AllowsRegime(spec, state) THEN sofar
        ELSE [trades |-> sofar.trades \o opened,
              previous |-> current,
              nextEntry |-> IF opened = <<>> THEN sofar.nextEntry
                            ELSE opened[1].exitTime]

\* What the loop over the states holds after each of them.
BacktestAfter(spec, run, request, series) ==
    LET after[n \in 0..Len(series.states)] ==
          IF n = 0
          THEN [trades |-> <<>>, previous |-> <<>>, nextEntry |-> run.windowStart]
          ELSE BacktestState(spec, run, request, series, after[n - 1],
                             series.states[n])
    IN  after

BacktestSeries(spec, run, request, series) ==
    BacktestAfter(spec, run, request, series)[Len(series.states)].trades

\* The trades of each series of the sample.
SeriesTrades(spec, run, request, sample) ==
    [i \in DOMAIN sample |-> BacktestSeries(spec, run, request, sample[i])]

\* All of them, one series after the other.
GenerateTrades(spec, run, request, sample) ==
    FlattenSeq(SeriesTrades(spec, run, request, sample))

\* Coverage counts the stored states of each series against the window.
Coverage(run, sample) ==
    LET expected == run.windowEnd - run.windowStart
        observed(series) == Min({expected, Cardinality(WindowStates(series, run))})
    IN  [expected |-> expected * Len(sample),
         missing |-> FoldLeft(LAMBDA sum, series :
                         sum + expected - observed(series), 0, sample)]

\* The code rounds the share to hundredths of a percent before it compares.
Covered(coverage, request) ==
    (coverage.expected - coverage.missing) * Whole
        >= coverage.expected * request.minCoveragePct
(***************************************************************************)
(* The summary of some trades, in order.  The worst drawdown is a pair:    *)
(* so much lost of that peak.                                              *)
(***************************************************************************)
Worse(a, b) == IF a.lost * b.peak > b.lost * a.peak THEN a ELSE b

AddTrade(summary, trade) ==
    LET net == trade.netPnL
        equity == summary.equity + net
        peak == Max({summary.peak, equity})
    IN  [trades |-> summary.trades + 1,
         wins |-> summary.wins + (IF net > 0 THEN 1 ELSE 0),
         grossProfit |-> summary.grossProfit + Max({net, 0}),
         grossLoss |-> summary.grossLoss + Max({-net, 0}),
         netPnL |-> summary.netPnL + net,
         equity |-> equity,
         peak |-> peak,
         drawdown |-> Worse([lost |-> peak - equity, peak |-> peak],
                            summary.drawdown)]

\* The account after each of the trades, of which only some are kept.
AccountAfter(initialEquity, trades, kept) ==
    LET after[n \in 0..Len(trades)] ==
          IF n = 0
          THEN [trades |-> 0, wins |-> 0, grossProfit |-> 0, grossLoss |-> 0,
                netPnL |-> 0, equity |-> initialEquity, peak |-> initialEquity,
                drawdown |-> [lost |-> 0, peak |-> initialEquity]]
          ELSE IF n \in kept THEN AddTrade(after[n - 1], trades[n])
               ELSE after[n - 1]
    IN  after

Summarize(initialEquity, trades, kept) ==
    AccountAfter(initialEquity, trades, kept)[Len(trades)]

\* An entry at the split belongs to the part after it.
InSample(trades, split) == {i \in DOMAIN trades : trades[i].entryTime < split}

OutOfSample(trades, split) == {i \in DOMAIN trades : trades[i].entryTime >= split}

FoldIndex(entryTime, run, folds) ==
    Min({folds, 1 + ((entryTime - run.windowStart) * folds)
                       \div (run.windowEnd - run.windowStart)})

FoldTrades(trades, run, folds, index) ==
    {i \in DOMAIN trades : FoldIndex(trades[i].entryTime, run, folds) = index}

Total(numbers) ==
    LET sum[n \in 0..Len(numbers)] ==
          IF n = 0 THEN 0 ELSE sum[n - 1] + numbers[n]
    IN  sum[Len(numbers)]

(***************************************************************************)
(* Metrics and the gates on them.  Costs count as included as soon as a    *)
(* trade was evaluated.                                                    *)
(***************************************************************************)
ProfitFactorReaches(profit, loss, least) == profit * Unit >= least * loss

DrawdownWithin(drawdown, pct) == drawdown.lost * Whole <= pct * drawdown.peak

SummaryMetrics(coverage, summary) ==
    [trades |-> summary.trades,
     costsIncluded |-> summary.trades > 0,
     regimeAnalysis |-> coverage.missing = 0,
     grossProfit |-> summary.grossProfit, grossLoss |-> summary.grossLoss,
     netPnL |-> summary.netPnL, drawdown |-> summary.drawdown,
     outOfSample |-> FALSE, inSampleTrades |-> 0, inSampleNetPnL |-> 0,
     outOfSampleTrades |-> 0, outOfSampleNetPnL |-> 0,
     outOfSampleProfit |-> 0, outOfSampleLoss |-> 0,
     outOfSampleDrawdown |-> summary.drawdown,
     walkForward |-> FALSE, folds |-> 0, passedFolds |-> 0, foldTrades |-> 0]

ValidGatePolicy(policy) ==
    /\ policy.minTrades >= 0 /\ policy.minProfitFactor >= 0
    /\ policy.minExpectancy >= 0 /\ policy.maxDrawdownPct \in 0..Whole

\* With no losing trade the factor is unbounded if there is a profit at all.
ProfitFactorGate(metrics, policy) ==
    IF metrics.grossLoss > 0
    THEN ProfitFactorReaches(metrics.grossProfit, metrics.grossLoss,
                             policy.minProfitFactor)
    ELSE metrics.trades > 0 /\ metrics.grossProfit > 0

GatesPass(metrics, policy) ==
    /\ metrics.trades >= policy.minTrades
    /\ policy.requireCosts => metrics.costsIncluded
    /\ policy.minProfitFactor > 0 => ProfitFactorGate(metrics, policy)
    /\ policy.minExpectancy > 0 =>
          metrics.trades > 0 /\ metrics.netPnL >= policy.minExpectancy * metrics.trades
    /\ policy.maxDrawdownPct > 0 =>
          DrawdownWithin(metrics.drawdown, policy.maxDrawdownPct)
    /\ policy.requireOutOfSample =>
          metrics.outOfSample /\ metrics.outOfSampleTrades > 0
    /\ policy.requireWalkForward => metrics.walkForward
    /\ policy.requireRegimeAnalysis => metrics.regimeAnalysis

\* A fold must pass every gate on its own, except that it need not itself be
\* split: the number of trades is asked of each fold too.
FoldPolicy(policy) ==
    [policy EXCEPT !.requireOutOfSample = FALSE, !.requireWalkForward = FALSE]

FoldSummary(trades, run, request, index) ==
    Summarize(request.equity, trades, FoldTrades(trades, run, request.folds, index))

PassedFolds(coverage, trades, run, request, policy) ==
    IF policy.enabled
    THEN {i \in 1..request.folds :
            GatesPass(SummaryMetrics(coverage, FoldSummary(trades, run, request, i)),
                      FoldPolicy(policy))}
    ELSE {}

WithSplit(metrics, trades, request) ==
    LET in == Summarize(request.equity, trades, InSample(trades, request.split))
        out == Summarize(request.equity, trades, OutOfSample(trades, request.split))
    IN  IF request.split = 0 THEN metrics
        ELSE [metrics EXCEPT
                !.outOfSample = TRUE,
                !.inSampleTrades = in.trades, !.inSampleNetPnL = in.netPnL,
                !.outOfSampleTrades = out.trades,
                !.outOfSampleNetPnL = out.netPnL,
                !.outOfSampleProfit = out.grossProfit,
                !.outOfSampleLoss = out.grossLoss,
                !.outOfSampleDrawdown = out.drawdown]

WithFolds(metrics, coverage, trades, run, request, policy) ==
    LET passed == PassedFolds(coverage, trades, run, request, policy)
    IN  IF request.folds = 0 THEN metrics
        ELSE [metrics EXCEPT
                !.walkForward = passed = 1..request.folds,
                !.folds = request.folds,
                !.passedFolds = Cardinality(passed),
                !.foldTrades = IF policy.enabled
                               THEN Total([i \in 1..request.folds |->
                                      FoldSummary(trades, run, request, i).trades])
                               ELSE 0]

BacktestMetrics(coverage, trades, run, request, policy) ==
    WithFolds(WithSplit(SummaryMetrics(coverage, Summarize(request.equity, trades,
                                                           DOMAIN trades)),
                        trades, request),
              coverage, trades, run, request, policy)

(***************************************************************************)
(* The decision, and what the validator accepts as a result.               *)
(***************************************************************************)
Incomplete(metrics, policy) ==
    \/ policy.requireOutOfSample /\ ~metrics.outOfSample
    \/ policy.requireWalkForward /\ metrics.folds = 0
    \/ policy.requireRegimeAnalysis /\ ~metrics.regimeAnalysis

Decide(metrics, policy) ==
    CASE ~policy.enabled \/ Incomplete(metrics, policy) -> "INCONCLUSIVE"
      [] GatesPass(metrics, policy) -> "CANDIDATE"
      [] OTHER -> "REJECTED"

FinalStatuses == {"COMPLETED", "FAILED", "CANCELLED"}
Outcomes == {"NOT_EXECUTED", "INCONCLUSIVE", "REJECTED", "CANDIDATE"}

ValidMetrics(metrics) ==
    /\ metrics.passedFolds \in 0..metrics.folds
    /\ metrics.walkForward =>
          metrics.folds > 0 /\ metrics.passedFolds = metrics.folds
    /\ metrics.inSampleTrades + metrics.outOfSampleTrades
          \in {0, metrics.trades}
    /\ metrics.drawdown.lost \in 0..metrics.drawdown.peak

ValidResult(result) ==
    LET metrics == result.metrics
    IN  /\ result.status \in FinalStatuses /\ result.outcome \in Outcomes
        /\ ValidMetrics(metrics)
        /\ IF result.outcome = "NOT_EXECUTED"
           THEN result.status # "COMPLETED" /\ metrics.trades = 0
           ELSE /\ metrics.trades > 0 =>
                      metrics.costsIncluded /\ metrics.regimeAnalysis
                /\ result.outcome = "CANDIDATE" =>
                      /\ result.status = "COMPLETED" /\ metrics.trades > 0
                      /\ metrics.outOfSample /\ metrics.walkForward

\* The result of a backtest of a run over a sample.
BacktestResult(spec, run, request, policy, sample) ==
    LET coverage == Coverage(run, sample)
        trades == GenerateTrades(spec, run, request, sample)
        metrics == BacktestMetrics(coverage, trades, run, request, policy)
    IN  IF Covered(coverage, request)
        THEN [status |-> "COMPLETED", outcome |-> Decide(metrics, policy),
              metrics |-> metrics]
        ELSE [status |-> "FAILED", outcome |-> "NOT_EXECUTED",
              metrics |-> SummaryMetrics(coverage, Summarize(request.equity, <<>>, {}))]

\* A dry run and a rule evaluation look at the same coverage and trade nothing.
NoTradeResult(run, request, sample) ==
    LET coverage == Coverage(run, sample)
        covered == Covered(coverage, request)
    IN  [status |-> IF covered THEN "COMPLETED" ELSE "FAILED",
         outcome |-> IF covered THEN "INCONCLUSIVE" ELSE "NOT_EXECUTED",
         metrics |-> SummaryMetrics(coverage, Summarize(request.equity, <<>>, {}))]

-----------------------------------------------------------------------------
(***************************************************************************)
(* What makes the trades of a backtest honest, and its metrics those of    *)
(* these trades.                                                           *)
(***************************************************************************)
\* What had closed by a time among the states the hypothesis may trade on.
ClosedBy(spec, series, time) ==
    {i \in DOMAIN series.states :
        AllowsRegime(spec, series.states[i]) /\ series.states[i].closeTime <= time}

\* No trade is entered while another is open, outside the window, or before a
\* state that allows it has closed: at any time there are at most as many
\* trades as such states.
HonestSeries(spec, run, series, trades) ==
    /\ \A j \in 1..(Len(trades) - 1) : trades[j].exitTime <= trades[j + 1].entryTime
    /\ \A j \in 1..Len(trades) :
          /\ InWindow(trades[j].entryTime, run)
          /\ j <= Cardinality(ClosedBy(spec, series, trades[j].entryTime))

\* The summaries a result is judged by are of one account of the same trades:
\* the two parts of the split and the folds are all of them, each once.
OneAccount(metrics, trades) ==
    LET all == FlattenSeq(trades)
    IN  /\ metrics.trades = Len(all)
        /\ metrics.foldTrades \in {0, metrics.trades}
        /\ metrics.netPnL = Total([i \in DOMAIN all |-> all[i].netPnL])
        /\ metrics.outOfSample =>
              /\ metrics.trades = metrics.inSampleTrades + metrics.outOfSampleTrades
              /\ metrics.netPnL = metrics.inSampleNetPnL + metrics.outOfSampleNetPnL
=============================================================================
