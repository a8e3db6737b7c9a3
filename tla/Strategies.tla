----------------------------- MODULE Strategies -----------------------------
(***************************************************************************)
(* The strategies (internal/strategy): from a market context and the       *)
(* approval in it to a trade proposal or an abstention.  No state; used by *)
(* the module SignalEntry.                                                 *)
(*                                                                         *)
(* A market context m holds the request (now, observedAt, mode, runtime    *)
(* flags, the approval snapshot), the regime state, the entry candle and   *)
(* the one before it, and the features.  That two of them belong to the    *)
(* same market, interval and candle is one Boolean of each (aligned); that *)
(* a feature is whole, another (complete).  The reason an abstention       *)
(* carries is left out.  Fractions are integers of which Unit make 1.      *)
(***************************************************************************)
EXTENDS Integers, Units

\* A fraction of a value; the runs take values it divides, as decimals do.
Part(value, fraction) == (value * fraction) \div Unit

\* The value has such a fraction in these units; a decimal always has.
Exact(value, fraction) == Part(value, fraction) * Unit = value * fraction

\* What the constructors of the strategies ask of their configuration.
ValidStrategies(cfg) ==
    /\ {cfg.stopATRMultiple, cfg.takeProfitR, cfg.entryZoneFraction,
        cfg.stopBufferFraction, cfg.minRewardRisk,
        cfg.stopInsetFraction} \subseteq Nat \ {0}
    /\ 2 * cfg.entryZoneFraction < Unit /\ cfg.stopBufferFraction <= Unit
    /\ cfg.maxCompression \in 1..Unit
    /\ cfg.maxExtensionFraction \in 1..Unit
    /\ cfg.confirmationFraction \in 0..(cfg.maxExtensionFraction - 1)
    /\ 2 * cfg.stopInsetFraction <= Unit /\ cfg.minVolumeMultiple \in Nat

NoTrade == [type |-> "NO_TRADE"]

(***************************************************************************)
(* What every strategy and the selector ask first.                         *)
(***************************************************************************)
\* A trend may not be traded against the direction of the hypothesis.
DirectionFits(approval, side) ==
    \/ approval.direction = "BOTH"
    \/ approval.direction = side

RegimeFitsDirection(m) ==
    CASE m.regime.name = "TREND_UP" -> DirectionFits(m.approval, "LONG")
      [] m.regime.name = "TREND_DOWN" -> DirectionFits(m.approval, "SHORT")
      [] OTHER -> TRUE

\* A recent calculation does not make an old candle or observation fresh.
MarketTimeValid(m, policy) ==
    /\ m.regime.closeTime <= m.regime.calculatedAt
    /\ m.regime.calculatedAt <= m.observedAt
    /\ m.observedAt <= m.now
    /\ m.now - m.observedAt <= policy.maxDataAge
    /\ m.now - m.regime.closeTime <= policy.maxDataAge

\* No reason of selectionBlock applies.
Selectable(m, policy) ==
    LET a == m.approval
    IN  /\ m.tradingEnabled /\ ~m.killSwitchActive
        /\ m.mode \in {"PAPER", "LIVE"} /\ a.mode = m.mode
        /\ a.direction \in {"LONG", "SHORT", "BOTH"}
        /\ a.enabled /\ ~a.edgeDecayed
        /\ a.minConfidence \in 0..100 /\ a.maxRiskPct \in 1..m.onePercent
        /\ a.scope = m.regime.scope
        /\ m.regime.valid /\ ~m.regime.noTrade
        /\ RegimeFitsDirection(m)
        /\ m.regime.confidence >= policy.minConfidence
        /\ m.regime.confidence >= a.minConfidence
        /\ MarketTimeValid(m, policy)

\* The strategy a regime calls for, if any.
StrategyOf(m) ==
    CASE m.regime.name = "TREND_UP" -> "trend"
      [] m.regime.name = "TREND_DOWN" /\ m.allowShort -> "trend"
      [] m.regime.name = "RANGE" -> "mean_reversion"
      [] m.regime.name = "BREAKOUT_SETUP" -> "breakout"
      [] OTHER -> "no_trade"

(***************************************************************************)
(* A proposal.  buildSignal still refuses a short the runtime or the       *)
(* hypothesis does not allow; the geometry below is what the validator of  *)
(* a trade signal requires of the result.                                  *)
(***************************************************************************)
GeometryValid(side, entry, stop, target) ==
    /\ entry > 0 /\ stop > 0 /\ target >= 0
    /\ side = "LONG" => stop < entry /\ (target > 0 => target > entry)
    /\ side = "SHORT" => stop > entry /\ (target > 0 => target < entry)

BuildSignal(m, side, stop, target) ==
    IF (side = "SHORT" => m.allowShort) /\ DirectionFits(m.approval, side)
    THEN [type |-> IF side = "LONG" THEN "BUY" ELSE "SELL", side |-> side,
          entryPrice |-> m.entryPrice, stopLoss |-> stop, takeProfit |-> target,
          confidence |-> m.regime.confidence,
          hypothesisMaxRiskPct |-> m.approval.maxRiskPct,
          hypothesisMinConfidence |-> m.approval.minConfidence,
          observedAt |-> m.observedAt, createdAt |-> m.now]
    ELSE NoTrade

Propose(m, side, stop, target) ==
    IF stop > 0 /\ target > 0 THEN BuildSignal(m, side, stop, target) ELSE NoTrade

(***************************************************************************)
(* The inputs each strategy needs.                                         *)
(***************************************************************************)
CandleInputs(m) == m.current.valid /\ m.previous.valid /\ m.current.aligned

\* The range was measured up to the previous candle, never on the entry one.
PriorRangeInputs(m) ==
    /\ CandleInputs(m)
    /\ m.range.complete /\ m.range.aligned
    /\ 0 < m.range.low /\ m.range.low < m.range.high
    /\ m.range.low <= m.previous.low /\ m.previous.high <= m.range.high
    /\ m.entryPrice > 0

TrendInputs(m) ==
    /\ CandleInputs(m)
    /\ m.trend.complete /\ m.trend.aligned
    /\ m.entryPrice > 0 /\ m.trend.ema20 > 0 /\ m.trend.ema50 > 0
    /\ m.trend.atr > 0

PriorConfirmation(m, cfg) ==
    /\ m.prior.complete /\ m.prior.aligned
    /\ m.prior.compression \in 0..cfg.maxCompression
    /\ cfg.minVolumeMultiple # 0 =>
          /\ m.prior.volumeAverage > 0
          /\ m.current.volume >= Part(m.prior.volumeAverage, cfg.minVolumeMultiple)

(***************************************************************************)
(* The three strategies.                                                   *)
(***************************************************************************)
TrendUpConfirmed(m) ==
    /\ m.trend.ema20 > m.trend.ema50 /\ m.trend.slope > 0
    /\ m.current.close > m.trend.ema20 /\ m.current.close > m.current.open
    /\ \/ m.current.close > m.previous.high      \* breakout
       \/ m.current.low <= m.trend.ema20         \* pullback

TrendDownConfirmed(m) ==
    /\ m.trend.ema20 < m.trend.ema50 /\ m.trend.slope < 0
    /\ m.current.close < m.trend.ema20 /\ m.current.close < m.current.open
    /\ \/ m.current.close < m.previous.low
       \/ m.current.high >= m.trend.ema20

Trend(m, cfg) ==
    LET distance == Part(m.trend.atr, cfg.stopATRMultiple)
        reward == Part(distance, cfg.takeProfitR)
    IN  CASE /\ m.regime.name = "TREND_UP" /\ TrendInputs(m)
             /\ TrendUpConfirmed(m) ->
               Propose(m, "LONG", m.entryPrice - distance, m.entryPrice + reward)
          [] /\ m.regime.name = "TREND_DOWN" /\ m.allowShort /\ TrendInputs(m)
             /\ TrendDownConfirmed(m) ->
               Propose(m, "SHORT", m.entryPrice + distance, m.entryPrice - reward)
          [] OTHER -> NoTrade

Distance(a, b) == IF a >= b THEN a - b ELSE b - a

RewardsRisk(m, cfg, stop, target) ==
    Distance(target, m.entryPrice)
      >= Part(Distance(m.entryPrice, stop), cfg.minRewardRisk)

MeanReversion(m, cfg) ==
    LET low == m.range.low
        high == m.range.high
        width == high - low
        zone == Part(width, cfg.entryZoneFraction)
        buffer == Part(width, cfg.stopBufferFraction)
        target == low + width \div 2
        inRange == low <= m.current.low /\ m.current.high <= high
        long == /\ m.current.close <= low + zone /\ m.entryPrice \in low..(low + zone)
                /\ m.current.close > m.current.open
        short == /\ m.current.close >= high - zone
                 /\ m.entryPrice \in (high - zone)..high
                 /\ m.current.close < m.current.open
        stop == IF short THEN high + buffer ELSE low - buffer
    IN  IF /\ m.regime.name = "RANGE" /\ PriorRangeInputs(m)
           /\ inRange /\ (long \/ short)
           /\ RewardsRisk(m, cfg, stop, target)
        THEN Propose(m, IF short THEN "SHORT" ELSE "LONG", stop, target)
        ELSE NoTrade

Breakout(m, cfg) ==
    LET low == m.range.low
        high == m.range.high
        width == high - low
        confirmation == Part(width, cfg.confirmationFraction)
        extension == Part(width, cfg.maxExtensionFraction)
        inset == Part(width, cfg.stopInsetFraction)
        both == {m.current.close, m.entryPrice}
        up == /\ \A price \in both : price > high + confirmation
              /\ m.current.close > m.current.open
        down == /\ \A price \in both : price < low - confirmation
                /\ m.current.close < m.current.open
        reward(stop) == Part(Distance(m.entryPrice, stop), cfg.takeProfitR)
        admissible == /\ m.regime.name = "BREAKOUT_SETUP"
                      /\ PriorRangeInputs(m) /\ PriorConfirmation(m, cfg)
                      /\ m.current.open \in low..high
                      /\ ~(m.current.low < low /\ m.current.high > high)
    IN  CASE /\ admissible /\ up
             /\ \A price \in both : price <= high + extension ->
               Propose(m, "LONG", high - inset, m.entryPrice + reward(high - inset))
          [] /\ admissible /\ down
             /\ \A price \in both : price >= low - extension ->
               Propose(m, "SHORT", low + inset, m.entryPrice - reward(low + inset))
          [] OTHER -> NoTrade

\* What the strategies compute stops and targets from is exact.
ExactContext(m, cfg) ==
    LET width == m.range.high - m.range.low
        inset == Part(width, cfg.stopInsetFraction)
    IN  /\ {m.entryPrice, m.trend.atr, m.range.low, m.range.high} \subseteq Int
        /\ Exact(m.trend.atr, cfg.stopATRMultiple)
        /\ Exact(Part(m.trend.atr, cfg.stopATRMultiple), cfg.takeProfitR)
        /\ width % 2 = 0
        /\ Exact(width, cfg.entryZoneFraction) /\ Exact(width, cfg.stopBufferFraction)
        /\ Exact(width, cfg.confirmationFraction)
        /\ Exact(width, cfg.stopInsetFraction)
        /\ \A stop \in {m.range.high - inset, m.range.low + inset} :
              Exact(Distance(m.entryPrice, stop), cfg.takeProfitR)

\* The selector hands the context to the one strategy its regime calls for,
\* provided that is the strategy the approval names.
GenerateSignal(m, policy, cfg) ==
    IF Selectable(m, policy) /\ m.approval.strategyName = StrategyOf(m)
    THEN CASE m.approval.strategyName = "trend" -> Trend(m, cfg)
           [] m.approval.strategyName = "mean_reversion" -> MeanReversion(m, cfg)
           [] m.approval.strategyName = "breakout" -> Breakout(m, cfg)
           [] OTHER -> NoTrade
    ELSE NoTrade
=============================================================================
