---------------------------- MODULE MCSignalEntry ----------------------------
(***************************************************************************)
(* A small instance of SignalEntry: two files of one hypothesis, a history *)
(* in three states of completeness, a backtest with and without the split  *)
(* and the folds, one market a trend strategy trades and one it abstains   *)
(* from, two accounts, and a fill in and one out of the budget.            *)
(***************************************************************************)
EXTENDS SignalEntry, TLC

MCSpecs ==
    [first |-> [direction |-> "LONG", allowed |-> {"TREND_UP"}, blocked |-> {},
                maxRiskPct |-> 2, minConfidence |-> 60, minTrades |-> 2,
                scopes |-> {"btc"},
                rules |-> {[feature |-> "momentum", operator |-> ">", other |-> "",
                            value |-> 0]}],
     second |-> [direction |-> "BOTH", allowed |-> {"TREND_UP", "RANGE"},
                 blocked |-> {"RANGE"}, maxRiskPct |-> 1, minConfidence |-> 60,
                 minTrades |-> 1, scopes |-> {"btc"},
                 rules |-> {[feature |-> "momentum", operator |-> "crosses_above",
                             other |-> "level", value |-> 0]}]]

\* Opens at 100; a trade of two candles wins from 1, loses from 3, wins from 5.
History ==
    LET close == <<100, 100, 140, 100, 100, 100, 140, 100>>
    IN  [i \in 1..8 |-> [openTime |-> i - 1, closeTime |-> i, open |-> 100,
                         close |-> close[i]]]

State(time) ==
    [closeTime |-> time, regime |-> IF time = 0 THEN "RANGE" ELSE "TREND_UP",
     noTrade |-> FALSE, confidence |-> 80,
     features |-> [momentum |-> 1 + (time % 2), level |-> 1]]

Series(times) == <<[states |-> [i \in DOMAIN times |-> State(times[i])],
                    candles |-> History]>>

MCStored == [whole |-> Series(<<0, 1, 2, 3, 4, 5>>),
             gap |-> Series(<<0, 1, 3, 4, 5>>),
             sparse |-> Series(<<0, 3>>)]

Plain == [holding |-> 2, quantity |-> 1, equity |-> 20000, split |-> 0, folds |-> 0,
          minCoveragePct |-> 160,
          costs |-> [takerFeeBPS |-> 0, spreadBPS |-> 1, slippageBPS |-> 0,
                     factor |-> 1]]

MCRequests == {Plain, [Plain EXCEPT !.split = 2, !.folds = 2]}

MCGatePolicy ==
    [enabled |-> TRUE, minTrades |-> 1, minProfitFactor |-> 6, minExpectancy |-> 100,
     maxDrawdownPct |-> 40, requireCosts |-> TRUE, requireOutOfSample |-> TRUE,
     requireWalkForward |-> TRUE, requireRegimeAnalysis |-> TRUE]

MCRiskPolicy ==
    [allowedMode |-> "PAPER", riskPerTradePct |-> 2, maxDailyLossPct |-> 10,
     maxWeeklyLossPct |-> 20, maxTotalDrawdownPct |-> 40,
     maxPortfolioExposurePct |-> 200, maxCorrelatedExposurePct |-> 200,
     maxLosingStreak |-> 3, maxOpenPositions |-> 1, maxLeverage |-> 1,
     maxSpreadBPS |-> 1, maxSlippageBPS |-> 1, minConfidence |-> 70,
     minLiquidityQuote |-> 0, maxDataAge |-> 0, allowedSymbols |-> {"btc"},
     allowShort |-> FALSE]

\* Ages are limited to less than a tick of the clock.
MCSelectionPolicy == [minConfidence |-> 70, maxDataAge |-> 0]

MCStrategyConfig ==
    [stopATRMultiple |-> 4, takeProfitR |-> 8, entryZoneFraction |-> 1,
     stopBufferFraction |-> 2, minRewardRisk |-> 4, maxCompression |-> 4,
     minVolumeMultiple |-> 0, confirmationFraction |-> 2,
     maxExtensionFraction |-> 4, stopInsetFraction |-> 2]

Breakthrough ==
    [now |-> 0, observedAt |-> 0, mode |-> "PAPER", tradingEnabled |-> TRUE,
     killSwitchActive |-> FALSE, allowShort |-> FALSE, onePercent |-> OnePercent,
     entryPrice |-> 102, approval |-> None,
     regime |-> [name |-> "TREND_UP", scope |-> "btc", valid |-> TRUE,
                 noTrade |-> FALSE, confidence |-> 80, closeTime |-> 0,
                 calculatedAt |-> 0],
     current |-> [valid |-> TRUE, aligned |-> TRUE, open |-> 98, high |-> 103,
                  low |-> 98, close |-> 102, volume |-> 1],
     previous |-> [valid |-> TRUE, high |-> 101, low |-> 97],
     range |-> [complete |-> TRUE, aligned |-> TRUE, low |-> 93, high |-> 101],
     trend |-> [complete |-> TRUE, aligned |-> TRUE, ema20 |-> 100, ema50 |-> 95,
                slope |-> 1, atr |-> 2],
     prior |-> [complete |-> TRUE, aligned |-> TRUE, compression |-> 1,
                volumeAverage |-> 1]]

MCMarkets == {Breakthrough, [Breakthrough EXCEPT !.current.close = 98]}

Rich ==
    [confidence |-> 80,
     account |-> [equity |-> 1000, dayStartEquity |-> 1000, weekStartEquity |-> 1000,
                  peakEquity |-> 1000, dailyLoss |-> 0, weeklyLoss |-> 0,
                  losingStreak |-> 0, openPositions |-> 0, totalExposure |-> 0,
                  correlatedExposure |-> 0],
     market |-> [dataTime |-> 0, symbolAllowed |-> TRUE, spreadBPS |-> 1,
                 expectedSlippageBPS |-> 1, volatilityAcceptable |-> TRUE,
                 orderbookValid |-> TRUE, liquidityQuote |-> 1,
                 instrument |-> [available |-> TRUE, symbol |-> "btc",
                                 tickSize |-> 1, quantityStep |-> 1,
                                 minOrderQuantity |-> 1, maxOrderQuantity |-> 5,
                                 minNotional |-> 1]],
     runtime |-> [tradingEnabled |-> TRUE, mode |-> "PAPER",
                  killSwitchActive |-> FALSE]]

MCRiskContexts == {Rich, [Rich EXCEPT !.account.equity = 600]}

MCExecutions == {[price |-> 102, fee |-> 0, spreadBPS |-> 1, slippageBPS |-> 1],
                 [price |-> 103, fee |-> 1, spreadBPS |-> 1, slippageBPS |-> 1]}

WorkerSymmetry == Permutations(Workers)
=============================================================================
