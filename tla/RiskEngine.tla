----------------------------- MODULE RiskEngine -----------------------------
(***************************************************************************)
(* The risk engine (internal/risk): what a trade intent is worth under a   *)
(* policy, an account and a market, and which audited decisions the        *)
(* validators accept.  It keeps no state: every definition here is an      *)
(* operator, used by the module SignalEntry and proved about in            *)
(* PipelineParts_proofs.                                                   *)
(*                                                                         *)
(* Decimals are integers in fixed units: prices, quantities, money (price  *)
(* times quantity), basis points, and percentages in units of which Whole  *)
(* make 100 % and OnePercent make 1 %.  The code divides decimals to 16    *)
(* digits, so its quantity may exceed the exact one by a rounding step;    *)
(* the check trade_risk_within_budget is there for that case.  Identifiers *)
(* that must only be present are Booleans (identified, explained).         *)
(***************************************************************************)
EXTENDS Integers, Units

KnownSide == {"LONG", "SHORT"}
KnownMode == {"PAPER", "LIVE"}

Lesser(a, b) == IF a <= b THEN a ELSE b
Greater(a, b) == IF a >= b THEN a ELSE b

(***************************************************************************)
(* The policy.                                                             *)
(***************************************************************************)
Percentages(policy) ==
    {policy.maxDailyLossPct, policy.maxWeeklyLossPct,
     policy.maxTotalDrawdownPct, policy.maxPortfolioExposurePct,
     policy.maxCorrelatedExposurePct}

ValidPolicy(policy) ==
    /\ policy.allowedMode \in KnownMode
    /\ policy.riskPerTradePct \in 1..OnePercent
    /\ Percentages(policy) \subseteq 1..Whole
    /\ policy.maxDailyLossPct <= policy.maxWeeklyLossPct
    /\ policy.maxWeeklyLossPct <= policy.maxTotalDrawdownPct
    /\ policy.maxCorrelatedExposurePct <= policy.maxPortfolioExposurePct
    /\ policy.maxLosingStreak > 0 /\ policy.maxOpenPositions > 0
    /\ policy.maxLeverage > 0
    /\ policy.maxSpreadBPS >= 0 /\ policy.maxSlippageBPS >= 0
    /\ policy.minConfidence \in 0..100
    /\ policy.minLiquidityQuote >= 0
    /\ policy.maxDataAge \in Nat   \* positive in the code; a tick of the model exceeds it
    /\ policy.allowedSymbols # {}

(***************************************************************************)
(* The parts of an evaluation.                                             *)
(***************************************************************************)
ValidAccount(account) ==
    /\ account.equity > 0 /\ account.dayStartEquity > 0
    /\ account.weekStartEquity > 0
    /\ account.peakEquity >= account.equity
    /\ account.dailyLoss >= 0 /\ account.weeklyLoss >= 0
    /\ account.losingStreak >= 0 /\ account.openPositions >= 0
    /\ account.totalExposure >= 0
    /\ account.correlatedExposure \in 0..account.totalExposure

ValidInstrument(symbol, instrument) ==
    /\ instrument.available /\ instrument.symbol = symbol
    /\ instrument.tickSize > 0 /\ instrument.quantityStep > 0
    /\ instrument.minOrderQuantity > 0
    /\ instrument.maxOrderQuantity >= instrument.minOrderQuantity
    /\ instrument.minNotional >= 0

\* The stop is on the losing side of the entry.
StopValid(intent) ==
    /\ intent.entryPrice > 0 /\ intent.stopLoss > 0
    /\ \/ intent.side = "LONG" /\ intent.stopLoss < intent.entryPrice
       \/ intent.side = "SHORT" /\ intent.stopLoss > intent.entryPrice

StopDistance(intent) ==
    IF intent.entryPrice >= intent.stopLoss
    THEN intent.entryPrice - intent.stopLoss
    ELSE intent.stopLoss - intent.entryPrice

\* Zero means no take profit.
TargetValid(intent) ==
    \/ intent.takeProfit = 0
    \/ intent.side = "LONG" /\ intent.takeProfit > intent.entryPrice
    \/ intent.side = "SHORT" /\ intent.takeProfit \in 1..(intent.entryPrice - 1)

BelowLossLimit(loss, base, limitPct) ==
    /\ loss >= 0 /\ base > 0
    /\ loss * Whole < base * limitPct

BelowDrawdownLimit(equity, peak, limitPct) ==
    /\ equity > 0 /\ peak >= equity
    /\ (peak - equity) * Whole < peak * limitPct

Aligned(value, step) == value >= 0 /\ step > 0 /\ value % step = 0

PricesAligned(intent, instrument) ==
    /\ Aligned(intent.entryPrice, instrument.tickSize)
    /\ Aligned(intent.stopLoss, instrument.tickSize)
    /\ Aligned(intent.takeProfit, instrument.tickSize)

RiskPctValid(intent) == intent.hypothesisMaxRiskPct \in 1..OnePercent

\* The share of the equity one trade may lose, in units of money * percent.
RiskBudget(intent, account, policy) ==
    account.equity * Lesser(policy.riskPerTradePct, intent.hypothesisMaxRiskPct)

\* The largest multiple of the step whose loss at the stop is in the budget.
SizeFor(budget, distance, step) ==
    step * (budget \div (Whole * distance * step))

Quantity(input, policy) ==
    LET intent == input.intent
        instrument == input.market.instrument
    IN  IF /\ ValidAccount(input.account) /\ StopValid(intent)
           /\ ValidInstrument(intent.symbol, instrument) /\ RiskPctValid(intent)
        THEN SizeFor(RiskBudget(intent, input.account, policy),
                     StopDistance(intent), instrument.quantityStep)
        ELSE 0

\* Market data is used only while it is at most maxDataAge old.
DataFresh(dataTime, now, policy) ==
    dataTime <= now /\ now - dataTime <= policy.maxDataAge
(***************************************************************************)
(* An evaluation runs every check; one that fails rejects the intent.      *)
(***************************************************************************)
Checks(input, policy) ==
    LET intent == input.intent
        account == input.account
        market == input.market
        instrument == market.instrument
        runtime == input.runtime
        now == input.evaluatedAt
        accountValid == ValidAccount(account)
        instrumentValid == ValidInstrument(intent.symbol, instrument)
        quantity == Quantity(input, policy)
        quantityValid == /\ instrumentValid
                         /\ quantity \in 1..instrument.maxOrderQuantity
        notional == quantity * intent.entryPrice
        maxLoss == quantity * StopDistance(intent)
    IN  [trading_enabled |-> runtime.tradingEnabled,
         mode_allowed |-> /\ runtime.mode = policy.allowedMode
                          /\ runtime.mode \in KnownMode,
         hypothesis_approved |-> intent.hypothesisApproved,
         kill_switch_inactive |-> ~runtime.killSwitchActive,
         intent_identity |-> intent.identified /\ intent.side \in KnownSide,
         intent_reason |-> intent.explained,
         signal_confidence |->
             /\ {intent.confidence, intent.hypothesisMinConfidence} \subseteq 0..100
             /\ intent.confidence >= Greater(policy.minConfidence,
                                             intent.hypothesisMinConfidence),
         intent_time |-> intent.createdAt <= now,
         account_state |-> accountValid,
         data_fresh |-> DataFresh(market.dataTime, now, policy),
         spread_acceptable |-> market.spreadBPS \in 0..policy.maxSpreadBPS,
         slippage_acceptable |->
             market.expectedSlippageBPS \in 0..policy.maxSlippageBPS,
         volatility_acceptable |-> market.volatilityAcceptable,
         orderbook_valid |-> market.orderbookValid,
         liquidity_sufficient |->
             /\ market.liquidityQuote >= 0
             /\ market.liquidityQuote >= policy.minLiquidityQuote,
         entry_price_present |-> intent.entryPrice > 0,
         stop_loss_present |-> intent.stopLoss > 0,
         stop_distance_valid |-> StopValid(intent),
         take_profit_valid |-> TargetValid(intent),
         daily_loss_available |->
             accountValid /\ BelowLossLimit(account.dailyLoss,
                 account.dayStartEquity, policy.maxDailyLossPct),
         weekly_loss_available |->
             accountValid /\ BelowLossLimit(account.weeklyLoss,
                 account.weekStartEquity, policy.maxWeeklyLossPct),
         drawdown_available |->
             accountValid /\ BelowDrawdownLimit(account.equity,
                 account.peakEquity, policy.maxTotalDrawdownPct),
         losing_streak_available |->
             accountValid /\ account.losingStreak < policy.maxLosingStreak,
         position_slot_available |->
             accountValid /\ account.openPositions < policy.maxOpenPositions,
         symbol_allowed |->
             market.symbolAllowed /\ intent.symbol \in policy.allowedSymbols,
         side_allowed |-> intent.side # "SHORT" \/ policy.allowShort,
         leverage_allowed |-> intent.leverage \in 1..policy.maxLeverage,
         instrument_available |-> instrumentValid,
         tick_size_respected |->
             /\ instrumentValid /\ intent.entryPrice > 0 /\ intent.stopLoss > 0
             /\ PricesAligned(intent, instrument),
         hypothesis_risk_limit |-> RiskPctValid(intent),
         quantity_valid |-> quantityValid,
         quantity_step_respected |->
             quantityValid /\ Aligned(quantity, instrument.quantityStep),
         min_order_quantity |->
             quantityValid /\ quantity >= instrument.minOrderQuantity,
         min_notional |-> quantityValid /\ notional >= instrument.minNotional,
         trade_risk_within_budget |->
             /\ quantityValid /\ maxLoss > 0
             /\ maxLoss * Whole <= RiskBudget(intent, account, policy),
         portfolio_exposure |->
             /\ accountValid /\ quantityValid
             /\ (account.totalExposure + notional) * Whole
                   <= account.equity * policy.maxPortfolioExposurePct,
         correlated_exposure |->
             /\ accountValid /\ quantityValid
             /\ (account.correlatedExposure + notional) * Whole
                   <= account.equity * policy.maxCorrelatedExposurePct]

AllChecksPassed(checks) == \A name \in DOMAIN checks : checks[name]

\* The decision; a rejected one carries neither a quantity nor a loss.
Evaluate(input, policy) ==
    LET approved == AllChecksPassed(Checks(input, policy))
        quantity == IF approved THEN Quantity(input, policy) ELSE 0
    IN  [approved |-> approved,
         finalQuantity |-> quantity,
         maxLoss |-> quantity * StopDistance(input.intent),
         stopLoss |-> input.intent.stopLoss,
         takeProfit |-> input.intent.takeProfit,
         createdAt |-> input.evaluatedAt]

(***************************************************************************)
(* The validators every decision passes on its way into the store and      *)
(* back.  Nothing in them refers to the policy or to the account: they see *)
(* only what the audit row keeps.                                          *)
(***************************************************************************)
ValidDecision(decision) ==
    IF decision.approved
    THEN decision.finalQuantity > 0 /\ decision.maxLoss > 0
    ELSE decision.finalQuantity = 0 /\ decision.maxLoss = 0

\* What an approved row must still say about the intent it was made for.
ApprovedIntentSnapshot(record) ==
    LET decision == record.decision
        intent == record.intent
    IN  /\ intent.entryPrice > 0 /\ intent.leverage > 0
        /\ intent.confidence \in 0..100 /\ intent.explained
        /\ intent.createdAt <= decision.createdAt
        /\ decision.stopLoss > 0 =>
               /\ StopValid([intent EXCEPT !.stopLoss = decision.stopLoss])
               /\ decision.maxLoss = decision.finalQuantity *
                     StopDistance([intent EXCEPT !.stopLoss = decision.stopLoss])
               /\ decision.takeProfit > 0 =>
                     TargetValid([intent EXCEPT !.takeProfit = decision.takeProfit])

ValidAuditRecord(record) ==
    /\ ValidDecision(record.decision)
    /\ record.mode \in KnownMode
    /\ record.intent.identified /\ record.intent.side \in KnownSide
    /\ record.decision.approved => ApprovedIntentSnapshot(record)
    /\ record.decision.createdAt <= record.recordedAt

NewAuditRecord(input, decision) ==
    [decision |-> decision, mode |-> input.runtime.mode,
     intent |-> input.intent, recordedAt |-> input.evaluatedAt]
=============================================================================
