------------------------ MODULE PipelineParts_proofs ------------------------
(***************************************************************************)
(* What the parts of the pipeline that keep no state guarantee.            *)
(*                                                                         *)
(* The risk engine, for every intent, account, market and policy: the size *)
(* it computes is the largest that fits the budget, an approved trade      *)
(* loses at most the budget and at most 1 % of the equity, and whatever it *)
(* decides passes the validators of the audit row.                         *)
(*                                                                         *)
(* The strategies, for every market context in whose units the fractions   *)
(* they take are whole: what they propose the signal validator accepts.    *)
(*                                                                         *)
(* The backtest, for every hypothesis, window, request and history: no     *)
(* trade overlaps another, leaves the window or looks ahead, the summary,  *)
(* the split and the folds are of the same trades, each once, and a        *)
(* candidate has earned its minimum in every fold.  The account, the scan  *)
(* and the sums are loops of the code and recursive functions of the       *)
(* model; what they compute is shown by induction up to the length of the  *)
(* sequence.                                                               *)
(***************************************************************************)
EXTENDS RiskEngine, Strategies, Backtest, FiniteSets, WellFoundedInduction,
        FiniteSetTheorems, SequenceTheorems, TLAPS

\* The types of what an evaluation reads: decimals and times are integers.
Intents ==
    [identified : BOOLEAN, explained : BOOLEAN, hypothesisApproved : BOOLEAN,
     symbol : STRING, side : STRING, confidence : Int, entryPrice : Int,
     stopLoss : Int, takeProfit : Int, leverage : Int,
     hypothesisMaxRiskPct : Int, hypothesisMinConfidence : Int,
     createdAt : Int]

Instruments ==
    [available : BOOLEAN, symbol : STRING, tickSize : Int, quantityStep : Int,
     minOrderQuantity : Int, maxOrderQuantity : Int, minNotional : Int]

Input(input) ==
    /\ input.intent \in Intents /\ input.market.instrument \in Instruments
    /\ {input.account.equity, input.account.totalExposure,
        input.account.correlatedExposure} \subseteq Int
    /\ input.evaluatedAt \in Int

(***************************************************************************)
(* The size.                                                               *)
(***************************************************************************)
\* Rounding down to the step leaves the loss within the budget, and one step
\* more would leave the budget (roundDownToStep in internal/risk/engine.go).
THEOREM SizeIsLargest ==
    ASSUME NEW budget \in Nat, NEW distance \in Nat \ {0}, NEW step \in Nat \ {0}
    PROVE  LET size == SizeFor(budget, distance, step)
           IN  /\ size \in Nat /\ size % step = 0
               /\ size * distance * Whole <= budget
               /\ (size + step) * distance * Whole > budget
<1> DEFINE unit == Whole * distance * step
           steps == budget \div unit
<1>1. Whole \in Nat \ {0}
  BY UnitsAssumption
<1>2. unit \in Nat \ {0}
  <2>1. Whole * distance \in Nat \ {0}
    BY <1>1
  <2> QED BY <2>1
<1>3. steps \in Nat /\ steps * unit <= budget /\ (steps + 1) * unit > budget
  <2> HIDE DEF unit
  <2> QED BY <1>2
<1>4. SizeFor(budget, distance, step) = step * steps
  BY DEF SizeFor
<1> HIDE DEF steps
<1>5. step * steps \in Nat /\ (step * steps) % step = 0
  BY <1>3
<1>6. (step * steps) * distance * Whole = steps * unit
  BY <1>1, <1>3
<1>7. (step * steps + step) * distance * Whole = (steps + 1) * unit
  BY <1>1, <1>3, SMTT(60)
<1> QED BY <1>3, <1>4, <1>5, <1>6, <1>7

(***************************************************************************)
(* A decision.                                                             *)
(***************************************************************************)
\* What an approval says of the parts of the evaluation, read off the checks.
LEMMA ApprovedChecks ==
    ASSUME NEW input, NEW policy, Input(input), ValidPolicy(policy),
           Evaluate(input, policy).approved
    PROVE  LET intent == input.intent
               account == input.account
               instrument == input.market.instrument
               quantity == Quantity(input, policy)
               maxLoss == quantity * StopDistance(intent)
           IN  /\ ValidAccount(account) /\ StopValid(intent) /\ TargetValid(intent)
               /\ ValidInstrument(intent.symbol, instrument) /\ RiskPctValid(intent)
               /\ intent.explained /\ intent.confidence \in 0..100
               /\ intent.createdAt <= input.evaluatedAt
               /\ intent.leverage \in 1..policy.maxLeverage
               /\ quantity \in 1..instrument.maxOrderQuantity
               /\ quantity % instrument.quantityStep = 0
               /\ maxLoss > 0 /\ maxLoss * Whole <= RiskBudget(intent, account, policy)
               /\ (account.totalExposure + quantity * intent.entryPrice) * Whole
                     <= account.equity * policy.maxPortfolioExposurePct
<1> DEFINE checks == Checks(input, policy)
<1>1. \A name \in DOMAIN checks : checks[name]
  BY DEF Evaluate, AllChecksPassed
<1>2. /\ checks.intent_reason /\ checks.signal_confidence /\ checks.intent_time
      /\ checks.account_state /\ checks.stop_distance_valid
      /\ checks.take_profit_valid /\ checks.leverage_allowed
      /\ checks.instrument_available /\ checks.hypothesis_risk_limit
      /\ checks.quantity_valid /\ checks.quantity_step_respected
      /\ checks.trade_risk_within_budget /\ checks.portfolio_exposure
  BY <1>1, ZenonT(60) DEF Checks
<1> QED BY <1>2, ZenonT(60) DEF Checks, Aligned

\* An approved trade loses at its stop no more than the budget, which is never
\* more than 1 % of the equity, and its size is the largest the step allows:
\* one step more would leave the budget (Evaluate in internal/risk/engine.go;
\* ValidatePolicy caps the share at 1 %).
THEOREM ApprovedLossIsBounded ==
    ASSUME NEW input, NEW policy, Input(input), ValidPolicy(policy),
           Evaluate(input, policy).approved
    PROVE  LET decision == Evaluate(input, policy)
               budget == RiskBudget(input.intent, input.account, policy)
               step == input.market.instrument.quantityStep
           IN  /\ decision.finalQuantity > 0 /\ decision.finalQuantity % step = 0
               /\ decision.maxLoss * Whole <= budget
               /\ decision.maxLoss * Whole <= input.account.equity * OnePercent
               /\ (decision.finalQuantity + step) * StopDistance(input.intent) * Whole
                     > budget
<1> DEFINE intent == input.intent
           equity == input.account.equity
           share == Lesser(policy.riskPerTradePct, intent.hypothesisMaxRiskPct)
           budget == RiskBudget(intent, input.account, policy)
           step == input.market.instrument.quantityStep
           distance == StopDistance(intent)
           quantity == Quantity(input, policy)
<1>1. /\ ValidAccount(input.account) /\ StopValid(intent) /\ RiskPctValid(intent)
      /\ ValidInstrument(intent.symbol, input.market.instrument)
      /\ quantity \in 1..input.market.instrument.maxOrderQuantity
      /\ quantity % step = 0
      /\ (quantity * distance) * Whole <= budget
  BY ApprovedChecks
<1>2. /\ Evaluate(input, policy).finalQuantity = quantity
      /\ Evaluate(input, policy).maxLoss = quantity * distance
  BY DEF Evaluate
<1>3. equity \in Nat \ {0} /\ step \in Nat \ {0} /\ distance \in Nat \ {0}
  BY <1>1 DEF Input, Intents, Instruments, ValidAccount, ValidInstrument,
     StopValid, StopDistance
<1>4. share \in Nat /\ share <= OnePercent
  BY <1>1, UnitsAssumption DEF Input, Intents, ValidPolicy, RiskPctValid, Lesser
<1>5. budget \in Nat /\ budget <= equity * OnePercent
  <2>1. budget = equity * share
    BY DEF RiskBudget
  <2> HIDE DEF equity, share, budget
  <2>2. equity * share <= equity * OnePercent
    BY <1>3, <1>4, UnitsAssumption
  <2> QED BY <1>3, <1>4, <2>1, <2>2
<1>6. quantity = SizeFor(budget, distance, step)
  BY <1>1 DEF Quantity
<1>7. (quantity + step) * distance * Whole > budget
  <2> HIDE DEF quantity, step, distance, budget
  <2> QED BY <1>3, <1>5, <1>6, SizeIsLargest
<1>8. quantity \in Nat /\ quantity > 0
  BY <1>1, <1>3 DEF Input, Instruments
<1>9. (quantity * distance) * Whole <= equity * OnePercent
  <2> HIDE DEF quantity, distance, budget, equity
  <2> QED BY <1>1, <1>3, <1>5, <1>8, UnitsAssumption
<1> QED BY <1>1, <1>2, <1>5, <1>7, <1>8, <1>9

\* Whatever the engine decides on an identified intent, the audit row made of
\* it passes the validators on its way into the store and back: no approval is
\* lost, and no loss or stop is refused, because the engine and the validators
\* disagree (NewDecisionAuditRecord and ValidateDecisionAuditRecord in
\* internal/risk/audit.go).
THEOREM DecisionsPassTheAudit ==
    ASSUME NEW input, NEW policy, Input(input), ValidPolicy(policy),
           input.runtime.mode \in KnownMode,
           input.intent.identified, input.intent.side \in KnownSide
    PROVE  ValidAuditRecord(NewAuditRecord(input, Evaluate(input, policy)))
<1> DEFINE decision == Evaluate(input, policy)
           intent == input.intent
           record == NewAuditRecord(input, decision)
<1>1. /\ record.decision = decision /\ record.intent = intent
      /\ record.mode = input.runtime.mode
      /\ record.recordedAt = input.evaluatedAt
  BY DEF NewAuditRecord
<1>2. /\ decision.createdAt = input.evaluatedAt
      /\ decision.stopLoss = intent.stopLoss
      /\ decision.takeProfit = intent.takeProfit
      /\ input.evaluatedAt \in Int
  BY DEF Evaluate, Input
<1>3. StopDistance(intent) \in Int
  BY DEF Input, Intents, StopDistance
<1>4. CASE ~decision.approved
  <2>1. decision.finalQuantity = 0 /\ decision.maxLoss = 0
    BY <1>3, <1>4 DEF Evaluate
  <2> QED BY <1>1, <1>2, <1>4, <2>1 DEF ValidAuditRecord, ValidDecision
<1>5. CASE decision.approved
  <2> DEFINE quantity == Quantity(input, policy)
  <2>1. /\ StopValid(intent) /\ TargetValid(intent) /\ intent.explained
        /\ intent.confidence \in 0..100 /\ intent.createdAt <= input.evaluatedAt
        /\ intent.leverage \in 1..policy.maxLeverage
        /\ quantity \in 1..input.market.instrument.maxOrderQuantity
        /\ quantity * StopDistance(intent) > 0
    BY <1>5, ApprovedChecks
  <2>2. decision.finalQuantity = quantity /\ decision.maxLoss = quantity * StopDistance(intent)
    BY <1>5 DEF Evaluate
  <2>3. quantity > 0
    BY <2>1 DEF Input, Instruments
  <2>4. [intent EXCEPT !.stopLoss = decision.stopLoss] = intent
    BY <1>2 DEF Input, Intents
  <2>5. [intent EXCEPT !.takeProfit = decision.takeProfit] = intent
    BY <1>2 DEF Input, Intents
  <2>6. intent.entryPrice > 0 /\ intent.leverage > 0
    BY <2>1 DEF StopValid, Input, Intents
  <2> HIDE DEF decision, intent, record, quantity
  <2>7. ApprovedIntentSnapshot(record)
    BY <1>1, <1>2, <2>1, <2>2, <2>4, <2>5, <2>6 DEF ApprovedIntentSnapshot
  <2> QED BY <1>1, <1>2, <1>5, <2>1, <2>2, <2>3, <2>7 DEF ValidAuditRecord, ValidDecision, decision, intent, record
<1> QED BY <1>4, <1>5

-----------------------------------------------------------------------------
(***************************************************************************)
(* The strategies.                                                         *)
(***************************************************************************)
\* An exact positive part of something positive is positive.
LEMMA PartIsPositive ==
    ASSUME NEW value \in Nat \ {0}, NEW fraction \in Nat \ {0}, Exact(value, fraction)
    PROVE  Part(value, fraction) \in Nat \ {0}
<1> DEFINE part == (value * fraction) \div Unit
<1>1. value * fraction \in Nat \ {0} /\ Unit \in Nat \ {0}
  BY UnitsAssumption
<1>2. part \in Int /\ part * Unit = value * fraction
  <2>1. part \in Int
    <3> DEFINE product == value * fraction
    <3> HIDE DEF product
    <3> QED BY <1>1 DEF product
  <2> QED BY <2>1 DEF Exact, Part
<1> HIDE DEF part
<1>3. part \in Nat \ {0}
  BY <1>1, <1>2
<1> QED BY <1>3 DEF Part, part

LEMMA PartIsNatural ==
    ASSUME NEW value \in Nat \ {0}, NEW fraction \in Nat, Exact(value, fraction)
    PROVE  Part(value, fraction) \in Nat
<1>1. CASE fraction = 0
  <2>1. value * fraction = 0
    BY <1>1
  <2>2. 0 \div Unit = 0
    BY UnitsAssumption
  <2> QED BY <2>1, <2>2 DEF Part
<1>2. CASE fraction # 0
  BY <1>2, PartIsPositive
<1> QED BY <1>1, <1>2

\* Less than half of something is less than half of it.
LEMMA ZoneIsNarrow ==
    ASSUME NEW value \in Nat \ {0}, NEW fraction \in Nat \ {0}, Exact(value, fraction),
           2 * fraction < Unit
    PROVE  2 * Part(value, fraction) < value
<1>1. PICK part \in Nat : part = Part(value, fraction)
  BY PartIsPositive
<1>2. Unit \in Nat \ {0} /\ part * Unit = value * fraction
  BY <1>1, UnitsAssumption DEF Exact
<1>3. value * (2 * fraction) < value * Unit
  BY <1>2
<1>4. (2 * part) * Unit = value * (2 * fraction)
  BY <1>2
<1>5. (2 * part) * Unit < value * Unit
  BY <1>3, <1>4
<1> QED BY <1>1, <1>2, <1>5

\* What a proposal is: a permitted side at a valid geometry.
Permitted(m, signal) ==
    /\ signal.side \in {"LONG", "SHORT"}
    /\ signal.side = "SHORT" => m.allowShort
    /\ DirectionFits(m.approval, signal.side)
    /\ GeometryValid(signal.side, signal.entryPrice, signal.stopLoss, signal.takeProfit)

LEMMA ProposePermits ==
    ASSUME NEW m, NEW side \in {"LONG", "SHORT"}, NEW stop \in Int, NEW target \in Int,
           NEW entry \in Int, entry = m.entryPrice, entry > 0,
           side = "LONG" => stop < entry /\ target > entry,
           side = "SHORT" => stop > entry /\ target < entry,
           Propose(m, side, stop, target) # NoTrade
    PROVE  Permitted(m, Propose(m, side, stop, target))
<1>1. /\ stop > 0 /\ target > 0
      /\ side = "SHORT" => m.allowShort
      /\ DirectionFits(m.approval, side)
  BY DEF Propose, BuildSignal
<1>2. PICK signal : signal = Propose(m, side, stop, target)
  OBVIOUS
<1>3. /\ signal.side = side /\ signal.entryPrice = entry /\ signal.stopLoss = stop
      /\ signal.takeProfit = target
  BY <1>1, <1>2 DEF Propose, BuildSignal
<1>4. GeometryValid(side, entry, stop, target)
  BY <1>1 DEF GeometryValid
<1>5. Permitted(m, signal)
  BY <1>1, <1>3, <1>4 DEF Permitted
<1> QED BY <1>2, <1>5

\* The trend strategy, for a stop some multiples of the range away.
LEMMA TrendPermits ==
    ASSUME NEW m, NEW cfg, ValidStrategies(cfg), ExactContext(m, cfg),
           Trend(m, cfg) # NoTrade
    PROVE  Permitted(m, Trend(m, cfg))
<1>1. PICK entry, atr, multiple, r :
        /\ entry = m.entryPrice /\ atr = m.trend.atr
        /\ multiple = cfg.stopATRMultiple /\ r = cfg.takeProfitR
  OBVIOUS
<1>2. PICK distance : distance = Part(atr, multiple)
  OBVIOUS
<1>3. PICK reward : reward = Part(distance, r)
  OBVIOUS
<1>4. /\ entry \in Int /\ atr \in Int /\ multiple \in Nat \ {0} /\ r \in Nat \ {0}
      /\ Exact(atr, multiple) /\ Exact(distance, r)
  BY <1>1, <1>2 DEF ValidStrategies, ExactContext
<1>5. /\ TrendInputs(m)
      /\ \/ Trend(m, cfg) = Propose(m, "LONG", entry - distance, entry + reward)
         \/ Trend(m, cfg) = Propose(m, "SHORT", entry + distance, entry - reward)
  <2>1. Trend(m, cfg) =
          CASE /\ m.regime.name = "TREND_UP" /\ TrendInputs(m)
               /\ TrendUpConfirmed(m) ->
                 Propose(m, "LONG", entry - distance, entry + reward)
            [] /\ m.regime.name = "TREND_DOWN" /\ m.allowShort /\ TrendInputs(m)
               /\ TrendDownConfirmed(m) ->
                 Propose(m, "SHORT", entry + distance, entry - reward)
            [] OTHER -> NoTrade
    BY <1>1, <1>2, <1>3 DEF Trend
  <2>2. CASE /\ m.regime.name = "TREND_UP" /\ TrendInputs(m)
             /\ TrendUpConfirmed(m)
    BY <2>1, <2>2
  <2>3. CASE /\ m.regime.name = "TREND_DOWN" /\ m.allowShort /\ TrendInputs(m)
             /\ TrendDownConfirmed(m)
    BY <2>1, <2>3
  <2> QED BY <2>1, <2>2, <2>3
<1>6. entry > 0 /\ atr \in Nat \ {0}
  BY <1>1, <1>4, <1>5 DEF TrendInputs
<1>7. distance \in Nat \ {0} /\ reward \in Nat \ {0}
  BY <1>2, <1>3, <1>4, <1>6, PartIsPositive
<1>8. CASE Trend(m, cfg) = Propose(m, "LONG", entry - distance, entry + reward)
  <2>1. PICK stop, target : stop = entry - distance /\ target = entry + reward
    OBVIOUS
  <2>2. stop \in Int /\ target \in Int /\ stop < entry /\ target > entry
    BY <2>1, <1>4, <1>7
  <2> QED BY <1>1, <1>4, <1>6, <1>8, <2>1, <2>2, ProposePermits
<1>9. CASE Trend(m, cfg) = Propose(m, "SHORT", entry + distance, entry - reward)
  <2>1. PICK stop, target : stop = entry + distance /\ target = entry - reward
    OBVIOUS
  <2>2. stop \in Int /\ target \in Int /\ stop > entry /\ target < entry
    BY <2>1, <1>4, <1>7
  <2> QED BY <1>1, <1>4, <1>6, <1>9, <2>1, <2>2, ProposePermits
<1> QED BY <1>5, <1>8, <1>9

\* The strategy against the edges of a range: a zone of less than half of it
\* leaves the middle, where the target is, on the profit side of the entry.
LEMMA MeanReversionPermits ==
    ASSUME NEW m, NEW cfg, ValidStrategies(cfg), ExactContext(m, cfg),
           MeanReversion(m, cfg) # NoTrade
    PROVE  Permitted(m, MeanReversion(m, cfg))
<1>1. PICK entry, low, high, f, b :
        /\ entry = m.entryPrice /\ low = m.range.low /\ high = m.range.high
        /\ f = cfg.entryZoneFraction /\ b = cfg.stopBufferFraction
  OBVIOUS
<1>2. PICK width, zone, buffer, half :
        /\ width = high - low /\ zone = Part(high - low, f)
        /\ buffer = Part(high - low, b) /\ half = (high - low) \div 2
  OBVIOUS
<1>3. /\ entry \in Int /\ low \in Int /\ high \in Int /\ width = 2 * half
      /\ f \in Nat \ {0} /\ b \in Nat \ {0} /\ 2 * f < Unit
      /\ Exact(width, f) /\ Exact(width, b)
  BY <1>1, <1>2 DEF ValidStrategies, ExactContext
<1>4. /\ PriorRangeInputs(m)
      /\ \/ /\ MeanReversion(m, cfg) = Propose(m, "LONG", low - buffer, low + half)
            /\ entry \in low..(low + zone)
         \/ /\ MeanReversion(m, cfg) = Propose(m, "SHORT", high + buffer, low + half)
            /\ entry \in (high - zone)..high
  BY <1>1, <1>2 DEF MeanReversion
<1>5. entry > 0 /\ low < high
  BY <1>1, <1>4 DEF PriorRangeInputs
<1>6. width \in Nat \ {0} /\ half \in Int
  BY <1>2, <1>3, <1>5
<1>7. buffer \in Nat \ {0} /\ zone \in Nat \ {0} /\ 2 * zone < width
  BY <1>2, <1>3, <1>6, PartIsPositive, ZoneIsNarrow
<1>8. PICK target, below, above :
        target = low + half /\ below = low - buffer /\ above = high + buffer
  OBVIOUS
<1>9. target \in Int /\ below \in Int /\ above \in Int
  BY <1>3, <1>6, <1>7, <1>8
<1>10. CASE /\ MeanReversion(m, cfg) = Propose(m, "LONG", low - buffer, low + half)
            /\ entry \in low..(low + zone)
  <2>1. below < entry /\ target > entry
    BY <1>2, <1>3, <1>6, <1>7, <1>8, <1>10
  <2> QED BY <1>1, <1>3, <1>5, <1>8, <1>9, <1>10, <2>1, ProposePermits
<1>11. CASE /\ MeanReversion(m, cfg) = Propose(m, "SHORT", high + buffer, low + half)
            /\ entry \in (high - zone)..high
  <2>1. above > entry /\ target < entry
    BY <1>2, <1>3, <1>6, <1>7, <1>8, <1>11
  <2> QED BY <1>1, <1>3, <1>5, <1>8, <1>9, <1>11, <2>1, ProposePermits
<1> QED BY <1>4, <1>10, <1>11

\* The strategy beyond the edges of a range, with its stop inside.
LEMMA BreakoutPermits ==
    ASSUME NEW m, NEW cfg, ValidStrategies(cfg), ExactContext(m, cfg),
           Breakout(m, cfg) # NoTrade
    PROVE  Permitted(m, Breakout(m, cfg))
<1>1. PICK entry, low, high, c, i, r :
        /\ entry = m.entryPrice /\ low = m.range.low /\ high = m.range.high
        /\ c = cfg.confirmationFraction /\ i = cfg.stopInsetFraction
        /\ r = cfg.takeProfitR
  OBVIOUS
<1>2. PICK width, confirmation, inset :
        /\ width = high - low /\ confirmation = Part(high - low, c)
        /\ inset = Part(high - low, i)
  OBVIOUS
<1>3. PICK above, below : above = high - inset /\ below = low + inset
  OBVIOUS
<1>4. PICK gain, drop :
        /\ gain = Part(Distance(entry, above), r)
        /\ drop = Part(Distance(entry, below), r)
  OBVIOUS
<1>5. /\ entry \in Int /\ low \in Int /\ high \in Int
      /\ c \in Nat /\ i \in Nat \ {0} /\ r \in Nat \ {0}
      /\ Exact(width, c) /\ Exact(width, i)
      /\ Exact(Distance(entry, above), r) /\ Exact(Distance(entry, below), r)
  BY <1>1, <1>2, <1>3 DEF ValidStrategies, ExactContext
<1>6. /\ PriorRangeInputs(m)
      /\ \/ /\ Breakout(m, cfg) = Propose(m, "LONG", above, entry + gain)
            /\ entry > high + confirmation
         \/ /\ Breakout(m, cfg) = Propose(m, "SHORT", below, entry - drop)
            /\ entry < low - confirmation
  BY <1>1, <1>2, <1>3, <1>4 DEF Breakout
<1>7. entry > 0 /\ low < high
  BY <1>1, <1>6 DEF PriorRangeInputs
<1>8. width \in Nat \ {0}
  BY <1>2, <1>5, <1>7
<1>9. confirmation \in Nat /\ inset \in Nat \ {0}
  BY <1>2, <1>5, <1>8, PartIsNatural, PartIsPositive
<1>10. above \in Int /\ below \in Int
  BY <1>3, <1>5, <1>9
<1>11. CASE /\ Breakout(m, cfg) = Propose(m, "LONG", above, entry + gain)
            /\ entry > high + confirmation
  <2>1. above < entry /\ Distance(entry, above) \in Nat \ {0}
    BY <1>3, <1>5, <1>9, <1>10, <1>11 DEF Distance
  <2>2. gain \in Nat \ {0}
    BY <1>4, <1>5, <2>1, PartIsPositive
  <2>3. PICK target : target = entry + gain
    OBVIOUS
  <2>4. target \in Int /\ target > entry
    BY <1>5, <2>2, <2>3
  <2> QED BY <1>1, <1>5, <1>7, <1>10, <1>11, <2>1, <2>3, <2>4, ProposePermits
<1>12. CASE /\ Breakout(m, cfg) = Propose(m, "SHORT", below, entry - drop)
            /\ entry < low - confirmation
  <2>1. below > entry /\ Distance(entry, below) \in Nat \ {0}
    BY <1>3, <1>5, <1>9, <1>10, <1>12 DEF Distance
  <2>2. drop \in Nat \ {0}
    BY <1>4, <1>5, <2>1, PartIsPositive
  <2>3. PICK target : target = entry - drop
    OBVIOUS
  <2>4. target \in Int /\ target < entry
    BY <1>5, <2>2, <2>3
  <2> QED BY <1>1, <1>5, <1>7, <1>10, <1>12, <2>1, <2>3, <2>4, ProposePermits
<1> QED BY <1>6, <1>11, <1>12

\* Whatever a strategy proposes, the validator of trade signals accepts: the
\* stop is on the losing side of the entry and the target on the winning one,
\* a short is permitted to the runtime and by the hypothesis, and nothing is
\* proposed against the trend of the regime (the strategies of internal/strategy
\* and validateSignalPriceGeometry).
THEOREM ProposalsAreValid ==
    ASSUME NEW m, NEW policy, NEW cfg, ValidStrategies(cfg), ExactContext(m, cfg),
           GenerateSignal(m, policy, cfg) # NoTrade
    PROVE  /\ Permitted(m, GenerateSignal(m, policy, cfg))
           /\ m.regime.name = "TREND_UP" => GenerateSignal(m, policy, cfg).side = "LONG"
           /\ m.regime.name = "TREND_DOWN" => GenerateSignal(m, policy, cfg).side = "SHORT"
           /\ MarketTimeValid(m, policy)
<1>1. /\ Selectable(m, policy) /\ m.approval.strategyName = StrategyOf(m)
      /\ \/ /\ m.approval.strategyName = "trend"
            /\ GenerateSignal(m, policy, cfg) = Trend(m, cfg)
         \/ /\ m.approval.strategyName = "mean_reversion"
            /\ GenerateSignal(m, policy, cfg) = MeanReversion(m, cfg)
         \/ /\ m.approval.strategyName = "breakout"
            /\ GenerateSignal(m, policy, cfg) = Breakout(m, cfg)
  BY DEF GenerateSignal
<1>2. Permitted(m, GenerateSignal(m, policy, cfg))
  BY <1>1, TrendPermits, MeanReversionPermits, BreakoutPermits
<1>3. ASSUME m.regime.name \in {"TREND_UP", "TREND_DOWN"}
      PROVE  /\ m.regime.name = "TREND_UP" => GenerateSignal(m, policy, cfg).side = "LONG"
             /\ m.regime.name = "TREND_DOWN" => GenerateSignal(m, policy, cfg).side = "SHORT"
  <2>1. GenerateSignal(m, policy, cfg) = Trend(m, cfg)
    BY <1>1, <1>3 DEF StrategyOf
  <2>2. \A stop, target, side : Propose(m, side, stop, target) # NoTrade
                                  => Propose(m, side, stop, target).side = side
    BY DEF Propose, BuildSignal
  <2> QED BY <1>3, <2>1, <2>2 DEF Trend
<1> QED BY <1>1, <1>2, <1>3 DEF Selectable

-----------------------------------------------------------------------------
(***************************************************************************)
(* Induction up to a bound, and the equations of the recursive functions.  *)
(***************************************************************************)
\* Some numbers have a least one: the induction below rests on it.
LEMMA NatMin == ASSUME NEW S \in SUBSET Nat, S # {}
                PROVE  \E m \in S : \A k \in S : m <= k
<1> DEFINE R == {pair \in Nat \X Nat : pair[1] < pair[2]}
<1>1. R = OpToRel(<, Nat)
  BY DEF OpToRel
<1>2. IsWellFoundedOn(R, Nat)
  BY <1>1, NatLessThanWellFounded
<1>3. PICK m \in S : \A k \in S : ~(<<k, m>> \in R)
  <2> HIDE DEF R
  <2> QED
    BY <1>2, WFMin
<1>4. \A k \in S : m \in Nat /\ k \in Nat /\ ~(k < m)
  BY <1>3
<1> QED
  BY <1>4

\* Induction up to a bound, for a set instead of a predicate.
LEMMA UpTo ==
    ASSUME NEW N \in Nat, NEW P, 0 \in P,
           \A n \in 0..(N - 1) : n \in P => n + 1 \in P
    PROVE  \A n \in 0..N : n \in P
<1> SUFFICES ASSUME (0..N) \ P # {} PROVE FALSE
  OBVIOUS
<1>1. PICK m \in (0..N) \ P : \A k \in (0..N) \ P : m <= k
  <2> DEFINE S == (0..N) \ P
  <2>1. S \in SUBSET Nat /\ S # {}
    OBVIOUS
  <2> HIDE DEF S
  <2>2. \E m \in S : \A k \in S : m <= k
    BY <2>1, NatMin
  <2> QED BY <2>2 DEF S
<1>2. m # 0 /\ m - 1 \in 0..(N - 1) /\ m - 1 \in P
  BY <1>1
<1>3. (m - 1) + 1 \in P
  BY <1>2
<1> QED BY <1>1, <1>3

\* The sum the recursive function of Total defines, step by step.
LEMMA TotalDef ==
    ASSUME NEW numbers, Len(numbers) \in Nat
    PROVE  \E sum : /\ Total(numbers) = sum[Len(numbers)]
                    /\ sum[0] = 0
                    /\ \A n \in 1..Len(numbers) : sum[n] = sum[n - 1] + numbers[n]
<1> DEFINE N == Len(numbers)
           IsSum(f, m) == f = [n \in 0..m |-> IF n = 0 THEN 0 ELSE f[n - 1] + numbers[n]]
           P == {m \in 0..N : \E f : IsSum(f, m)}
           sum == CHOOSE f : IsSum(f, N)
<1> N \in Nat
  OBVIOUS
<1>1. 0 \in P
  <2> DEFINE f == [n \in 0..0 |-> 0]
  <2>1. IsSum(f, 0)
    OBVIOUS
  <2> HIDE DEF IsSum, f, N
  <2>2. \E g : IsSum(g, 0)
    BY <2>1
  <2> QED BY <2>2
<1>2. ASSUME NEW m \in 0..(N - 1), m \in P
      PROVE  m + 1 \in P
  <2>1. PICK f : IsSum(f, m)
    BY <1>2
  <2> DEFINE g == [n \in 0..(m + 1) |-> IF n = 0 THEN 0 ELSE f[n - 1] + numbers[n]]
  <2>2. m \in Nat /\ \A n \in 0..m : g[n] = f[n]
    BY <2>1
  <2>3. IsSum(g, m + 1)
    <3>1. \A n \in 0..(m + 1) : n # 0 => n - 1 \in 0..m
      BY <2>2
    <3>2. \A n \in 0..(m + 1) : n # 0 => g[n - 1] = f[n - 1]
      BY <2>2, <3>1
    <3> QED BY <3>2
  <2>4. m + 1 \in 0..N
    OBVIOUS
  <2> HIDE DEF IsSum, g, N
  <2>5. \E h : IsSum(h, m + 1)
    BY <2>3
  <2> QED BY <2>4, <2>5
<1>3. N \in P
  <2> HIDE DEF P, N
  <2>1. \A n \in 0..N : n \in P
    BY <1>1, <1>2, UpTo
  <2> QED BY <2>1
<1>4. IsSum(sum, N)
  BY <1>3
<1>5. Total(numbers) = sum[N]
  BY DEF Total
<1> HIDE DEF sum
<1>6. sum[0] = 0 /\ \A n \in 1..N : sum[n] = sum[n - 1] + numbers[n]
  BY <1>4
<1> QED BY <1>5, <1>6

\* The account the loop of SummarizeRoundTrips keeps, trade by trade: the
\* recursive function of AccountAfter is defined, and these are its equations.
LEMMA AccountDef ==
    ASSUME NEW equity, NEW trades, NEW kept, Len(trades) \in Nat
    PROVE  \E after :
              /\ AccountAfter(equity, trades, kept) = after
              /\ after[0].trades = 0 /\ after[0].netPnL = 0
              /\ \A n \in 1..Len(trades) :
                    after[n] = IF n \in kept THEN AddTrade(after[n - 1], trades[n])
                               ELSE after[n - 1]
<1> DEFINE N == Len(trades)
           first == [trades |-> 0, wins |-> 0, grossProfit |-> 0, grossLoss |-> 0,
                     netPnL |-> 0, equity |-> equity, peak |-> equity,
                     drawdown |-> [lost |-> 0, peak |-> equity]]
           Step(x, n) == IF n \in kept THEN AddTrade(x, trades[n]) ELSE x
           IsAccount(f, m) == f = [n \in 0..m |-> IF n = 0 THEN first
                                                  ELSE Step(f[n - 1], n)]
           P == {m \in 0..N : \E f : IsAccount(f, m)}
           after == CHOOSE f : IsAccount(f, N)
<1> N \in Nat
  OBVIOUS
<1>1. 0 \in P
  <2> HIDE DEF Step, first
  <2> DEFINE f == [n \in 0..0 |-> first]
  <2>1. IsAccount(f, 0)
    OBVIOUS
  <2> HIDE DEF IsAccount, f, N
  <2>2. \E g : IsAccount(g, 0)
    BY <2>1
  <2> QED BY <2>2
<1>2. ASSUME NEW m \in 0..(N - 1), m \in P
      PROVE  m + 1 \in P
  <2> HIDE DEF Step, first
  <2>1. PICK f : IsAccount(f, m)
    BY <1>2
  <2> DEFINE g == [n \in 0..(m + 1) |-> IF n = 0 THEN first ELSE Step(f[n - 1], n)]
  <2>2. m \in Nat /\ \A n \in 0..m : g[n] = f[n]
    BY <2>1
  <2>3. IsAccount(g, m + 1)
    <3>1. \A n \in 0..(m + 1) : n # 0 => n - 1 \in 0..m
      BY <2>2
    <3>2. \A n \in 0..(m + 1) : n # 0 => g[n - 1] = f[n - 1]
      BY <2>2, <3>1
    <3> QED BY <3>2
  <2>4. m + 1 \in 0..N
    OBVIOUS
  <2> HIDE DEF IsAccount, g, N
  <2>5. \E h : IsAccount(h, m + 1)
    BY <2>3
  <2> QED BY <2>4, <2>5
<1>3. N \in P
  <2> HIDE DEF P, N
  <2>1. \A n \in 0..N : n \in P
    BY <1>1, <1>2, UpTo
  <2> QED BY <2>1
<1>4. IsAccount(after, N)
  <2> HIDE DEF Step, first
  <2>1. \E f : IsAccount(f, N)
    BY <1>3
  <2> HIDE DEF IsAccount
  <2> QED BY <2>1
<1>5. AccountAfter(equity, trades, kept) = after
  BY DEF AccountAfter
<1> HIDE DEF after
<1>6. after[0] = first /\ \A n \in 1..N : after[n] = Step(after[n - 1], n)
  <2> HIDE DEF Step, first
  <2>1. after[0] = first
    BY <1>4
  <2>2. ASSUME NEW n \in 1..N
        PROVE  after[n] = Step(after[n - 1], n)
    <3>1. n \in 0..N /\ n # 0
      OBVIOUS
    <3> QED BY <1>4, <3>1
  <2> QED BY <2>1, <2>2
<1> QED BY <1>5, <1>6

\* What the loop of backtestRuleSeries has after each regime state.
LEMMA BacktestAfterDef ==
    ASSUME NEW spec, NEW span, NEW request, NEW series, Len(series.states) \in Nat
    PROVE  \E after :
              /\ BacktestAfter(spec, span, request, series) = after
              /\ after[0].trades = <<>> /\ after[0].nextEntry = span.windowStart
              /\ \A n \in 1..Len(series.states) :
                    after[n] = BacktestState(spec, span, request, series, after[n - 1],
                                             series.states[n])
<1> DEFINE N == Len(series.states)
           first == [trades |-> <<>>, previous |-> <<>>, nextEntry |-> span.windowStart]
           Step(x, n) == BacktestState(spec, span, request, series, x, series.states[n])
           IsLoop(f, m) == f = [n \in 0..m |-> IF n = 0 THEN first
                                               ELSE Step(f[n - 1], n)]
           P == {m \in 0..N : \E f : IsLoop(f, m)}
           after == CHOOSE f : IsLoop(f, N)
<1> N \in Nat
  OBVIOUS
<1>1. 0 \in P
  <2> HIDE DEF Step, first
  <2> DEFINE f == [n \in 0..0 |-> first]
  <2>1. IsLoop(f, 0)
    OBVIOUS
  <2> HIDE DEF IsLoop, f, N
  <2>2. \E g : IsLoop(g, 0)
    BY <2>1
  <2> QED BY <2>2
<1>2. ASSUME NEW m \in 0..(N - 1), m \in P
      PROVE  m + 1 \in P
  <2> HIDE DEF Step, first
  <2>1. PICK f : IsLoop(f, m)
    BY <1>2
  <2> DEFINE g == [n \in 0..(m + 1) |-> IF n = 0 THEN first ELSE Step(f[n - 1], n)]
  <2>2. m \in Nat /\ \A n \in 0..m : g[n] = f[n]
    BY <2>1
  <2>3. IsLoop(g, m + 1)
    <3>1. \A n \in 0..(m + 1) : n # 0 => n - 1 \in 0..m
      BY <2>2
    <3>2. \A n \in 0..(m + 1) : n # 0 => g[n - 1] = f[n - 1]
      BY <2>2, <3>1
    <3> QED BY <3>2
  <2>4. m + 1 \in 0..N
    OBVIOUS
  <2> HIDE DEF IsLoop, g, N
  <2>5. \E h : IsLoop(h, m + 1)
    BY <2>3
  <2> QED BY <2>4, <2>5
<1>3. N \in P
  <2> HIDE DEF P, N
  <2>1. \A n \in 0..N : n \in P
    BY <1>1, <1>2, UpTo
  <2> QED BY <2>1
<1>4. IsLoop(after, N)
  <2> HIDE DEF Step, first
  <2>1. \E f : IsLoop(f, N)
    BY <1>3
  <2> HIDE DEF IsLoop
  <2> QED BY <2>1
<1>5. BacktestAfter(spec, span, request, series) = after
  BY DEF BacktestAfter
<1> HIDE DEF after
<1>6. after[0] = first /\ \A n \in 1..N : after[n] = Step(after[n - 1], n)
  <2> HIDE DEF Step, first
  <2>1. after[0] = first
    BY <1>4
  <2>2. ASSUME NEW n \in 1..N
        PROVE  after[n] = Step(after[n - 1], n)
    <3>1. n \in 0..N /\ n # 0
      OBVIOUS
    <3> QED BY <1>4, <3>1
  <2> QED BY <2>1, <2>2
<1> QED BY <1>5, <1>6

\* Some sequences one after the other are a sequence of what they hold.
LEMMA FlattenSeqType ==
    ASSUME NEW T, NEW seqs, Len(seqs) \in Nat, seqs = [i \in 1..Len(seqs) |-> seqs[i]],
           \A i \in 1..Len(seqs) : seqs[i] \in Seq(T)
    PROVE  FlattenSeq(seqs) \in Seq(T)
<1> DEFINE N == Len(seqs)
           Step(x, n) == IF n = 1 THEN seqs[n] ELSE x \o seqs[n]
           IsFlat(f, m) == f = [n \in 1..m |-> Step(f[n - 1], n)]
           P == {m \in 0..N : \E f : IsFlat(f, m)}
           flat == CHOOSE f : IsFlat(f, N)
<1> N \in Nat
  OBVIOUS
<1>1. 0 \in P
  <2> HIDE DEF Step
  <2> DEFINE f == [n \in 1..0 |-> 0]
  <2>1. IsFlat(f, 0)
    OBVIOUS
  <2> HIDE DEF IsFlat, f, N
  <2>2. \E g : IsFlat(g, 0)
    BY <2>1
  <2> QED BY <2>2
<1>2. ASSUME NEW m \in 0..(N - 1), m \in P
      PROVE  m + 1 \in P
  <2>1. PICK f : IsFlat(f, m)
    BY <1>2
  <2> DEFINE g == [n \in 1..(m + 1) |-> Step(f[n - 1], n)]
  <2>2. m \in Nat /\ \A n \in 1..m : g[n] = f[n]
    <3> HIDE DEF Step
    <3>1. ASSUME NEW n \in 1..m
          PROVE  n \in 1..(m + 1) /\ f[n] = Step(f[n - 1], n)
      <4>1. n \in 1..(m + 1)
        OBVIOUS
      <4>2. f = [k \in 1..m |-> Step(f[k - 1], k)]
        BY <2>1
      <4> QED BY <4>1, <4>2
    <3>2. \A n \in 1..(m + 1) : g[n] = Step(f[n - 1], n)
      OBVIOUS
    <3> QED BY <3>1, <3>2
  <2>3. IsFlat(g, m + 1)
    <3>1. \A n \in 1..(m + 1) : n # 1 => n - 1 \in 1..m
      BY <2>2
    <3>2. \A n \in 1..(m + 1) : n # 1 => g[n - 1] = f[n - 1]
      BY <2>2, <3>1
    <3>3. \A n \in 1..(m + 1) : Step(g[n - 1], n) = Step(f[n - 1], n)
      <4> HIDE DEF g
      <4> QED BY <3>2
    <3> HIDE DEF Step
    <3> QED BY <3>3
  <2>4. m + 1 \in 0..N
    OBVIOUS
  <2> HIDE DEF IsFlat, g, N
  <2>5. \E h : IsFlat(h, m + 1)
    BY <2>3
  <2> QED BY <2>4, <2>5
<1>3. N \in P
  <2> HIDE DEF P, N
  <2>1. \A n \in 0..N : n \in P
    BY <1>1, <1>2, UpTo
  <2> QED BY <2>1
<1>4. IsFlat(flat, N)
  <2> HIDE DEF Step
  <2>1. \E f : IsFlat(f, N)
    BY <1>3
  <2> HIDE DEF IsFlat
  <2> QED BY <2>1
<1>5. FlattenSeq(seqs) = IF N = 0 THEN seqs ELSE flat[N]
  BY DEF FlattenSeq
<1> HIDE DEF flat
<1>6. \A n \in 1..N : flat[n] = Step(flat[n - 1], n)
  <2> HIDE DEF Step
  <2> QED BY <1>4
<1>7. CASE N = 0
  <2>1. seqs \in [1..0 -> T]
    BY <1>7
  <2> QED BY <1>5, <1>7, <2>1, SeqDef
<1>8. CASE N > 0
  <2> DEFINE Q == {n \in 0..N : n > 0 => flat[n] \in Seq(T)}
  <2>1. 0 \in Q
    OBVIOUS
  <2>2. ASSUME NEW n \in 0..(N - 1), n \in Q
        PROVE  n + 1 \in Q
    <3>1. n + 1 \in 1..N /\ (n + 1) - 1 = n
      OBVIOUS
    <3>2. flat[n + 1] = Step(flat[n], n + 1)
      BY <1>6, <3>1
    <3>3. seqs[n + 1] \in Seq(T)
      BY <3>1
    <3>4. CASE n = 0
      BY <3>1, <3>2, <3>3, <3>4
    <3>5. CASE n > 0
      <4>1. flat[n] \in Seq(T)
        BY <2>2, <3>5
      <4>2. flat[n + 1] = flat[n] \o seqs[n + 1]
        <5>1. n + 1 # 1
          BY <3>5
        <5> QED BY <3>2, <5>1
      <4>3. flat[n + 1] \in Seq(T)
        BY <3>3, <4>1, <4>2
      <4> QED BY <3>1, <4>3
    <3> QED BY <3>4, <3>5
  <2>3. N \in Q
    <3> HIDE DEF Q, N
    <3>1. \A n \in 0..N : n \in Q
      BY <2>1, <2>2, UpTo
    <3> QED BY <3>1
  <2> QED BY <1>5, <1>8, <2>3
<1> QED BY <1>7, <1>8

Trades == [direction : {"LONG", "SHORT", "none"}, entryTime : Int, exitTime : Int,
           netPnL : Int]

\* A trade adds one to the count and its net profit to the sum.
LEMMA AddTradeCounts ==
    ASSUME NEW summary, NEW trade
    PROVE  /\ AddTrade(summary, trade).trades = summary.trades + 1
           /\ AddTrade(summary, trade).netPnL = summary.netPnL + trade.netPnL
BY DEF AddTrade

\* What the summary of a part of some trades counts and adds up.
LEMMA SummaryType ==
    ASSUME NEW equity, NEW trades \in Seq(Trades), NEW kept
    PROVE  LET summary == Summarize(equity, trades, kept)
           IN  summary.trades \in Nat /\ summary.netPnL \in Int
<1> DEFINE N == Len(trades)
<1>1. N \in Nat /\ \A n \in 1..N : trades[n].netPnL \in Int
  <2>1. N \in Nat /\ \A n \in 1..N : trades[n] \in Trades
    OBVIOUS
  <2> QED BY <2>1 DEF Trades
<1>2. PICK after :
        /\ AccountAfter(equity, trades, kept) = after
        /\ after[0].trades = 0 /\ after[0].netPnL = 0
        /\ \A n \in 1..N : after[n] = IF n \in kept THEN AddTrade(after[n - 1], trades[n])
                                      ELSE after[n - 1]
  BY <1>1, AccountDef
<1> DEFINE P == {n \in 0..N : after[n].trades \in Nat /\ after[n].netPnL \in Int}
<1> HIDE DEF N
<1>3. 0 \in P
  BY <1>1, <1>2
<1>4. ASSUME NEW n \in 0..(N - 1), n \in P
      PROVE  n + 1 \in P
  <2>1. n + 1 \in 1..N /\ n + 1 \in 0..N /\ (n + 1) - 1 = n
    BY <1>1
  <2>2. after[n].trades \in Nat /\ after[n].netPnL \in Int
    BY <1>4
  <2>3. CASE n + 1 \in kept
    <3>1. after[n + 1] = AddTrade(after[n], trades[n + 1])
      BY <1>2, <2>1, <2>3
    <3>2. /\ after[n + 1].trades = after[n].trades + 1
          /\ after[n + 1].netPnL = after[n].netPnL + trades[n + 1].netPnL
      BY <3>1, AddTradeCounts
    <3> QED BY <1>1, <2>1, <2>2, <3>2, SMTT(60)
  <2>4. CASE n + 1 \notin kept
    <3>1. after[n + 1] = after[n]
      BY <1>2, <2>1, <2>4
    <3> QED BY <2>1, <2>2, <3>1
  <2> QED BY <2>3, <2>4
<1> HIDE DEF P
<1>5. \A n \in 0..N : n \in P
  BY <1>1, <1>3, <1>4, UpTo
<1>6. N \in P
  BY <1>1, <1>5
<1> QED BY <1>2, <1>6 DEF P, Summarize, N

\* Two parts that share no trade add up to the part that holds both.
LEMMA PartsAddUp ==
    ASSUME NEW equity, NEW trades \in Seq(Trades), NEW A, NEW B, A \cap B = {}
    PROVE  LET a == Summarize(equity, trades, A)
               b == Summarize(equity, trades, B)
               both == Summarize(equity, trades, A \union B)
           IN  /\ both.trades = a.trades + b.trades
               /\ both.netPnL = a.netPnL + b.netPnL
<1> DEFINE N == Len(trades)
<1>1. N \in Nat /\ \A n \in 1..N : trades[n].netPnL \in Int
  <2>1. N \in Nat /\ \A n \in 1..N : trades[n] \in Trades
    OBVIOUS
  <2> QED BY <2>1 DEF Trades
<1>2. PICK left :
        /\ AccountAfter(equity, trades, A) = left
        /\ left[0].trades = 0 /\ left[0].netPnL = 0
        /\ \A n \in 1..N : left[n] = IF n \in A THEN AddTrade(left[n - 1], trades[n])
                                  ELSE left[n - 1]
  BY <1>1, AccountDef
<1>3. PICK right :
        /\ AccountAfter(equity, trades, B) = right
        /\ right[0].trades = 0 /\ right[0].netPnL = 0
        /\ \A n \in 1..N : right[n] = IF n \in B THEN AddTrade(right[n - 1], trades[n])
                                  ELSE right[n - 1]
  BY <1>1, AccountDef
<1>4. PICK whole :
        /\ AccountAfter(equity, trades, A \union B) = whole
        /\ whole[0].trades = 0 /\ whole[0].netPnL = 0
        /\ \A n \in 1..N : whole[n] = IF n \in A \union B
                                  THEN AddTrade(whole[n - 1], trades[n]) ELSE whole[n - 1]
  <2> DEFINE C == A \union B
  <2> HIDE DEF C
  <2>1. \E whole : /\ AccountAfter(equity, trades, C) = whole
               /\ whole[0].trades = 0 /\ whole[0].netPnL = 0
               /\ \A n \in 1..N : whole[n] = IF n \in C
                                         THEN AddTrade(whole[n - 1], trades[n]) ELSE whole[n - 1]
    BY <1>1, AccountDef
  <2> QED BY <2>1 DEF C
<1> DEFINE P == {n \in 0..N : /\ left[n].trades \in Nat /\ left[n].netPnL \in Int
                              /\ right[n].trades \in Nat /\ right[n].netPnL \in Int
                              /\ whole[n].trades = left[n].trades + right[n].trades
                              /\ whole[n].netPnL = left[n].netPnL + right[n].netPnL}
<1> HIDE DEF N
<1>5. 0 \in P
  <2>1. /\ left[0].trades = 0 /\ left[0].netPnL = 0 /\ right[0].trades = 0 /\ right[0].netPnL = 0
        /\ whole[0].trades = 0 /\ whole[0].netPnL = 0
    BY <1>2, <1>3, <1>4
  <2>2. left[0].trades \in Nat /\ left[0].netPnL \in Int
    BY <2>1
  <2>3. right[0].trades \in Nat /\ right[0].netPnL \in Int
    BY <2>1
  <2>4. whole[0].trades = left[0].trades + right[0].trades
    BY <2>1
  <2>5. whole[0].netPnL = left[0].netPnL + right[0].netPnL
    BY <2>1
  <2>6. 0 \in 0..N
    BY <1>1
  <2> QED BY <2>2, <2>3, <2>4, <2>5, <2>6, Zenon
<1>6. ASSUME NEW n \in 0..(N - 1), n \in P
      PROVE  n + 1 \in P
  <2>1. n + 1 \in 1..N /\ n + 1 \in 0..N /\ (n + 1) - 1 = n /\ trades[n + 1].netPnL \in Int
    BY <1>1
  <2>2. /\ left[n].trades \in Nat /\ left[n].netPnL \in Int /\ right[n].trades \in Nat /\ right[n].netPnL \in Int
        /\ whole[n].trades = left[n].trades + right[n].trades
        /\ whole[n].netPnL = left[n].netPnL + right[n].netPnL
    BY <1>6
  <2>3. /\ left[n + 1] = IF n + 1 \in A THEN AddTrade(left[n], trades[n + 1]) ELSE left[n]
        /\ right[n + 1] = IF n + 1 \in B THEN AddTrade(right[n], trades[n + 1]) ELSE right[n]
        /\ whole[n + 1] = IF n + 1 \in A \union B THEN AddTrade(whole[n], trades[n + 1])
                      ELSE whole[n]
    BY <1>2, <1>3, <1>4, <2>1
  <2>4. PICK t : t = trades[n + 1] /\ t.netPnL \in Int
    BY <2>1
  <2>5. /\ AddTrade(left[n], t).trades = left[n].trades + 1
        /\ AddTrade(left[n], t).netPnL = left[n].netPnL + t.netPnL
        /\ AddTrade(right[n], t).trades = right[n].trades + 1
        /\ AddTrade(right[n], t).netPnL = right[n].netPnL + t.netPnL
        /\ AddTrade(whole[n], t).trades = whole[n].trades + 1
        /\ AddTrade(whole[n], t).netPnL = whole[n].netPnL + t.netPnL
    BY AddTradeCounts
  <2>6. PICK i : i = left[n].trades
    OBVIOUS
  <2>7. PICK j : j = right[n].trades
    OBVIOUS
  <2>8. PICK l : l = left[n].netPnL
    OBVIOUS
  <2>9. PICK r : r = right[n].netPnL
    OBVIOUS
  <2>10. PICK net : net = t.netPnL
    OBVIOUS
  <2>11. i \in Nat /\ j \in Nat /\ l \in Int /\ r \in Int /\ net \in Int
    BY <2>2, <2>4, <2>6, <2>7, <2>8, <2>9, <2>10, Zenon
  <2>12. /\ i + 1 \in Nat /\ j + 1 \in Nat /\ l + net \in Int /\ r + net \in Int
         /\ (i + j) + 1 = (i + 1) + j /\ (i + j) + 1 = i + (j + 1)
         /\ (l + r) + net = (l + net) + r /\ (l + r) + net = l + (r + net)
    BY <2>11
  <2>13. /\ whole[n].trades = i + j /\ whole[n].netPnL = l + r
    BY <2>2, <2>6, <2>7, <2>8, <2>9, Zenon
  <2>14. CASE n + 1 \in A
    <3>1. left[n + 1] = AddTrade(left[n], t) /\ right[n + 1] = right[n]
      BY <2>3, <2>4, <2>14
    <3>2. whole[n + 1] = AddTrade(whole[n], t)
      BY <2>3, <2>4, <2>14
    <3>3. left[n + 1].trades = i + 1 /\ left[n + 1].netPnL = l + net
      BY <2>5, <2>6, <2>8, <2>10, <3>1, Zenon
    <3>4. right[n + 1].trades = j /\ right[n + 1].netPnL = r
      BY <2>7, <2>9, <3>1, Zenon
    <3>5. whole[n + 1].trades = (i + j) + 1 /\ whole[n + 1].netPnL = (l + r) + net
      BY <2>5, <2>10, <2>13, <3>2, Zenon
    <3> QED BY <2>1, <2>11, <2>12, <3>3, <3>4, <3>5, Zenon
  <2>15. CASE n + 1 \in B
    <3>1. left[n + 1] = left[n] /\ right[n + 1] = AddTrade(right[n], t)
      BY <2>3, <2>4, <2>15
    <3>2. whole[n + 1] = AddTrade(whole[n], t)
      BY <2>3, <2>4, <2>15
    <3>3. left[n + 1].trades = i /\ left[n + 1].netPnL = l
      BY <2>6, <2>8, <3>1, Zenon
    <3>4. right[n + 1].trades = j + 1 /\ right[n + 1].netPnL = r + net
      BY <2>5, <2>7, <2>9, <2>10, <3>1, Zenon
    <3>5. whole[n + 1].trades = (i + j) + 1 /\ whole[n + 1].netPnL = (l + r) + net
      BY <2>5, <2>10, <2>13, <3>2, Zenon
    <3> QED BY <2>1, <2>11, <2>12, <3>3, <3>4, <3>5, Zenon
  <2>16. CASE n + 1 \notin A \union B
    <3>1. left[n + 1] = left[n] /\ right[n + 1] = right[n] /\ whole[n + 1] = whole[n]
      BY <2>3, <2>16
    <3> QED BY <2>1, <2>2, <3>1
  <2> QED BY <2>14, <2>15, <2>16
<1> HIDE DEF P
<1>7. \A n \in 0..N : n \in P
  BY <1>1, <1>5, <1>6, UpTo
<1>8. N \in P
  BY <1>1, <1>7
<1> QED BY <1>2, <1>3, <1>4, <1>8 DEF P, Summarize, N

\* A summary of no trade counts none and adds up to nothing.
LEMMA NothingKept ==
    ASSUME NEW equity, NEW trades \in Seq(Trades)
    PROVE  Summarize(equity, trades, {}).trades = 0
<1>1. /\ Summarize(equity, trades, {} \union {}).trades
            = Summarize(equity, trades, {}).trades + Summarize(equity, trades, {}).trades
      /\ {} \union {} = {}
  BY PartsAddUp
<1>2. Summarize(equity, trades, {}).trades \in Nat
  BY SummaryType
<1> QED BY <1>1, <1>2

\* Of all trades the summary counts each and adds up what each made.
LEMMA AllKept ==
    ASSUME NEW equity, NEW trades \in Seq(Trades)
    PROVE  LET summary == Summarize(equity, trades, DOMAIN trades)
           IN  /\ summary.trades = Len(trades)
               /\ summary.netPnL = Total([i \in DOMAIN trades |-> trades[i].netPnL])
<1> DEFINE N == Len(trades)
           made == [i \in DOMAIN trades |-> trades[i].netPnL]
<1>1. /\ N \in Nat /\ DOMAIN trades = 1..N
      /\ \A n \in 1..N : trades[n].netPnL \in Int
  <2>1. N \in Nat /\ DOMAIN trades = 1..N /\ \A n \in 1..N : trades[n] \in Trades
    OBVIOUS
  <2> QED BY <2>1 DEF Trades
<1>2. Len(made) = N /\ \A n \in 1..N : made[n] = trades[n].netPnL
  <2>1. made \in [1..N -> Int]
    BY <1>1
  <2>2. made \in Seq(Int) /\ DOMAIN made = 1..N
    BY <1>1, <2>1, SeqDef
  <2> QED BY <1>1, <2>2
<1>3. PICK kept : kept = DOMAIN trades
  OBVIOUS
<1>4. PICK after :
        /\ AccountAfter(equity, trades, kept) = after
        /\ after[0].trades = 0 /\ after[0].netPnL = 0
        /\ \A n \in 1..N : after[n] = IF n \in kept THEN AddTrade(after[n - 1], trades[n])
                                      ELSE after[n - 1]
  BY <1>1, AccountDef
<1> HIDE DEF made
<1>5. PICK sum : /\ Total(made) = sum[N] /\ sum[0] = 0
                 /\ \A n \in 1..N : sum[n] = sum[n - 1] + made[n]
  BY <1>1, <1>2, TotalDef
<1> DEFINE P == {n \in 0..N : after[n].trades = n /\ after[n].netPnL = sum[n]}
<1> HIDE DEF N
<1>6. 0 \in P
  BY <1>1, <1>4, <1>5
<1>7. ASSUME NEW n \in 0..(N - 1), n \in P
      PROVE  n + 1 \in P
  <2>1. n + 1 \in 1..N /\ n + 1 \in 0..N /\ (n + 1) - 1 = n
    BY <1>1
  <2>2. after[n].trades = n /\ after[n].netPnL = sum[n]
    BY <1>7
  <2>3. after[n + 1] = AddTrade(after[n], trades[n + 1])
    BY <1>1, <1>3, <1>4, <2>1
  <2>4. /\ after[n + 1].trades = after[n].trades + 1
        /\ after[n + 1].netPnL = after[n].netPnL + trades[n + 1].netPnL
    BY <2>3, AddTradeCounts
  <2>5. sum[n + 1] = sum[n] + trades[n + 1].netPnL
    BY <1>2, <1>5, <2>1
  <2> QED BY <2>1, <2>2, <2>4, <2>5
<1> HIDE DEF P
<1>8. \A n \in 0..N : n \in P
  BY <1>1, <1>6, <1>7, UpTo
<1>9. N \in P
  BY <1>1, <1>8
<1> QED BY <1>3, <1>4, <1>5, <1>9 DEF P, Summarize, N, made

(***************************************************************************)
(* The folds and the split.                                                *)
(***************************************************************************)
\* A trade of the window belongs to one of the folds.
LEMMA FoldIndexRange ==
    ASSUME NEW time \in Int, NEW span, NEW folds \in Nat \ {0},
           span.windowStart \in Int, span.windowEnd \in Int, InWindow(time, span)
    PROVE  FoldIndex(time, span, folds) \in 1..folds
<1>1. PICK length \in Nat : length = span.windowEnd - span.windowStart /\ length > 0
  BY DEF InWindow
<1>2. PICK since \in Nat : since = time - span.windowStart
  BY DEF InWindow
<1>3. PICK share : share = since * folds
  OBVIOUS
<1>4. share \in Nat
  BY <1>3
<1>5. PICK later : later = share \div length
  OBVIOUS
<1>6. later \in Nat
  BY <1>1, <1>4, <1>5
<1>7. FoldIndex(time, span, folds) = Min({folds, 1 + later})
  BY <1>1, <1>2, <1>3, <1>5, Zenon DEF FoldIndex
<1>8. PICK m \in {folds, 1 + later} : \A y \in {folds, 1 + later} : m <= y
  <2>1. CASE folds <= 1 + later
    BY <1>6, <2>1
  <2>2. CASE ~(folds <= 1 + later)
    BY <1>6, <2>2
  <2> QED BY <2>1, <2>2
<1>9. /\ Min({folds, 1 + later}) \in {folds, 1 + later}
      /\ \A y \in {folds, 1 + later} : Min({folds, 1 + later}) <= y
  BY <1>8 DEF Min
<1> QED BY <1>6, <1>7, <1>9

\* The folds of the walk-forward are all trades of the window, each once: no
\* trade at a boundary is counted twice or lost (walkForwardFoldIndex and
\* SummarizeRoundTripsByWalkForward in internal/backtest/metrics.go).
THEOREM FoldsAreAllTrades ==
    ASSUME NEW trades \in Seq(Trades), NEW span, NEW request,
           request.folds \in Nat \ {0},
           span.windowStart \in Int, span.windowEnd \in Int,
           \A i \in DOMAIN trades : InWindow(trades[i].entryTime, span)
    PROVE  Total([k \in 1..request.folds |->
                     FoldSummary(trades, span, request, k).trades]) = Len(trades)
<1>1. PICK F \in Nat \ {0} : F = request.folds
  OBVIOUS
<1>2. PICK equity : equity = request.equity
  OBVIOUS
<1>3. PICK fold : fold = [i \in DOMAIN trades |-> FoldIndex(trades[i].entryTime, span, F)]
  OBVIOUS
<1>4. \A i \in DOMAIN trades : fold[i] \in 1..F
  <2>1. \A i \in DOMAIN trades : trades[i] \in Trades
    OBVIOUS
  <2> TAKE i \in DOMAIN trades
  <2>2. PICK time : time = trades[i].entryTime
    OBVIOUS
  <2>3. time \in Int /\ InWindow(time, span)
    BY <2>1, <2>2 DEF Trades
  <2>4. FoldIndex(time, span, F) \in 1..F
    BY <2>3, FoldIndexRange
  <2> QED BY <1>3, <2>2, <2>4
<1> DEFINE OfFold(k) == {i \in DOMAIN trades : fold[i] = k}
           Before(k) == {i \in DOMAIN trades : fold[i] <= k}
           Count(kept) == Summarize(equity, trades, kept).trades
           counts == [k \in 1..F |-> FoldSummary(trades, span, request, k).trades]
<1>5. \A k \in 1..F : FoldSummary(trades, span, request, k).trades = Count(OfFold(k))
  <2> TAKE k \in 1..F
  <2>1. FoldTrades(trades, span, F, k) = OfFold(k)
    BY <1>3 DEF FoldTrades
  <2> QED BY <1>1, <1>2, <2>1 DEF FoldSummary
<1>6. Len(counts) = F /\ \A k \in 1..F : counts[k] = Count(OfFold(k))
  <2> HIDE DEF Count, OfFold
  <2>1. counts = [k \in 1..F |-> Count(OfFold(k))]
    BY <1>5
  <2>2. Len(counts) = F
    OBVIOUS
  <2> QED BY <2>1, <2>2
<1>7. \A kept : Count(kept) \in Nat
  BY SummaryType
<1> HIDE DEF counts
<1>8. PICK sum : /\ Total(counts) = sum[F] /\ sum[0] = 0
                 /\ \A k \in 1..F : sum[k] = sum[k - 1] + counts[k]
  BY <1>6, TotalDef, ZenonT(60)
<1> DEFINE P == {k \in 0..F : sum[k] = Count(Before(k))}
<1>9. 0 \in P
  <2>1. Before(0) = {}
    BY <1>4
  <2>2. Count({}) = 0
    BY NothingKept
  <2>3. sum[0] = Count(Before(0))
    <3> HIDE DEF Count, Before
    <3> QED BY <1>8, <2>1, <2>2, Zenon
  <2>4. 0 \in 0..F
    OBVIOUS
  <2> HIDE DEF Count, Before
  <2> QED BY <2>3, <2>4
<1>10. ASSUME NEW k \in 0..(F - 1), k \in P
       PROVE  k + 1 \in P
  <2>1. k + 1 \in 1..F /\ k + 1 \in 0..F /\ (k + 1) - 1 = k
    OBVIOUS
  <2>2. /\ Before(k + 1) = Before(k) \union OfFold(k + 1)
        /\ Before(k) \cap OfFold(k + 1) = {}
    BY <1>4
  <2>3. Count(Before(k) \union OfFold(k + 1)) = Count(Before(k)) + Count(OfFold(k + 1))
    <3>1. PICK A, B : A = Before(k) /\ B = OfFold(k + 1)
      OBVIOUS
    <3> HIDE DEF Before, OfFold
    <3>2. Count(A \union B) = Count(A) + Count(B)
      BY <2>2, <3>1, PartsAddUp
    <3> QED BY <3>1, <3>2
  <2>4. sum[k + 1] = sum[k] + Count(OfFold(k + 1))
    BY <1>6, <1>8, <2>1
  <2>5. sum[k] = Count(Before(k))
    BY <1>10
  <2> HIDE DEF Count, Before, OfFold
  <2>6. sum[k + 1] = Count(Before(k + 1))
    BY <2>2, <2>3, <2>4, <2>5, Zenon
  <2> QED BY <2>1, <2>6
<1> HIDE DEF P
<1>11. \A k \in 0..F : k \in P
  BY <1>9, <1>10, UpTo
<1>12. sum[F] = Count(Before(F))
  <2>1. F \in 0..F
    OBVIOUS
  <2> QED BY <1>11, <2>1, Zenon DEF P
<1>13. Before(F) = DOMAIN trades
  <2>1. \A i \in DOMAIN trades : fold[i] <= F
    BY <1>4
  <2> QED BY <2>1, Zenon
<1>14. Count(DOMAIN trades) = Len(trades)
  BY AllKept
<1> HIDE DEF Count, Before
<1>15. Total(counts) = Len(trades)
  BY <1>8, <1>12, <1>13, <1>14, Zenon
<1> QED BY <1>1, <1>15 DEF counts

\* The two parts of the split are all trades, each once, in number and in net
\* profit (SummarizeRoundTripsBySplit in internal/backtest/metrics.go).
THEOREM SplitIsAllTrades ==
    ASSUME NEW trades \in Seq(Trades), NEW equity, NEW split \in Int
    PROVE  LET before == Summarize(equity, trades, InSample(trades, split))
               after == Summarize(equity, trades, OutOfSample(trades, split))
               all == Summarize(equity, trades, DOMAIN trades)
           IN  /\ all.trades = before.trades + after.trades
               /\ all.netPnL = before.netPnL + after.netPnL
<1>1. PICK A, B : A = InSample(trades, split) /\ B = OutOfSample(trades, split)
  OBVIOUS
<1>2. A \cap B = {} /\ A \union B = DOMAIN trades
  <2>1. \A i \in DOMAIN trades : trades[i].entryTime \in Int
    <3>1. \A i \in DOMAIN trades : trades[i] \in Trades
      OBVIOUS
    <3> QED BY <3>1 DEF Trades
  <2>2. PICK time : time = [i \in DOMAIN trades |-> trades[i].entryTime]
    OBVIOUS
  <2>3. \A i \in DOMAIN trades : time[i] = trades[i].entryTime /\ time[i] \in Int
    BY <2>1, <2>2
  <2>4. /\ A = {i \in DOMAIN trades : time[i] < split}
        /\ B = {i \in DOMAIN trades : time[i] >= split}
    BY <1>1, <2>3 DEF InSample, OutOfSample
  <2>5. \A i \in DOMAIN trades : time[i] < split <=> ~(time[i] >= split)
    BY <2>3
  <2> QED BY <2>4, <2>5, Zenon
<1>3. /\ Summarize(equity, trades, A \union B).trades
            = Summarize(equity, trades, A).trades + Summarize(equity, trades, B).trades
      /\ Summarize(equity, trades, A \union B).netPnL
            = Summarize(equity, trades, A).netPnL + Summarize(equity, trades, B).netPnL
  BY <1>2, PartsAddUp
<1> QED BY <1>1, <1>2, <1>3, Zenon

(***************************************************************************)
(* One round trip.                                                         *)
(***************************************************************************)
LEMMA Products == \A a, b \in Int : a * b \in Int /\ a - b \in Int /\ a + b \in Int
OBVIOUS

\* Spread and slippage leave a price a number.
LEMMA ExecutedPriceType ==
    ASSUME NEW mid \in Int, NEW costs, ValidCosts(costs), NEW upwards
    PROVE  ExecutedPrice(mid, costs, upwards) \in Int
<1>1. PICK f : f = costs.factor
  OBVIOUS
<1>2. PICK s : s = 2 * costs.slippageBPS
  OBVIOUS
<1>3. PICK w : w = costs.spreadBPS
  OBVIOUS
<1>4. f \in Int /\ s \in Int /\ w \in Int
  <2>1. costs.factor \in Int /\ costs.slippageBPS \in Int /\ costs.spreadBPS \in Int
    BY DEF ValidCosts
  <2> QED BY <1>1, <1>2, <1>3, <2>1
<1>5. s * f \in Int
  BY <1>4, Products
<1>6. PICK impact \in Int : impact = w + s * f
  BY <1>4, <1>5
<1>7. impact = costs.spreadBPS + 2 * costs.slippageBPS * costs.factor
  BY <1>1, <1>2, <1>3, <1>6, Zenon
<1>8. 2 * Bps + impact \in Int /\ 2 * Bps - impact \in Int
  BY <1>6, UnitsAssumption
<1>9. mid * (2 * Bps + impact) \in Int /\ mid * (2 * Bps - impact) \in Int
  BY <1>8, Products
<1> QED BY <1>7, <1>9, Zenon DEF ExecutedPrice

\* A round trip that can be evaluated is a trade (EvaluateRoundTrip in
\* internal/backtest/trade.go).
LEMMA RoundTripType ==
    ASSUME NEW direction \in {"LONG", "SHORT", "none"}, NEW entry, NEW exit, NEW request,
           ValidRequest(request), entry.open \in Int, exit.close \in Int,
           entry.openTime \in Int, exit.closeTime \in Int
    PROVE  /\ RoundTrip(direction, entry, exit, request) \in Trades
           /\ RoundTrip(direction, entry, exit, request).entryTime = entry.openTime
           /\ RoundTrip(direction, entry, exit, request).exitTime = exit.closeTime
<1>1. PICK long : long = (direction = "LONG")
  OBVIOUS
<1>2. PICK costs : costs = request.costs
  OBVIOUS
<1>3. PICK open, close : open = entry.open /\ close = exit.close
  OBVIOUS
<1>4. PICK price : price = ExecutedPrice(open, costs, long)
  OBVIOUS
<1>5. PICK left : left = ExecutedPrice(close, costs, ~long)
  OBVIOUS
<1>6. price \in Int /\ left \in Int
  BY <1>2, <1>3, <1>4, <1>5, ExecutedPriceType DEF ValidRequest
<1>7. PICK q \in Int : q = request.quantity
  BY DEF ValidRequest
<1>8. PICK fee \in Int : fee = costs.takerFeeBPS
  BY <1>2 DEF ValidRequest, ValidCosts
<1>9. PICK gain : gain = IF long THEN left - price ELSE price - left
  OBVIOUS
<1>10. gain \in Int
  BY <1>6, <1>9
<1>11. PICK gross \in Int : gross = q * gain
  BY <1>7, <1>10, Products
<1>12. PICK paid \in Int : paid = q * (price + left)
  <2>1. price + left \in Int
    BY <1>6
  <2> QED BY <1>7, <2>1, Products
<1>13. PICK fees \in Int : fees = paid * fee
  BY <1>8, <1>12, Products
<1>14. PICK net \in Int : net = gross * Bps - fees
  <2>1. gross * Bps \in Int
    BY <1>11, UnitsAssumption, Products
  <2> QED BY <1>13, <2>1
<1>15. RoundTrip(direction, entry, exit, request)
          = [direction |-> direction, entryTime |-> entry.openTime,
             exitTime |-> exit.closeTime, netPnL |-> net]
  BY <1>1, <1>2, <1>3, <1>4, <1>5, <1>7, <1>8, <1>9, <1>11, <1>12, <1>13, <1>14, Zenon
     DEF RoundTrip
<1> QED BY <1>14, <1>15 DEF Trades

\* The direction of a hypothesis that trades one way (backtestDirection).
LEMMA TradeDirectionType ==
    ASSUME NEW spec, NEW regime
    PROVE  TradeDirection(spec, regime) \in {"LONG", "SHORT", "none"}
<1>1. CASE spec.direction = "LONG"
  BY <1>1 DEF TradeDirection
<1>2. CASE spec.direction = "SHORT"
  BY <1>2 DEF TradeDirection
<1>3. CASE spec.direction = "BOTH" /\ regime = "TREND_DOWN"
  BY <1>3 DEF TradeDirection
<1>4. CASE spec.direction = "BOTH" /\ regime \in {"TREND_UP", "BREAKOUT_SETUP"}
  BY <1>4 DEF TradeDirection
<1>5. CASE /\ spec.direction \notin {"LONG", "SHORT"}
             /\ spec.direction = "BOTH" =>
                   regime \notin {"TREND_DOWN", "TREND_UP", "BREAKOUT_SETUP"}
  BY <1>5 DEF TradeDirection
<1> QED BY <1>1, <1>2, <1>3, <1>4, <1>5

\* A state that opens a trade enters when it closes, no sooner than it may,
\* and leaves later.
LEMMA TradeOfShape ==
    ASSUME NEW spec, NEW span, NEW request, NEW series, NEW state, NEW nextEntry \in Int,
           ValidRequest(request), ValidSeries(series), state.closeTime \in Int
    PROVE  \/ TradeOf(spec, span, request, series, state, nextEntry) = <<>>
           \/ \E trade \in Trades :
                 /\ TradeOf(spec, span, request, series, state, nextEntry) = <<trade>>
                 /\ trade.entryTime = state.closeTime
                 /\ trade.entryTime >= nextEntry /\ trade.entryTime < trade.exitTime
<1>1. PICK candles, usable, entries, direction :
         /\ candles = series.candles
         /\ usable = WindowCandles(series, span, request)
         /\ entries = EntryIndexes(series, span, request, state)
         /\ direction = TradeDirection(spec, state.regime)
  OBVIOUS
<1>2. PICK n \in Nat : DOMAIN candles = 1..n
  BY <1>1 DEF ValidSeries
<1>3. \A i \in 1..n :
         /\ candles[i].openTime \in Int /\ candles[i].closeTime \in Int
         /\ candles[i].open \in Int /\ candles[i].close \in Int
         /\ candles[i].openTime < candles[i].closeTime
         /\ \A j \in 1..(i - 1) : candles[j].openTime < candles[i].openTime
  BY <1>1, <1>2 DEF ValidSeries
<1>4. PICK opens, closes :
         /\ opens = [i \in 1..n |-> candles[i].openTime]
         /\ closes = [i \in 1..n |-> candles[i].closeTime]
  OBVIOUS
<1>5. \A i \in 1..n : /\ opens[i] \in Int /\ closes[i] \in Int /\ opens[i] < closes[i]
                      /\ \A j \in 1..(i - 1) : opens[j] < opens[i]
  <2>1. \A i \in 1..n : \A j \in 1..(i - 1) : j \in 1..n
    BY <1>2
  <2> QED BY <1>3, <1>4, <2>1
<1>6. /\ usable \subseteq 1..n
      /\ entries \subseteq usable
      /\ \A i \in entries : opens[i] = state.closeTime
  BY <1>1, <1>2, <1>4 DEF WindowCandles, EntryIndexes
<1>7. PICK entry : entry = Max(entries)
  OBVIOUS
<1>8. PICK holding \in Nat : holding = request.holding /\ holding > 0
  BY DEF ValidRequest
<1>9. PICK exit : exit = entry + holding - 1
  OBVIOUS
<1>10. PICK trade : trade = RoundTrip(direction, candles[entry], candles[exit], request)
  OBVIOUS
<1>11. TradeOf(spec, span, request, series, state, nextEntry)
          = IF /\ direction # "none" /\ state.closeTime >= nextEntry
               /\ entries # {} /\ exit \in usable
            THEN <<trade>> ELSE <<>>
  BY <1>1, <1>7, <1>8, <1>9, <1>10, Zenon DEF TradeOf
<1>12. SUFFICES ASSUME state.closeTime >= nextEntry, entries # {}, exit \in usable
                PROVE  /\ trade \in Trades /\ trade.entryTime = state.closeTime
                       /\ trade.entryTime < trade.exitTime
  BY <1>11
<1>13. entry \in entries
  <2>1. PICK e \in entries : TRUE
    BY <1>12
  <2>2. \A y \in entries : y = e
    <3> TAKE y \in entries
    <3>1. y \in 1..n /\ e \in 1..n /\ opens[y] = opens[e]
      BY <1>6, <2>1
    <3>2. y < e => opens[y] < opens[e]
      BY <1>5, <3>1
    <3>3. e < y => opens[e] < opens[y]
      BY <1>5, <3>1
    <3> QED BY <1>5, <3>1, <3>2, <3>3
  <2>3. e \in 1..n
    BY <1>6, <2>1
  <2>4. \A y \in entries : e >= y
    BY <2>2, <2>3
  <2>5. \E x \in entries : \A y \in entries : x >= y
    BY <2>1, <2>4, Zenon
  <2> QED BY <1>7, <2>5, Zenon DEF Max
<1>14. entry \in 1..n /\ exit \in 1..n /\ opens[entry] = state.closeTime
  BY <1>6, <1>12, <1>13
<1>15. opens[entry] < closes[exit]
  <2>1. entry < exit \/ entry = exit
    BY <1>8, <1>9, <1>14
  <2>2. CASE entry < exit
    <3>1. opens[entry] < opens[exit]
      BY <1>5, <1>14, <2>2
    <3> QED BY <1>5, <1>14, <3>1
  <2>3. CASE entry = exit
    BY <1>5, <1>14, <2>3
  <2> QED BY <2>1, <2>2, <2>3
<1>16. /\ trade \in Trades /\ trade.entryTime = opens[entry]
       /\ trade.exitTime = closes[exit]
  <2>1. PICK first, last : first = candles[entry] /\ last = candles[exit]
    OBVIOUS
  <2>2. /\ first.open \in Int /\ last.close \in Int
        /\ first.openTime \in Int /\ last.closeTime \in Int
        /\ first.openTime = opens[entry] /\ last.closeTime = closes[exit]
    BY <1>3, <1>4, <1>14, <2>1
  <2>3. direction \in {"LONG", "SHORT", "none"}
    BY <1>1, TradeDirectionType
  <2>4. /\ RoundTrip(direction, first, last, request) \in Trades
        /\ RoundTrip(direction, first, last, request).entryTime = first.openTime
        /\ RoundTrip(direction, first, last, request).exitTime = last.closeTime
    BY <2>2, <2>3, RoundTripType
  <2> QED BY <1>10, <2>1, <2>2, <2>4, Zenon
<1> QED BY <1>14, <1>15, <1>16, Zenon

(***************************************************************************)
(* The loop over the states.                                               *)
(***************************************************************************)
\* The states up to the n-th one that could open a trade by some time.
ClosedAmong(allowed, closes, n, time) ==
    {i \in allowed : i <= n /\ closes[i] <= time}

\* What the loop over the states keeps true of the trades it has made.
HonestSoFar(trades, nextEntry, span, allowed, closes, n) ==
    /\ trades \in Seq(Trades) /\ nextEntry \in Int
    /\ \A j \in 1..Len(trades) :
          /\ trades[j].entryTime < trades[j].exitTime
          /\ trades[j].exitTime <= nextEntry
          /\ InWindow(trades[j].entryTime, span)
          /\ j <= Cardinality(ClosedAmong(allowed, closes, n, trades[j].entryTime))
    /\ \A j \in 1..(Len(trades) - 1) : trades[j].exitTime <= trades[j + 1].entryTime

\* A state that closed before the entry of a trade stays one of those read.
LEMMA ClosedAmongGrows ==
    ASSUME NEW N \in Nat, NEW allowed \in SUBSET (1..N), NEW closes,
           NEW n \in 0..(N - 1), NEW time, NEW later,
           \A i \in allowed : closes[i] <= time => closes[i] <= later
    PROVE  /\ IsFiniteSet(ClosedAmong(allowed, closes, n, time))
           /\ Cardinality(ClosedAmong(allowed, closes, n, time)) \in Nat
           /\ Cardinality(ClosedAmong(allowed, closes, n + 1, later)) \in Nat
           /\ Cardinality(ClosedAmong(allowed, closes, n, time))
                 <= Cardinality(ClosedAmong(allowed, closes, n + 1, later))
           /\ (n + 1 \in allowed /\ closes[n + 1] <= later) =>
                 Cardinality(ClosedAmong(allowed, closes, n, time)) + 1
                    <= Cardinality(ClosedAmong(allowed, closes, n + 1, later))
<1>1. PICK small, large :
         /\ small = ClosedAmong(allowed, closes, n, time)
         /\ large = ClosedAmong(allowed, closes, n + 1, later)
  OBVIOUS
<1>2. IsFiniteSet(1..N)
  BY FS_Interval
<1>3. /\ small \subseteq 1..N /\ large \subseteq 1..N
      /\ small \subseteq large /\ n + 1 \notin small
      /\ n + 1 \in allowed /\ closes[n + 1] <= later => n + 1 \in large
  <2>1. /\ \A i \in allowed : i \in 1..N /\ (i <= n => i <= n + 1)
        /\ ~(n + 1 <= n) /\ n + 1 <= n + 1
    OBVIOUS
  <2> QED BY <1>1, <2>1, Zenon DEF ClosedAmong
<1>4. IsFiniteSet(small) /\ IsFiniteSet(large)
  BY <1>2, <1>3, FS_Subset
<1>5. Cardinality(small) \in Nat /\ Cardinality(large) \in Nat
  BY <1>4, FS_CardinalityType
<1>6. Cardinality(small) <= Cardinality(large)
  BY <1>3, <1>4, FS_Subset
<1>7. ASSUME n + 1 \in allowed, closes[n + 1] <= later
      PROVE  Cardinality(small) + 1 <= Cardinality(large)
  <2>1. small \union {n + 1} \subseteq large
    BY <1>3, <1>7
  <2>2. Cardinality(small \union {n + 1}) = Cardinality(small) + 1
    BY <1>3, <1>4, FS_AddElement
  <2>3. Cardinality(small \union {n + 1}) <= Cardinality(large)
    BY <1>4, <2>1, FS_Subset
  <2> QED BY <2>2, <2>3
<1> QED BY <1>1, <1>4, <1>5, <1>6, <1>7

\* A regime state that opens no trade leaves the trades honest.
LEMMA NoTradeOpened ==
    ASSUME NEW N \in Nat, NEW allowed \in SUBSET (1..N), NEW closes,
           NEW n \in 0..(N - 1), NEW trades, NEW nextEntry, NEW span,
           HonestSoFar(trades, nextEntry, span, allowed, closes, n)
    PROVE  HonestSoFar(trades, nextEntry, span, allowed, closes, n + 1)
<1>1. ASSUME NEW j \in 1..Len(trades)
      PROVE  j <= Cardinality(ClosedAmong(allowed, closes, n + 1, trades[j].entryTime))
  <2>1. PICK time : time = trades[j].entryTime
    OBVIOUS
  <2>2. j <= Cardinality(ClosedAmong(allowed, closes, n, time))
    BY <2>1 DEF HonestSoFar
  <2>3. /\ Cardinality(ClosedAmong(allowed, closes, n, time)) \in Nat
        /\ Cardinality(ClosedAmong(allowed, closes, n + 1, time)) \in Nat
        /\ Cardinality(ClosedAmong(allowed, closes, n, time))
              <= Cardinality(ClosedAmong(allowed, closes, n + 1, time))
    BY ClosedAmongGrows
  <2>4. j \in Nat
    BY DEF HonestSoFar
  <2>5. j <= Cardinality(ClosedAmong(allowed, closes, n + 1, time))
    BY <2>2, <2>3, <2>4
  <2> QED BY <2>1, <2>5
<1> QED BY <1>1, Zenon DEF HonestSoFar

\* A trade that enters where the last one left, in the window and at the close
\* of a state just read, leaves the trades honest.
LEMMA OneTradeOpened ==
    ASSUME NEW N \in Nat, NEW allowed \in SUBSET (1..N), NEW closes,
           \A i \in allowed : closes[i] \in Int,
           NEW n \in 0..(N - 1), NEW trades, NEW nextEntry, NEW span,
           HonestSoFar(trades, nextEntry, span, allowed, closes, n),
           NEW trade \in Trades, n + 1 \in allowed,
           trade.entryTime = closes[n + 1], trade.entryTime >= nextEntry,
           trade.entryTime < trade.exitTime, InWindow(trade.entryTime, span)
    PROVE  HonestSoFar(trades \o <<trade>>, trade.exitTime, span, allowed, closes, n + 1)
<1>1. PICK entry, exit : entry = trade.entryTime /\ exit = trade.exitTime
  OBVIOUS
<1>2. PICK all : all = trades \o <<trade>>
  OBVIOUS
<1>3. PICK L : L = Len(trades)
  OBVIOUS
<1>4. trades \in Seq(Trades) /\ nextEntry \in Int
  BY DEF HonestSoFar
<1>5. L \in Nat /\ all \in Seq(Trades) /\ Len(all) = L + 1
  BY <1>2, <1>3, <1>4
<1>6. /\ \A j \in 1..L : all[j] = trades[j]
      /\ all[L + 1] = trade
  BY <1>2, <1>3, <1>4
<1>7. entry \in Int /\ exit \in Int /\ nextEntry <= entry /\ entry < exit
  BY <1>1, <1>4 DEF Trades
<1>8. \A j \in 1..L : /\ trades[j].entryTime \in Int /\ trades[j].exitTime \in Int
                      /\ trades[j].entryTime < trades[j].exitTime
                      /\ trades[j].exitTime <= nextEntry
                      /\ InWindow(trades[j].entryTime, span)
  <2>1. \A j \in 1..L : trades[j] \in Trades
    BY <1>3, <1>4
  <2>2. \A j \in 1..L : trades[j].entryTime \in Int /\ trades[j].exitTime \in Int
    BY <2>1 DEF Trades
  <2> QED BY <1>3, <2>2, Zenon DEF HonestSoFar
<1>9. HonestSoFar(trades, nextEntry, span, allowed, closes, n + 1)
  BY NoTradeOpened
<1>10. \A j \in 1..L :
          j <= Cardinality(ClosedAmong(allowed, closes, n + 1, trades[j].entryTime))
  BY <1>3, <1>9, Zenon DEF HonestSoFar
<1>11. L + 1 <= Cardinality(ClosedAmong(allowed, closes, n + 1, entry))
  <2>1. CASE L = 0
    <3>1. Cardinality(ClosedAmong(allowed, closes, n, entry)) + 1
             <= Cardinality(ClosedAmong(allowed, closes, n + 1, entry))
      BY <1>1, <1>7, ClosedAmongGrows
    <3>2. Cardinality(ClosedAmong(allowed, closes, n, entry)) \in Nat
      BY ClosedAmongGrows
    <3>3. Cardinality(ClosedAmong(allowed, closes, n + 1, entry)) \in Nat
      BY ClosedAmongGrows
    <3> QED BY <2>1, <3>1, <3>2, <3>3
  <2>2. CASE L # 0
    <3>1. PICK time : time = trades[L].entryTime
      OBVIOUS
    <3>2. L \in 1..L
      BY <1>5, <2>2
    <3>3. time \in Int /\ time <= entry
      <4>1. trades[L].exitTime \in Int /\ time < trades[L].exitTime
            /\ trades[L].exitTime <= nextEntry /\ time \in Int
        BY <1>8, <3>1, <3>2
      <4> QED BY <1>4, <1>7, <4>1
    <3>4. L <= Cardinality(ClosedAmong(allowed, closes, n, time))
      BY <1>3, <3>1, <3>2, Zenon DEF HonestSoFar
    <3>5. \A i \in allowed : closes[i] <= time => closes[i] <= entry
      BY <1>7, <3>3
    <3>6. /\ Cardinality(ClosedAmong(allowed, closes, n, time)) \in Nat
          /\ Cardinality(ClosedAmong(allowed, closes, n + 1, entry)) \in Nat
      BY <3>5, ClosedAmongGrows
    <3>7. Cardinality(ClosedAmong(allowed, closes, n, time)) + 1
             <= Cardinality(ClosedAmong(allowed, closes, n + 1, entry))
      BY <1>1, <1>7, <3>5, ClosedAmongGrows
    <3> QED BY <1>5, <3>4, <3>6, <3>7
  <2> QED BY <2>1, <2>2
<1>12. ASSUME NEW j \in 1..Len(all)
       PROVE  /\ all[j].entryTime < all[j].exitTime
              /\ all[j].exitTime <= exit
              /\ InWindow(all[j].entryTime, span)
              /\ j <= Cardinality(ClosedAmong(allowed, closes, n + 1, all[j].entryTime))
  <2>1. CASE j = L + 1
    <3>1. all[j] = trade
      BY <1>6, <2>1
    <3>2. exit <= exit
      BY <1>7
    <3> QED BY <1>1, <1>7, <1>11, <2>1, <3>1, <3>2, Zenon
  <2>2. CASE j # L + 1
    <3>1. j \in 1..L
      BY <1>5, <2>2
    <3>2. all[j] = trades[j]
      BY <1>6, <3>1
    <3>3. trades[j].exitTime <= exit
      BY <1>4, <1>7, <1>8, <3>1
    <3> QED BY <1>8, <1>10, <3>1, <3>2, <3>3, Zenon
  <2> QED BY <2>1, <2>2
<1>13. ASSUME NEW j \in 1..(Len(all) - 1)
       PROVE  all[j].exitTime <= all[j + 1].entryTime
  <2>1. j \in 1..L /\ all[j] = trades[j]
    BY <1>5, <1>6
  <2>2. CASE j = L
    <3>1. all[j + 1] = trade
      BY <1>6, <2>2
    <3>2. trades[j].exitTime <= entry
      BY <1>4, <1>7, <1>8, <2>1
    <3> QED BY <1>1, <2>1, <3>1, <3>2, Zenon
  <2>3. CASE j # L
    <3>1. j \in 1..(L - 1) /\ j + 1 \in 1..L
      BY <1>5, <2>1, <2>3
    <3>2. all[j + 1] = trades[j + 1]
      BY <1>6, <3>1
    <3>3. trades[j].exitTime <= trades[j + 1].entryTime
      BY <1>3, <3>1, Zenon DEF HonestSoFar
    <3> QED BY <2>1, <3>2, <3>3, Zenon
  <2> QED BY <2>2, <2>3
<1>14. HonestSoFar(all, exit, span, allowed, closes, n + 1)
  BY <1>5, <1>7, <1>12, <1>13, Zenon DEF HonestSoFar
<1> QED BY <1>1, <1>2, <1>14, Zenon

\* No trade of a backtest is entered while another is open, leaves the window,
\* or is entered before the regime state that opens it has closed, whatever
\* gaps the candles and the states of the history have (backtestRuleSeries in
\* internal/app/research/backtest.go).
THEOREM BacktestIsHonest ==
    ASSUME NEW spec, NEW span, NEW request, NEW series, ValidRequest(request),
           ValidSeries(series), span.windowStart \in Int, span.windowEnd \in Int
    PROVE  LET trades == BacktestSeries(spec, span, request, series)
           IN  trades \in Seq(Trades) /\ HonestSeries(spec, span, series, trades)
<1>1. PICK states : states = series.states
  OBVIOUS
<1>2. PICK N \in Nat : /\ N = Len(states) /\ DOMAIN states = 1..N
                       /\ \A i \in 1..N : states[i].closeTime \in Int
  BY <1>1 DEF ValidSeries
<1>3. PICK closes : closes = [i \in 1..N |-> states[i].closeTime]
  OBVIOUS
<1>4. \A i \in 1..N : closes[i] = states[i].closeTime /\ closes[i] \in Int
  BY <1>2, <1>3
<1>5. PICK allowed : allowed = {i \in 1..N : AllowsRegime(spec, states[i])}
  OBVIOUS
<1>6. PICK after :
        /\ BacktestAfter(spec, span, request, series) = after
        /\ after[0].trades = <<>> /\ after[0].nextEntry = span.windowStart
        /\ \A n \in 1..N : after[n] = BacktestState(spec, span, request, series,
                                                    after[n - 1], states[n])
  <2>1. Len(series.states) \in Nat
    BY <1>1, <1>2
  <2>2. \E after :
              /\ BacktestAfter(spec, span, request, series) = after
              /\ after[0].trades = <<>> /\ after[0].nextEntry = span.windowStart
              /\ \A n \in 1..Len(series.states) :
                    after[n] = BacktestState(spec, span, request, series, after[n - 1],
                                             series.states[n])
    BY <2>1, BacktestAfterDef
  <2> QED BY <1>1, <1>2, <2>2, Zenon
<1> DEFINE P == {n \in 0..N : HonestSoFar(after[n].trades, after[n].nextEntry, span,
                                          allowed, closes, n)}
<1>7. 0 \in P
  <2>1. after[0].trades = <<>> /\ after[0].nextEntry = span.windowStart
    BY <1>6
  <2>2. <<>> \in Seq(Trades) /\ Len(<<>>) = 0
    OBVIOUS
  <2>3. HonestSoFar(<<>>, span.windowStart, span, allowed, closes, 0)
    BY <2>2 DEF HonestSoFar
  <2>4. 0 \in 0..N
    BY <1>2
  <2> QED BY <2>1, <2>3, <2>4, Zenon
<1>8. ASSUME NEW n \in 0..(N - 1), n \in P
      PROVE  n + 1 \in P
  <2>1. n + 1 \in 1..N /\ n + 1 \in 0..N /\ (n + 1) - 1 = n
    BY <1>2
  <2>2. PICK sofar, state, next :
          sofar = after[n] /\ state = states[n + 1] /\ next = after[n + 1]
    OBVIOUS
  <2>3. HonestSoFar(sofar.trades, sofar.nextEntry, span, allowed, closes, n)
    BY <1>8, <2>2
  <2>4. next = BacktestState(spec, span, request, series, sofar, state)
    BY <1>6, <2>1, <2>2
  <2>5. allowed \in SUBSET (1..N) /\ \A i \in allowed : closes[i] \in Int
    BY <1>4, <1>5
  <2>6. PICK trades, nextEntry : trades = sofar.trades /\ nextEntry = sofar.nextEntry
    OBVIOUS
  <2>7. HonestSoFar(trades, nextEntry, span, allowed, closes, n)
    BY <2>3, <2>6
  <2>8. HonestSoFar(trades, nextEntry, span, allowed, closes, n + 1)
    BY <1>2, <2>5, <2>7, NoTradeOpened
  <2>9. HonestSoFar(next.trades, next.nextEntry, span, allowed, closes, n + 1)
    <3>1. CASE ~InWindow(state.closeTime, span) \/ ~AllowsRegime(spec, state)
      <4>1. next = sofar
        BY <2>4, <3>1 DEF BacktestState
      <4> QED BY <2>6, <2>8, <4>1, Zenon
    <3>2. CASE InWindow(state.closeTime, span) /\ AllowsRegime(spec, state)
      <4>1. PICK opened :
              opened = IF RulesPass(spec, state.features, sofar.previous)
                       THEN TradeOf(spec, span, request, series, state, nextEntry)
                       ELSE <<>>
        OBVIOUS
      <4>2. next = [trades |-> trades \o opened, previous |-> state.features,
                    nextEntry |-> IF opened = <<>> THEN nextEntry
                                  ELSE opened[1].exitTime]
        BY <2>4, <2>6, <3>2, <4>1, Zenon DEF BacktestState
      <4>3. trades \in Seq(Trades) /\ nextEntry \in Int
        BY <2>7 DEF HonestSoFar
      <4>4. state.closeTime \in Int /\ state.closeTime = closes[n + 1] /\ n + 1 \in allowed
        BY <1>4, <1>5, <2>1, <2>2, <3>2
      <4>5. \/ opened = <<>>
            \/ \E trade \in Trades :
                  /\ opened = <<trade>> /\ trade.entryTime = state.closeTime
                  /\ trade.entryTime >= nextEntry /\ trade.entryTime < trade.exitTime
        <5>1. \/ TradeOf(spec, span, request, series, state, nextEntry) = <<>>
              \/ \E trade \in Trades :
                    /\ TradeOf(spec, span, request, series, state, nextEntry) = <<trade>>
                    /\ trade.entryTime = state.closeTime
                    /\ trade.entryTime >= nextEntry /\ trade.entryTime < trade.exitTime
          BY <4>3, <4>4, TradeOfShape
        <5> QED BY <4>1, <5>1, Zenon
      <4>6. CASE opened = <<>>
        <5>1. next.trades = trades \o opened /\ next.nextEntry = nextEntry
          BY <4>2, <4>6
        <5>2. trades \o <<>> = trades
          BY <4>3
        <5> QED BY <2>8, <4>6, <5>1, <5>2, Zenon
      <4>7. ASSUME NEW trade \in Trades, opened = <<trade>>,
                   trade.entryTime = state.closeTime,
                   trade.entryTime >= nextEntry, trade.entryTime < trade.exitTime
            PROVE  HonestSoFar(next.trades, next.nextEntry, span, allowed, closes, n + 1)
        <5>1. next.trades = trades \o <<trade>> /\ next.nextEntry = trade.exitTime
          <6>1. opened # <<>> /\ opened[1] = trade
            BY <4>7
          <6> QED BY <4>2, <4>7, <6>1
        <5>2. InWindow(trade.entryTime, span) /\ trade.entryTime = closes[n + 1]
          BY <3>2, <4>4, <4>7, Zenon
        <5>3. HonestSoFar(trades \o <<trade>>, trade.exitTime, span, allowed, closes, n + 1)
          BY <1>2, <2>5, <2>7, <4>4, <4>7, <5>2, OneTradeOpened
        <5> QED BY <5>1, <5>3, Zenon
      <4> QED BY <4>5, <4>6, <4>7
    <3> QED BY <3>1, <3>2
  <2> QED BY <2>1, <2>2, <2>9, Zenon
<1>9. N \in P
  <2> HIDE DEF P
  <2>1. \A n \in 0..N : n \in P
    BY <1>7, <1>8, UpTo
  <2>2. N \in 0..N
    BY <1>2
  <2> QED BY <2>1, <2>2
<1>10. PICK trades : trades = after[N].trades
  OBVIOUS
<1>11. PICK last : HonestSoFar(trades, last, span, allowed, closes, N)
  BY <1>9, <1>10
<1>12. BacktestSeries(spec, span, request, series) = trades
  BY <1>1, <1>2, <1>6, <1>10 DEF BacktestSeries
<1>13. \A time : ClosedBy(spec, series, time) = ClosedAmong(allowed, closes, N, time)
  <2>1. \A i \in 1..N : i <= N
    BY <1>2
  <2> QED BY <1>1, <1>2, <1>4, <1>5, <2>1, Zenon DEF ClosedBy, ClosedAmong
<1>14. HonestSeries(spec, span, series, trades)
  BY <1>11, <1>13, Zenon DEF HonestSoFar, HonestSeries
<1>15. trades \in Seq(Trades)
  BY <1>11 DEF HonestSoFar
<1> QED BY <1>12, <1>14, <1>15

(***************************************************************************)
(* The metrics.                                                            *)
(***************************************************************************)
\* Where the metrics of a backtest come from.
LEMMA MetricsOfTrades ==
    ASSUME NEW coverage, NEW trades, NEW span, NEW request, NEW policy
    PROVE  LET metrics == BacktestMetrics(coverage, trades, span, request, policy)
               all == Summarize(request.equity, trades, DOMAIN trades)
               before == Summarize(request.equity, trades, InSample(trades, request.split))
               after == Summarize(request.equity, trades,
                                  OutOfSample(trades, request.split))
           IN  /\ metrics.trades = all.trades /\ metrics.netPnL = all.netPnL
               /\ metrics.foldTrades # 0 =>
                     /\ request.folds # 0
                     /\ metrics.foldTrades =
                           Total([i \in 1..request.folds |->
                                    FoldSummary(trades, span, request, i).trades])
               /\ metrics.outOfSample =>
                     /\ metrics.inSampleTrades = before.trades
                     /\ metrics.inSampleNetPnL = before.netPnL
                     /\ metrics.outOfSampleTrades = after.trades
                     /\ metrics.outOfSampleNetPnL = after.netPnL
<1>1. PICK all, before, after, count, passed :
        /\ all = Summarize(request.equity, trades, DOMAIN trades)
        /\ before = Summarize(request.equity, trades, InSample(trades, request.split))
        /\ after = Summarize(request.equity, trades, OutOfSample(trades, request.split))
        /\ count = Total([i \in 1..request.folds |->
                            FoldSummary(trades, span, request, i).trades])
        /\ passed = PassedFolds(coverage, trades, span, request, policy)
  OBVIOUS
<1>2. PICK first : first = SummaryMetrics(coverage, all)
  OBVIOUS
<1>3. /\ first.trades = all.trades /\ first.netPnL = all.netPnL
      /\ first.foldTrades = 0 /\ first.outOfSample = FALSE
      /\ {"trades", "netPnL", "foldTrades", "outOfSample", "inSampleTrades",
          "inSampleNetPnL", "outOfSampleTrades", "outOfSampleNetPnL",
          "outOfSampleProfit", "outOfSampleLoss", "outOfSampleDrawdown",
          "walkForward", "folds", "passedFolds"} \subseteq DOMAIN first
  BY <1>2 DEF SummaryMetrics
<1>4. PICK second : second = WithSplit(first, trades, request)
  OBVIOUS
<1>5. /\ DOMAIN second = DOMAIN first
      /\ second.trades = all.trades /\ second.netPnL = all.netPnL
      /\ second.foldTrades = 0
      /\ second.outOfSample =>
            /\ second.inSampleTrades = before.trades
            /\ second.inSampleNetPnL = before.netPnL
            /\ second.outOfSampleTrades = after.trades
            /\ second.outOfSampleNetPnL = after.netPnL
  <2>1. CASE request.split = 0
    <3>1. second = first
      BY <1>4, <2>1 DEF WithSplit
    <3> QED BY <1>3, <3>1
  <2>2. CASE request.split # 0
    <3>1. second = [first EXCEPT
                !.outOfSample = TRUE,
                !.inSampleTrades = before.trades, !.inSampleNetPnL = before.netPnL,
                !.outOfSampleTrades = after.trades,
                !.outOfSampleNetPnL = after.netPnL,
                !.outOfSampleProfit = after.grossProfit,
                !.outOfSampleLoss = after.grossLoss,
                !.outOfSampleDrawdown = after.drawdown]
      BY <1>1, <1>4, <2>2, Zenon DEF WithSplit
    <3> QED BY <1>3, <3>1
  <2> QED BY <2>1, <2>2
<1>6. PICK third : third = BacktestMetrics(coverage, trades, span, request, policy)
  OBVIOUS
<1>7. third = WithFolds(second, coverage, trades, span, request, policy)
  BY <1>1, <1>2, <1>4, <1>6, Zenon DEF BacktestMetrics
<1>8. /\ third.trades = all.trades /\ third.netPnL = all.netPnL
      /\ third.foldTrades # 0 => request.folds # 0 /\ third.foldTrades = count
      /\ third.outOfSample =>
            /\ third.inSampleTrades = before.trades
            /\ third.inSampleNetPnL = before.netPnL
            /\ third.outOfSampleTrades = after.trades
            /\ third.outOfSampleNetPnL = after.netPnL
  <2>1. CASE request.folds = 0
    <3>1. third = second
      BY <1>7, <2>1 DEF WithFolds
    <3> QED BY <1>5, <3>1, Zenon
  <2>2. CASE request.folds # 0
    <3>1. third = [second EXCEPT
                !.walkForward = passed = 1..request.folds,
                !.folds = request.folds,
                !.passedFolds = Cardinality(passed),
                !.foldTrades = IF policy.enabled THEN count ELSE 0]
      BY <1>1, <1>7, <2>2, Zenon DEF WithFolds
    <3>2. {"trades", "netPnL", "foldTrades", "outOfSample", "inSampleTrades",
           "inSampleNetPnL", "outOfSampleTrades", "outOfSampleNetPnL"}
             \subseteq DOMAIN second
      BY <1>3, <1>5
    <3>3. third.trades = second.trades /\ third.netPnL = second.netPnL
      BY <3>1, <3>2
    <3>4. third.outOfSample = second.outOfSample
      BY <3>1, <3>2
    <3>5. /\ third.inSampleTrades = second.inSampleTrades
          /\ third.inSampleNetPnL = second.inSampleNetPnL
      BY <3>1, <3>2
    <3>6. /\ third.outOfSampleTrades = second.outOfSampleTrades
          /\ third.outOfSampleNetPnL = second.outOfSampleNetPnL
      BY <3>1, <3>2
    <3>7. third.foldTrades = 0 \/ third.foldTrades = count
      BY <3>1, <3>2
    <3> QED BY <1>5, <2>2, <3>3, <3>4, <3>5, <3>6, <3>7, Zenon
  <2> QED BY <2>1, <2>2
<1> QED BY <1>1, <1>6, <1>8, Zenon

\* The metrics of a backtest are of its trades and no others.
LEMMA OneAccountOfTrades ==
    ASSUME NEW coverage, NEW trades, NEW span, NEW request, NEW policy, NEW seqs,
           trades = FlattenSeq(seqs), trades \in Seq(Trades), ValidRequest(request),
           span.windowStart \in Int, span.windowEnd \in Int,
           \A i \in DOMAIN trades : InWindow(trades[i].entryTime, span)
    PROVE  OneAccount(BacktestMetrics(coverage, trades, span, request, policy), seqs)
<1>1. PICK metrics : metrics = BacktestMetrics(coverage, trades, span, request, policy)
  OBVIOUS
<1>2. PICK all, before, after, count :
        /\ all = Summarize(request.equity, trades, DOMAIN trades)
        /\ before = Summarize(request.equity, trades, InSample(trades, request.split))
        /\ after = Summarize(request.equity, trades, OutOfSample(trades, request.split))
        /\ count = Total([i \in 1..request.folds |->
                            FoldSummary(trades, span, request, i).trades])
  OBVIOUS
<1>3. PICK equity, split, folds :
        equity = request.equity /\ split = request.split /\ folds = request.folds
  OBVIOUS
<1>4. /\ all = Summarize(equity, trades, DOMAIN trades)
      /\ before = Summarize(equity, trades, InSample(trades, split))
      /\ after = Summarize(equity, trades, OutOfSample(trades, split))
  BY <1>2, <1>3, Zenon
<1>5. /\ metrics.trades = all.trades /\ metrics.netPnL = all.netPnL
      /\ metrics.foldTrades # 0 => folds # 0 /\ metrics.foldTrades = count
      /\ metrics.outOfSample =>
            /\ metrics.inSampleTrades = before.trades
            /\ metrics.inSampleNetPnL = before.netPnL
            /\ metrics.outOfSampleTrades = after.trades
            /\ metrics.outOfSampleNetPnL = after.netPnL
  <2>1. /\ metrics.trades = all.trades /\ metrics.netPnL = all.netPnL
        /\ metrics.foldTrades # 0 => request.folds # 0 /\ metrics.foldTrades = count
        /\ metrics.outOfSample =>
              /\ metrics.inSampleTrades = before.trades
              /\ metrics.inSampleNetPnL = before.netPnL
              /\ metrics.outOfSampleTrades = after.trades
              /\ metrics.outOfSampleNetPnL = after.netPnL
    BY <1>1, <1>2, MetricsOfTrades
  <2> QED BY <1>3, <2>1, Zenon
<1>6. split \in Int /\ folds \in Nat
  BY <1>3 DEF ValidRequest
<1>7. /\ all.trades = Len(trades)
      /\ all.netPnL = Total([i \in DOMAIN trades |-> trades[i].netPnL])
  BY <1>4, AllKept
<1>8. all.trades = before.trades + after.trades /\ all.netPnL = before.netPnL + after.netPnL
  BY <1>4, <1>6, SplitIsAllTrades
<1>9. folds # 0 => count = Len(trades)
  <2>1. folds # 0 => request.folds \in Nat \ {0}
    BY <1>3, <1>6
  <2>2. folds # 0 => Total([i \in 1..request.folds |->
                        FoldSummary(trades, span, request, i).trades]) = Len(trades)
    BY <2>1, FoldsAreAllTrades
  <2> QED BY <1>2, <1>3, <2>2, Zenon
<1>10. metrics.foldTrades \in {0, metrics.trades}
  BY <1>5, <1>7, <1>9
<1>11. metrics.outOfSample =>
              /\ metrics.trades = metrics.inSampleTrades + metrics.outOfSampleTrades
              /\ metrics.netPnL = metrics.inSampleNetPnL + metrics.outOfSampleNetPnL
  BY <1>5, <1>8, Zenon
<1>12. OneAccount(metrics, seqs)
  BY <1>5, <1>7, <1>10, <1>11, Zenon DEF OneAccount
<1> QED BY <1>1, <1>12

\* A backtest that is not made for want of history reports no trade.
LEMMA OneAccountOfNone ==
    ASSUME NEW coverage, NEW equity
    PROVE  OneAccount(SummaryMetrics(coverage, Summarize(equity, <<>>, {})), <<>>)
<1>1. PICK none : none = <<>>
  OBVIOUS
<1>2. none \in Seq(Trades) /\ Len(none) = 0 /\ DOMAIN none = {}
  BY <1>1
<1>3. PICK all : all = FlattenSeq(none)
  OBVIOUS
<1>4. all = none
  <2>1. Len(none) \in Nat /\ none = [i \in 1..Len(none) |-> none[i]]
    BY <1>1
  <2>2. FlattenSeq(none) = none
    <3>1. all \in Seq({})
      BY <1>2, <1>3, <2>1, FlattenSeqType
    <3>2. all = <<>>
      BY <3>1
    <3> QED BY <1>1, <1>3, <3>2
  <2> QED BY <1>3, <2>2
<1>5. PICK empty : empty = DOMAIN none
  OBVIOUS
<1>6. PICK summary : summary = Summarize(equity, none, empty)
  OBVIOUS
<1>7. /\ summary.trades = Len(none)
      /\ summary.netPnL = Total([i \in DOMAIN none |-> none[i].netPnL])
  BY <1>2, <1>5, <1>6, AllKept
<1>8. PICK metrics : metrics = SummaryMetrics(coverage, summary)
  OBVIOUS
<1>9. /\ metrics.trades = summary.trades /\ metrics.netPnL = summary.netPnL
      /\ metrics.foldTrades = 0 /\ metrics.outOfSample = FALSE
  BY <1>8 DEF SummaryMetrics
<1>10. OneAccount(metrics, none)
  BY <1>3, <1>4, <1>7, <1>9, Zenon DEF OneAccount
<1> QED BY <1>1, <1>2, <1>5, <1>6, <1>8, <1>10, Zenon

\* The trades of each series are honest, and all of them are trades of the window.
LEMMA GeneratedTrades ==
    ASSUME NEW spec, NEW span, NEW request, NEW sample,
           ValidRequest(request), span.windowStart \in Int, span.windowEnd \in Int,
           Len(sample) \in Nat, DOMAIN sample = 1..Len(sample),
           \A i \in DOMAIN sample : ValidSeries(sample[i])
    PROVE  LET seqs == SeriesTrades(spec, span, request, sample)
               all == GenerateTrades(spec, span, request, sample)
           IN  /\ DOMAIN seqs = DOMAIN sample
               /\ \A i \in DOMAIN seqs : HonestSeries(spec, span, sample[i], seqs[i])
               /\ all \in Seq(Trades)
               /\ \A i \in DOMAIN all : InWindow(all[i].entryTime, span)
<1>1. PICK seqs, all :
        /\ seqs = SeriesTrades(spec, span, request, sample)
        /\ all = GenerateTrades(spec, span, request, sample)
  OBVIOUS
<1>2. PICK N \in Nat : N = Len(sample) /\ DOMAIN sample = 1..N
  <2>1. Len(sample) \in Nat /\ DOMAIN sample = 1..Len(sample)
    OBVIOUS
  <2> QED BY <2>1, Zenon
<1>3. PICK T : T = {trade \in Trades : InWindow(trade.entryTime, span)}
  OBVIOUS
<1>4. seqs = [i \in 1..N |-> BacktestSeries(spec, span, request, sample[i])]
  BY <1>1, <1>2 DEF SeriesTrades
<1>5. Len(seqs) = N /\ DOMAIN seqs = 1..N /\ seqs = [i \in 1..N |-> seqs[i]]
  BY <1>4
<1>6. ASSUME NEW i \in 1..N
      PROVE  seqs[i] \in Seq(Trades) /\ HonestSeries(spec, span, sample[i], seqs[i])
  <2>1. PICK series : series = sample[i] /\ ValidSeries(series)
    BY <1>2
  <2>2. seqs[i] = BacktestSeries(spec, span, request, series)
    BY <1>4, <2>1
  <2>3. /\ BacktestSeries(spec, span, request, series) \in Seq(Trades)
        /\ HonestSeries(spec, span, series, BacktestSeries(spec, span, request, series))
    BY <2>1, BacktestIsHonest
  <2> QED BY <2>1, <2>2, <2>3, Zenon
<1>7. ASSUME NEW i \in 1..N
      PROVE  seqs[i] \in Seq(T)
  <2>1. PICK trades : trades = seqs[i]
    OBVIOUS
  <2>2. trades \in Seq(Trades)
    BY <1>6, <2>1
  <2>3. \A j \in 1..Len(trades) : InWindow(trades[j].entryTime, span)
    BY <1>6, <2>1, Zenon DEF HonestSeries
  <2>4. \A j \in 1..Len(trades) : trades[j] \in T
    <3>1. \A j \in 1..Len(trades) : trades[j] \in Trades
      BY <2>2
    <3> QED BY <1>3, <2>3, <3>1, Zenon
  <2>5. trades \in Seq(T)
    BY <2>2, <2>4
  <2> QED BY <2>1, <2>5
<1>8. all \in Seq(T)
  <2>1. Len(seqs) \in Nat /\ seqs = [i \in 1..Len(seqs) |-> seqs[i]]
    BY <1>5
  <2>2. \A i \in 1..Len(seqs) : seqs[i] \in Seq(T)
    BY <1>5, <1>7
  <2>3. all = FlattenSeq(seqs)
    BY <1>1 DEF GenerateTrades
  <2> QED BY <2>1, <2>2, <2>3, FlattenSeqType
<1>9. all \in Seq(Trades) /\ \A i \in DOMAIN all : InWindow(all[i].entryTime, span)
  <2>1. Len(all) \in Nat /\ DOMAIN all = 1..Len(all) /\ \A i \in 1..Len(all) : all[i] \in T
    BY <1>8
  <2>2. \A i \in 1..Len(all) : all[i] \in Trades /\ InWindow(all[i].entryTime, span)
    BY <1>3, <2>1, Zenon
  <2>3. all \in Seq(Trades)
    BY <1>8, <2>1, <2>2
  <2> QED BY <2>1, <2>2, <2>3, Zenon
<1>10. DOMAIN seqs = DOMAIN sample
       /\ \A i \in DOMAIN seqs : HonestSeries(spec, span, sample[i], seqs[i])
  BY <1>2, <1>5, <1>6, Zenon
<1> QED BY <1>1, <1>9, <1>10, Zenon

\* What a backtest reports is of honest trades of its own, all of them: its
\* metrics, its split and its folds count each trade of each series once
\* (BacktestRules and backtestMetrics in internal/app/research/backtest.go).
THEOREM ResultIsHonest ==
    ASSUME NEW spec, NEW span, NEW request, NEW policy, NEW sample,
           ValidRequest(request), span.windowStart \in Int, span.windowEnd \in Int,
           Len(sample) \in Nat, DOMAIN sample = 1..Len(sample),
           \A i \in DOMAIN sample : ValidSeries(sample[i])
    PROVE  LET made == BacktestResult(spec, span, request, policy, sample)
               trades == IF Covered(Coverage(span, sample), request)
                         THEN SeriesTrades(spec, span, request, sample) ELSE <<>>
           IN  /\ \A i \in DOMAIN trades :
                     HonestSeries(spec, span, sample[i], trades[i])
               /\ OneAccount(made.metrics, trades)
<1>1. PICK coverage, made, trades, seqs :
        /\ coverage = Coverage(span, sample)
        /\ made = BacktestResult(spec, span, request, policy, sample)
        /\ seqs = SeriesTrades(spec, span, request, sample)
        /\ trades = IF Covered(coverage, request) THEN seqs ELSE <<>>
  OBVIOUS
<1>2. CASE Covered(coverage, request)
  <2>1. PICK all : all = GenerateTrades(spec, span, request, sample)
    OBVIOUS
  <2>2. /\ \A i \in DOMAIN seqs : HonestSeries(spec, span, sample[i], seqs[i])
        /\ all \in Seq(Trades) /\ \A i \in DOMAIN all : InWindow(all[i].entryTime, span)
    BY <1>1, <2>1, GeneratedTrades
  <2>3. all = FlattenSeq(seqs)
    BY <1>1, <2>1 DEF GenerateTrades
  <2>4. OneAccount(BacktestMetrics(coverage, all, span, request, policy), seqs)
    BY <2>2, <2>3, OneAccountOfTrades
  <2>5. made.metrics = BacktestMetrics(coverage, all, span, request, policy)
    BY <1>1, <1>2, <2>1 DEF BacktestResult
  <2>6. trades = seqs
    BY <1>1, <1>2
  <2> QED BY <1>1, <2>2, <2>4, <2>5, <2>6, Zenon
<1>3. CASE ~Covered(coverage, request)
  <2>1. trades = <<>> /\ DOMAIN trades = {}
    BY <1>1, <1>3
  <2>2. PICK equity : equity = request.equity
    OBVIOUS
  <2>3. OneAccount(SummaryMetrics(coverage, Summarize(equity, <<>>, {})), <<>>)
    BY OneAccountOfNone
  <2>4. made.metrics = SummaryMetrics(coverage, Summarize(equity, <<>>, {}))
    BY <1>1, <1>3, <2>2 DEF BacktestResult
  <2>5. OneAccount(made.metrics, trades)
    BY <2>1, <2>3, <2>4, Zenon
  <2> QED BY <1>1, <2>1, <2>5, Zenon
<1> QED BY <1>2, <1>3

\* The gates of the configuration.
GatePolicies ==
    [enabled : BOOLEAN, minTrades : Nat, minProfitFactor : Nat, minExpectancy : Nat,
     maxDrawdownPct : 0..Whole, requireCosts : BOOLEAN, requireOutOfSample : BOOLEAN,
     requireWalkForward : BOOLEAN, requireRegimeAnalysis : BOOLEAN]

\* Numbers that are all at least some number add up to at least so many times it.
LEMMA TotalAtLeast ==
    ASSUME NEW numbers, NEW least \in Nat, Len(numbers) \in Nat,
           \A n \in 1..Len(numbers) : numbers[n] \in Nat /\ numbers[n] >= least
    PROVE  Total(numbers) >= Len(numbers) * least
<1>1. PICK N \in Nat : N = Len(numbers)
  OBVIOUS
<1>2. PICK sum : /\ Total(numbers) = sum[N] /\ sum[0] = 0
                 /\ \A n \in 1..N : sum[n] = sum[n - 1] + numbers[n]
  BY <1>1, TotalDef
<1> DEFINE P == {n \in 0..N : sum[n] \in Nat /\ sum[n] >= n * least}
<1>3. 0 \in P
  BY <1>2
<1>4. ASSUME NEW n \in 0..(N - 1), n \in P
      PROVE  n + 1 \in P
  <2>1. n + 1 \in 1..N /\ n + 1 \in 0..N /\ (n + 1) - 1 = n
    OBVIOUS
  <2>2. PICK before, added, after :
          before = sum[n] /\ added = numbers[n + 1] /\ after = sum[n + 1]
    OBVIOUS
  <2>3. /\ before \in Nat /\ before >= n * least
        /\ added \in Nat /\ added >= least /\ after = before + added
    BY <1>1, <1>2, <1>4, <2>1, <2>2
  <2>4. (n + 1) * least = n * least + least
    OBVIOUS
  <2>5. after \in Nat /\ after >= (n + 1) * least
    <3>1. PICK bound \in Nat : bound = n * least
      OBVIOUS
    <3> QED BY <2>3, <2>4, <3>1
  <2> QED BY <2>1, <2>2, <2>5
<1> HIDE DEF P
<1>5. \A n \in 0..N : n \in P
  BY <1>3, <1>4, UpTo
<1>6. N \in P
  BY <1>5
<1> QED BY <1>1, <1>2, <1>6 DEF P

\* Metrics say that the walk-forward passed only if there are folds and every
\* one of them passed its gates.
LEMMA WalkForwardMeans ==
    ASSUME NEW coverage, NEW trades, NEW span, NEW request, NEW policy,
           BacktestMetrics(coverage, trades, span, request, policy).walkForward
    PROVE  /\ request.folds # 0
           /\ PassedFolds(coverage, trades, span, request, policy) = 1..request.folds
<1>1. PICK all, before, after, passed :
        /\ all = Summarize(request.equity, trades, DOMAIN trades)
        /\ before = Summarize(request.equity, trades, InSample(trades, request.split))
        /\ after = Summarize(request.equity, trades, OutOfSample(trades, request.split))
        /\ passed = PassedFolds(coverage, trades, span, request, policy)
  OBVIOUS
<1>2. PICK first : first = SummaryMetrics(coverage, all)
  OBVIOUS
<1>3. /\ first.walkForward = FALSE
      /\ {"outOfSample", "inSampleTrades", "inSampleNetPnL", "outOfSampleTrades",
          "outOfSampleNetPnL", "outOfSampleProfit", "outOfSampleLoss",
          "outOfSampleDrawdown", "walkForward", "folds", "passedFolds",
          "foldTrades"} \subseteq DOMAIN first
  BY <1>2 DEF SummaryMetrics
<1>4. PICK second : second = WithSplit(first, trades, request)
  OBVIOUS
<1>5. DOMAIN second = DOMAIN first /\ second.walkForward = FALSE
  <2>1. CASE request.split = 0
    <3>1. second = first
      BY <1>4, <2>1 DEF WithSplit
    <3> QED BY <1>3, <3>1
  <2>2. CASE request.split # 0
    <3>1. second = [first EXCEPT
                !.outOfSample = TRUE,
                !.inSampleTrades = before.trades, !.inSampleNetPnL = before.netPnL,
                !.outOfSampleTrades = after.trades,
                !.outOfSampleNetPnL = after.netPnL,
                !.outOfSampleProfit = after.grossProfit,
                !.outOfSampleLoss = after.grossLoss,
                !.outOfSampleDrawdown = after.drawdown]
      BY <1>1, <1>4, <2>2, Zenon DEF WithSplit
    <3>2. DOMAIN second = DOMAIN first
      BY <3>1
    <3>3. second.walkForward = first.walkForward
      BY <1>3, <3>1
    <3> QED BY <1>3, <3>2, <3>3, Zenon
  <2> QED BY <2>1, <2>2
<1>6. PICK third : third = BacktestMetrics(coverage, trades, span, request, policy)
  OBVIOUS
<1>7. third = WithFolds(second, coverage, trades, span, request, policy)
  BY <1>1, <1>2, <1>4, <1>6, Zenon DEF BacktestMetrics
<1>8. third.walkForward
  BY <1>6
<1>9. request.folds # 0
  <2>1. request.folds = 0 => third = second
    BY <1>7 DEF WithFolds
  <2> QED BY <1>5, <1>8, <2>1
<1>10. PICK count :
         third = [second EXCEPT
                !.walkForward = passed = 1..request.folds,
                !.folds = request.folds,
                !.passedFolds = Cardinality(passed),
                !.foldTrades = count]
  BY <1>1, <1>7, <1>9, Zenon DEF WithFolds
<1>11. third.walkForward = (passed = 1..request.folds)
  BY <1>3, <1>5, <1>10
<1> QED BY <1>1, <1>8, <1>9, <1>11

\* A hypothesis becomes a candidate only if its trades pass every gate in every
\* fold of the window, and so only with that many times the least number of
\* trades: no single good stretch carries the others (DecideResultFromGates in
\* internal/research/gates.go, summarizeBacktestWalkForward).
THEOREM CandidatesEarnEveryFold ==
    ASSUME NEW spec, NEW span, NEW request, NEW policy \in GatePolicies, NEW sample,
           ValidRequest(request), span.windowStart \in Int, span.windowEnd \in Int,
           Len(sample) \in Nat, DOMAIN sample = 1..Len(sample),
           \A i \in DOMAIN sample : ValidSeries(sample[i]),
           policy.requireWalkForward,
           BacktestResult(spec, span, request, policy, sample).outcome = "CANDIDATE"
    PROVE  LET trades == GenerateTrades(spec, span, request, sample)
               coverage == Coverage(span, sample)
           IN  /\ request.folds >= 2
               /\ \A k \in 1..request.folds :
                     GatesPass(SummaryMetrics(coverage,
                                              FoldSummary(trades, span, request, k)),
                               FoldPolicy(policy))
               /\ Len(trades) >= request.folds * policy.minTrades
<1>1. PICK trades, coverage, metrics :
        /\ trades = GenerateTrades(spec, span, request, sample)
        /\ coverage = Coverage(span, sample)
        /\ metrics = BacktestMetrics(coverage, trades, span, request, policy)
  OBVIOUS
<1>2. Decide(metrics, policy) = "CANDIDATE"
  BY <1>1 DEF BacktestResult
<1>3. metrics.walkForward
  BY <1>2 DEF Decide, GatesPass
<1>4. /\ request.folds # 0
      /\ PassedFolds(coverage, trades, span, request, policy) = 1..request.folds
  BY <1>1, <1>3, WalkForwardMeans
<1>5. PICK F \in Nat : F = request.folds /\ F >= 2
  BY <1>4 DEF ValidRequest
<1>6. ASSUME NEW k \in 1..F
      PROVE  GatesPass(SummaryMetrics(coverage, FoldSummary(trades, span, request, k)),
                       FoldPolicy(policy))
  <2>1. k \in PassedFolds(coverage, trades, span, request, policy)
    BY <1>4, <1>5
  <2> QED BY <2>1, Zenon DEF PassedFolds
<1>7. PICK least \in Nat : least = policy.minTrades
  BY DEF GatePolicies
<1>8. trades \in Seq(Trades) /\ \A i \in DOMAIN trades : InWindow(trades[i].entryTime, span)
  BY <1>1, GeneratedTrades
<1>9. PICK counts :
        counts = [k \in 1..request.folds |-> FoldSummary(trades, span, request, k).trades]
  OBVIOUS
<1>10. ASSUME NEW k \in 1..F
       PROVE  counts[k] \in Nat /\ counts[k] >= least
  <2>1. PICK summary : summary = FoldSummary(trades, span, request, k)
    OBVIOUS
  <2>2. summary.trades \in Nat
    BY <1>8, <2>1, SummaryType DEF FoldSummary
  <2>3. PICK made, gates :
          made = SummaryMetrics(coverage, summary) /\ gates = FoldPolicy(policy)
    OBVIOUS
  <2>4. made.trades = summary.trades
    BY <2>3 DEF SummaryMetrics
  <2>5. gates.minTrades = least
    BY <1>7, <2>3 DEF FoldPolicy, GatePolicies
  <2>6. made.trades >= gates.minTrades
    BY <1>6, <2>1, <2>3, Zenon DEF GatesPass
  <2>7. counts[k] = summary.trades
    BY <1>5, <1>9, <2>1
  <2> QED BY <2>2, <2>4, <2>5, <2>6, <2>7
<1>11. Len(counts) = F
  BY <1>5, <1>9
<1>12. Total(counts) >= F * least
  BY <1>10, <1>11, TotalAtLeast
<1>13. Total(counts) = Len(trades)
  <2>1. request.folds \in Nat \ {0}
    BY <1>5
  <2> QED BY <1>8, <1>9, <2>1, FoldsAreAllTrades
<1> QED BY <1>1, <1>5, <1>6, <1>7, <1>12, <1>13
=============================================================================
