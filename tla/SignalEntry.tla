----------------------------- MODULE SignalEntry -----------------------------
(***************************************************************************)
(* From a hypothesis to a simulated entry (internal/strategy,              *)
(* internal/app/strategy, internal/app/research, internal/app/hypothesis   *)
(* and their PostgreSQL repositories): a hypothesis is imported, a run is  *)
(* scheduled and its result recorded, a candidate is planned for paper     *)
(* validation and started, a reviewer grants a strategy on that evidence,  *)
(* the strategy records a signal, and a submission evaluates the signal,   *)
(* orders it and fills the order.                                          *)
(*                                                                         *)
(* Every command is a process of its own and nothing but the database      *)
(* relates them, so whatever a command read may have changed when it       *)
(* writes: the hypothesis may be imported again, the result recorded       *)
(* again, the validation stopped, the grant revoked, the Kill Switch       *)
(* turned.  Commands run as Workers: a step that reads and decides what to *)
(* write, and a step for each transaction that writes.  Reads that a step  *)
(* makes one after another are taken together.  There is one hypothesis    *)
(* version, one run and one validation, so their identifiers are left out  *)
(* of the records.  A tick of the clock is longer than the freshness       *)
(* limits the runs choose.                                                 *)
(***************************************************************************)
EXTENDS RiskEngine, Strategies, Backtest, FiniteSets

CONSTANTS
    Workers, Signals, Approvals,
    Contents,             \* files a hypothesis can be imported from (their hash)
    Specs,                \* what the file of each content says
    Datasets,             \* states of the stored history a backtest can meet
    Stored,               \* the series of each
    Requests,             \* parameters of a backtest
    WindowEnd,            \* the run covers candles 0..WindowEnd-1
    GatePolicy,           \* research gates of the configuration
    RiskPolicy,           \* risk policy of the configuration
    SelectionPolicy,
    StrategyConfig,
    StrategyNames, Scopes,
    Markets,              \* closed candles and features a strategy can meet
    RiskContexts,         \* accounts and quotes a submission can be made with
    Executions,           \* simulated prices and costs of a fill
    MinApprovalTrades,    \* 100 in the code
    MaxQuantity,          \* bound of the model, for SignalDecision
    MaxClock, MaxChanges  \* bounds of the model

ASSUME EntryAssumption ==
    /\ DOMAIN Specs = Contents /\ DOMAIN Stored = Datasets
    /\ ValidGatePolicy(GatePolicy) /\ ValidPolicy(RiskPolicy)
    /\ \A request \in Requests : ValidRequest(request)
    /\ {WindowEnd, MinApprovalTrades} \subseteq Nat \ {0}
    /\ {MaxQuantity, MaxClock, MaxChanges} \subseteq Nat

\* Each data set of the history is a sequence of well-formed series.
ASSUME HistoryAssumption ==
    \A dataset \in Datasets :
        LET sample == Stored[dataset]
        IN  /\ Len(sample) \in Nat /\ DOMAIN sample = 1..Len(sample)
            /\ \A i \in DOMAIN sample : ValidSeries(sample[i])

\* The strategies accept their configuration, and the units are fine enough for
\* the prices they compute.
ASSUME StrategyAssumption ==
    /\ ValidStrategies(StrategyConfig)
    /\ \A market \in Markets : ExactContext(market, StrategyConfig)

\* What the steps fill in is there to be filled in, and no instrument takes an
\* order above the bound.
ASSUME ContextAssumption ==
    /\ \A market \in Markets : {"observedAt", "approval", "regime"} \subseteq DOMAIN market
    /\ \A context \in RiskContexts :
          /\ {"dataTime", "instrument"} \subseteq DOMAIN context.market
          /\ context.market.instrument.maxOrderQuantity \in 0..MaxQuantity

VARIABLES
    clock,
    changes,      \* disturbances so far: bound of the model
    killSwitch,
    hypothesis,   \* hypotheses, research_runs, research_results and
    run, result,  \* paper_validation_records: None or the row
    validation,
    approval,     \* paper_strategy_approvals
    signal,       \* strategy_signals
    evaluation,   \* risk_decisions with paper_signal_risk_evaluations
    ticket, fill, \* paper_order_tickets, paper_order_fills
    worker        \* what a command in progress has decided to write

research == <<hypothesis, run, result, validation>>
entry == <<signal, evaluation, ticket, fill>>
vars == <<clock, changes, killSwitch, research, approval, entry, worker>>

None == [row |-> "absent"]
Idle == [at |-> "idle"]
Times == 0..MaxClock

\* Something that happens to the evidence or the permission of others.
Disturb == changes < MaxChanges /\ changes' = changes + 1

(***************************************************************************)
(* The evidence behind a grant.                                            *)
(***************************************************************************)
ConservativePolicy(policy) ==
    /\ policy.enabled /\ policy.minTrades >= MinApprovalTrades
    /\ policy.minProfitFactor > Unit /\ policy.minExpectancy > 0
    /\ policy.maxDrawdownPct > 0
    /\ policy.requireCosts /\ policy.requireOutOfSample
    /\ policy.requireWalkForward /\ policy.requireRegimeAnalysis

StrategyFits(strategyName, spec) ==
    CASE strategyName = "trend" ->
           \/ "TREND_UP" \in spec.allowed /\ spec.direction # "SHORT"
           \/ "TREND_DOWN" \in spec.allowed /\ spec.direction # "LONG"
      [] strategyName = "mean_reversion" -> "RANGE" \in spec.allowed
      [] strategyName = "breakout" -> "BREAKOUT_SETUP" \in spec.allowed
      [] OTHER -> FALSE

IsCandidate ==
    /\ run # None /\ result # None
    /\ run.status = "COMPLETED" /\ result.status = "COMPLETED"
    /\ result.outcome = "CANDIDATE"

\* The gates again, on the stored metrics and with the stricter number of
\* trades, and what they do not ask of the part after the split.
EarnsApproval(metrics, policy) ==
    /\ GatesPass(metrics, policy)
    /\ metrics.folds > 0 /\ metrics.passedFolds = metrics.folds
    /\ metrics.foldTrades > 0
    /\ metrics.outOfSampleLoss > 0
    /\ ProfitFactorReaches(metrics.outOfSampleProfit, metrics.outOfSampleLoss,
                           policy.minProfitFactor)
    /\ metrics.outOfSampleNetPnL > 0
    /\ DrawdownWithin(metrics.outOfSampleDrawdown, policy.maxDrawdownPct)

\* The rows a grant rests on, as they are now, still justify it at a time.
CheckPaperApprovalEvidence(grant, at) ==
    /\ ConservativePolicy(GatePolicy)
    /\ hypothesis # None /\ validation # None /\ IsCandidate
    /\ validation.status = "RUNNING"
    /\ LET spec == Specs[hypothesis.content]
       IN  /\ StrategyFits(grant.strategyName, spec)
           /\ grant.hash = hypothesis.content /\ run.hash = hypothesis.content
           /\ grant.scope \in run.scopes \cap spec.scopes
           /\ EarnsApproval(result.metrics, [GatePolicy EXCEPT
                !.minTrades = Greater(GatePolicy.minTrades, spec.minTrades)])
    /\ grant.grantedAt <= at /\ validation.startedAt <= at
    /\ hypothesis.importedAt <= at /\ run.plannedAt <= at
    /\ result.recordedAt \in run.plannedAt..validation.plannedAt
    /\ validation.plannedAt <= at

\* What Resolve hands to the caller: the limits are those of the hypothesis.
ApprovalSnapshot(a) ==
    LET grant == approval[a]
        spec == Specs[grant.hash]
    IN  [id |-> a, hash |-> grant.hash, strategyName |-> grant.strategyName,
         scope |-> grant.scope, mode |-> "PAPER", direction |-> spec.direction,
         maxRiskPct |-> spec.maxRiskPct, minConfidence |-> spec.minConfidence,
         enabled |-> TRUE, edgeDecayed |-> FALSE]

ResolvePaperAuthorization(a, at, scope, regime) ==
    /\ approval[a] # None /\ ~approval[a].revoked
    /\ CheckPaperApprovalEvidence(approval[a], at)
    /\ approval[a].scope = scope
    /\ LET spec == Specs[approval[a].hash] IN regime \in spec.allowed \ spec.blocked

(***************************************************************************)
(* Hypotheses, runs and validations.                                       *)
(***************************************************************************)
\* An import replaces the stored file of the same name and version.
ImportAndStore(content) ==
    /\ IF hypothesis = None THEN UNCHANGED changes ELSE Disturb
    /\ hypothesis' = [content |-> content, importedAt |-> clock]
    /\ UNCHANGED <<clock, killSwitch, run, result, validation, approval, entry, worker>>

\* A command has read and will write.
Prepare(w, job) ==
    /\ worker[w] = Idle
    /\ worker' = [worker EXCEPT ![w] = job]
    /\ UNCHANGED <<clock, changes, killSwitch, research, approval, entry>>

Schedule(w) ==
    /\ hypothesis # None /\ run = None
    /\ Prepare(w, [at |-> "schedule",
          run |-> [hash |-> hypothesis.content, status |-> "PLANNED",
                   scopes |-> Specs[hypothesis.content].scopes, plannedAt |-> clock,
                   windowStart |-> 0, windowEnd |-> WindowEnd]])

\* Its identifier is new: a second run would be another one.
UpsertRuns(w) ==
    /\ worker[w].at = "schedule"
    /\ run' = IF run = None THEN worker[w].run ELSE run
    /\ worker' = [worker EXCEPT ![w] = Idle]
    /\ UNCHANGED <<clock, changes, killSwitch, hypothesis, result, validation,
                   approval, entry>>

\* With a record of the plan.
ValidateCandidate(w) ==
    /\ validation = None /\ IsCandidate
    /\ result.metrics.outOfSample /\ result.metrics.walkForward
    /\ result.metrics.regimeAnalysis /\ result.metrics.costsIncluded
    /\ Prepare(w, [at |-> "plan", validation |->
          [status |-> "PLANNED", plannedAt |-> clock, startedAt |-> -1]])

RecordValidation(w) ==
    /\ worker[w].at = "plan"
    /\ validation' = IF validation = None THEN worker[w].validation ELSE validation
    /\ worker' = [worker EXCEPT ![w] = Idle]
    /\ UNCHANGED <<clock, changes, killSwitch, hypothesis, run, result, approval, entry>>

StartValidation(w) ==
    /\ validation # None /\ validation.status = "PLANNED" /\ IsCandidate
    /\ Prepare(w, [at |-> "start", startedAt |-> clock])

\* The UPDATE names the status the command saw, not the result behind it.
TransitionValidation(w) ==
    /\ worker[w].at = "start"
    /\ validation' = IF validation.status = "PLANNED"
                     THEN [validation EXCEPT !.status = "RUNNING",
                                             !.startedAt = worker[w].startedAt]
                     ELSE validation
    /\ worker' = [worker EXCEPT ![w] = Idle]
    /\ UNCHANGED <<clock, changes, killSwitch, hypothesis, run, result, approval, entry>>

\* One step: the UPDATE rechecks all that was read.  When a validation may
\* complete is the subject of PaperLedger.
StopValidation ==
    /\ validation # None /\ validation.status \in {"PLANNED", "RUNNING"}
    /\ Disturb
    /\ \E status \in {"COMPLETED", "CANCELLED"} :
          /\ status = "COMPLETED" => validation.status = "RUNNING"
          /\ validation' = [validation EXCEPT !.status = status]
    /\ UNCHANGED <<clock, killSwitch, hypothesis, run, result, approval, entry, worker>>

(***************************************************************************)
(* A recorder of results reads the run (and its hypothesis), computes, and *)
(* writes both rows in one transaction.  Only what it read is checked: the *)
(* UPDATE names the run and nothing else.                                  *)
(***************************************************************************)
IsOpen == run # None /\ run.status \notin FinalStatuses

\* loadRunHypothesis: the imported file must still be that of the run.
RunHypothesisLoaded == hypothesis # None /\ hypothesis.content = run.hash

\* Fault: what the validator refuses is recorded.
StartRecordUnvalidated(w, kind, dataset, made, trades) ==
    /\ worker[w] = Idle
    /\ run.status \in FinalStatuses => run.status = made.status
    /\ worker' = [worker EXCEPT ![w] =
          [at |-> "record", kind |-> kind, dataset |-> dataset, result |-> made,
           trades |-> trades, since |-> clock]]
    /\ UNCHANGED <<clock, killSwitch, research, approval, entry>>

StartRecord(w, kind, dataset, made, trades) ==
    /\ worker[w] = Idle
    /\ ValidResult(made)
    /\ run.status \in FinalStatuses => run.status = made.status   \* FinalizeRun
    /\ worker' = [worker EXCEPT ![w] =
          [at |-> "record", kind |-> kind, dataset |-> dataset, result |-> made,
           trades |-> trades, since |-> clock]]
    /\ UNCHANGED <<clock, killSwitch, research, approval, entry>>

BacktestRules(w) ==
    /\ IsOpen /\ RunHypothesisLoaded
    /\ \E request \in Requests, dataset \in Datasets :
          LET spec == Specs[hypothesis.content]
              sample == Stored[dataset]
          IN  /\ ValidSplit(request.split, run)
              /\ StartRecord(w, "backtest", dataset,
                     BacktestResult(spec, run, request, GatePolicy, sample),
                     IF Covered(Coverage(run, sample), request)
                     THEN SeriesTrades(spec, run, request, sample) ELSE <<>>)
    /\ UNCHANGED changes

\* A dry run asks only for the run, a rule evaluation also for its hypothesis.
DryRun(w) ==
    /\ IsOpen
    /\ \E request \in Requests, dataset \in Datasets :
          StartRecord(w, "dry_run", dataset,
                      NoTradeResult(run, request, Stored[dataset]), <<>>)
    /\ UNCHANGED changes

\* What differs from a dry run is only said in the summary of the result.
EvaluateRules(w) == IsOpen /\ RunHypothesisLoaded /\ DryRun(w)

\* The result an operator states: here that the run was given up, or what is
\* recorded already.
RecordStatedResult(w) ==
    /\ run # None /\ Disturb
    /\ \E dataset \in Datasets, request \in Requests :
          \/ StartRecord(w, "stated", dataset,
                 [NoTradeResult(run, request, Stored[dataset]) EXCEPT
                    !.status = "CANCELLED", !.outcome = "NOT_EXECUTED"], <<>>)
          \/ /\ result # None
             /\ StartRecord(w, "stated", dataset,
                    [status |-> result.status, outcome |-> result.outcome,
                     metrics |-> result.metrics], <<>>)

RecordResult(w) ==
    /\ worker[w].at = "record"
    /\ LET made == worker[w].result
       IN  /\ run' = [run EXCEPT !.status = made.status]
           /\ \E at \in worker[w].since..clock :
                 result' = [status |-> made.status, outcome |-> made.outcome,
                            metrics |-> made.metrics, recordedAt |-> at]
    /\ worker' = [worker EXCEPT ![w] = Idle]
    /\ UNCHANGED <<clock, changes, killSwitch, hypothesis, validation, approval, entry>>

(***************************************************************************)
(* Grants.                                                                 *)
(***************************************************************************)
GrantPaper(w, a) ==
    /\ approval[a] = None /\ hypothesis # None
    /\ \E strategyName \in StrategyNames, scope \in Scopes :
          LET grant == [strategyName |-> strategyName, scope |-> scope,
                        hash |-> hypothesis.content, grantedAt |-> clock,
                        revoked |-> FALSE]
          IN  /\ CheckPaperApprovalEvidence(grant, clock)
              /\ Prepare(w, [at |-> "grant", approval |-> a, grant |-> grant])

RecordPaperApproval(w) ==
    /\ worker[w].at = "grant"
    /\ LET a == worker[w].approval
       IN  approval' = IF approval[a] = None
                       THEN [approval EXCEPT ![a] = worker[w].grant] ELSE approval
    /\ worker' = [worker EXCEPT ![w] = Idle]
    /\ UNCHANGED <<clock, changes, killSwitch, research, entry>>

Revoke(a) ==
    /\ approval[a] # None /\ ~approval[a].revoked /\ Disturb
    /\ approval' = [approval EXCEPT ![a].revoked = TRUE]
    /\ UNCHANGED <<clock, killSwitch, research, entry, worker>>

(***************************************************************************)
(* Signals.  The evaluation time is the caller's and may lie in the past;  *)
(* a signal that exists is compared and never replaced.                    *)
(***************************************************************************)
MarketContext(market, a, now, observedAt, closeTime) ==
    [market EXCEPT !.now = now, !.observedAt = observedAt,
        !.regime.closeTime = closeTime, !.regime.calculatedAt = observedAt,
        !.approval = ApprovalSnapshot(a), !.killSwitchActive = killSwitch]

GenerateAndRecord(w, s, a) ==
    /\ signal[s] = None
    /\ \E market \in Markets, now \in 0..clock :
         \E observedAt \in 0..now, closeTime \in 0..now :
           LET m == MarketContext(market, a, now, observedAt, closeTime)
               made == GenerateSignal(m, SelectionPolicy, StrategyConfig)
           IN  /\ ResolvePaperAuthorization(a, now, market.regime.scope,
                                            market.regime.name)
               /\ made.type # "NO_TRADE" =>
                     GeometryValid(made.side, made.entryPrice, made.stopLoss,
                                   made.takeProfit)
               /\ Prepare(w, [at |-> "signal", signal |-> s, row |->
                     [proposal |-> made, approval |-> a, hash |-> approval[a].hash,
                      regime |-> market.regime.name, scope |-> market.regime.scope,
                      recordedAt |-> clock]])

RecordSignal(w) ==
    /\ worker[w].at = "signal"
    /\ LET s == worker[w].signal
       IN  signal' = IF signal[s] = None
                     THEN [signal EXCEPT ![s] = worker[w].row] ELSE signal
    /\ worker' = [worker EXCEPT ![w] = Idle]
    /\ UNCHANGED <<clock, changes, killSwitch, research, approval, evaluation,
                   ticket, fill>>

(***************************************************************************)
(* A submission.  The limits of the intent are those of the grant as it is *)
(* now, its confidence the lower of the signal's and the regime's, and the *)
(* age of the data that of the oldest of quote, signal and candle: neither *)
(* a new quote nor a recalculation makes an old signal fresh.              *)
(***************************************************************************)
\* Fault: the age is that of the quote.
OldestQuoted(quoteTime, observedAt, closeTime, now) == quoteTime

Oldest(quoteTime, observedAt, closeTime, now) ==
    IF quoteTime > now THEN quoteTime
    ELSE Lesser(quoteTime, Lesser(observedAt, closeTime))

RiskIntent(trade, snapshot, confidence) ==
    [identified |-> TRUE, explained |-> TRUE,
     hypothesisApproved |-> snapshot.enabled,
     symbol |-> snapshot.scope, side |-> trade.side,
     confidence |-> Lesser(trade.confidence, confidence),
     entryPrice |-> trade.entryPrice, stopLoss |-> trade.stopLoss,
     takeProfit |-> trade.takeProfit, leverage |-> 1,
     hypothesisMaxRiskPct |-> snapshot.maxRiskPct,
     hypothesisMinConfidence |-> snapshot.minConfidence,
     createdAt |-> trade.createdAt]

\* The evaluation of a signal with an account and a quote.
Candidate(s, a, context, closeTime, quoteTime) ==
    LET trade == signal[s].proposal
        input == [intent |-> RiskIntent(trade, ApprovalSnapshot(a), context.confidence),
                  account |-> context.account,
                  market |-> [context.market EXCEPT !.dataTime =
                      Oldest(quoteTime, trade.observedAt, closeTime, clock)],
                  runtime |-> [context.runtime EXCEPT !.killSwitchActive = killSwitch],
                  evaluatedAt |-> clock]
    IN  [approval |-> a, regime |-> signal[s].regime, scope |-> signal[s].scope,
         closeTime |-> closeTime, input |-> input,
         decision |-> Evaluate(input, RiskPolicy)]

ValidatePaperRiskEvaluation(e) ==
    LET input == e.input
    IN  /\ input.runtime.mode = "PAPER" /\ RiskPolicy.allowedMode = "PAPER"
        /\ ValidPolicy(RiskPolicy)
        /\ input.intent.createdAt <= input.evaluatedAt
        /\ e.closeTime <= input.evaluatedAt
        /\ e.decision = Evaluate(input, RiskPolicy)
        /\ ValidAuditRecord(NewAuditRecord(input, e.decision))

\* The same request, whenever it was evaluated ...
SamePaperRiskRequest(e, f) ==
    [e EXCEPT !.input.evaluatedAt = 0, !.decision = None]
      = [f EXCEPT !.input.evaluatedAt = 0, !.decision = None]

\* ... and with the same outcome.
EquivalentPaperRiskEvaluation(e, f) ==
    /\ SamePaperRiskRequest(e, f)
    /\ [e.decision EXCEPT !.createdAt = 0] = [f.decision EXCEPT !.createdAt = 0]

RequireFreshPaperRisk(e, at) ==
    /\ at >= e.decision.createdAt
    /\ DataFresh(e.input.market.dataTime, at, RiskPolicy)

\* The order an approved evaluation allows, if the grant has not changed.
SignalTicketAllowed(e, snapshot, at) ==
    LET intent == e.input.intent
    IN  /\ e.decision.approved /\ snapshot.id = e.approval
        /\ snapshot.scope = e.scope
        /\ snapshot.maxRiskPct = intent.hypothesisMaxRiskPct
        /\ snapshot.minConfidence = intent.hypothesisMinConfidence
        /\ DirectionFits(snapshot, intent.side)
        /\ e.decision.createdAt <= at

NewPaperSignalTicket(e, at) ==
    [approval |-> e.approval, side |-> e.input.intent.side,
     quantity |-> e.decision.finalQuantity,
     entryPrice |-> e.input.intent.entryPrice,
     stopLoss |-> e.decision.stopLoss, takeProfit |-> e.decision.takeProfit,
     maxLoss |-> e.decision.maxLoss, createdAt |-> at]

CheckPaperSignalTicket(t, e, snapshot) ==
    /\ SignalTicketAllowed(e, snapshot, t.createdAt)
    /\ t = NewPaperSignalTicket(e, t.createdAt)

\* A rejected evaluation ends the command.
Proceed(w, s, e) ==
    worker' = [worker EXCEPT ![w] =
        IF e.decision.approved
        THEN [at |-> "order", signal |-> s, evaluation |-> e] ELSE Idle]

Evaluated(w, s, e) ==
    IF evaluation[s] # None
    THEN /\ SamePaperRiskRequest(evaluation[s], e)
         /\ evaluation[s].decision.createdAt <= clock
         /\ evaluation[s].decision.approved    \* else nothing happens
         /\ Proceed(w, s, evaluation[s])
    ELSE /\ ValidatePaperRiskEvaluation(e)
         /\ worker' = [worker EXCEPT ![w] =
               [at |-> "save", signal |-> s, evaluation |-> e]]

EvaluateStoredSignal(w, s) ==
    /\ worker[w] = Idle
    /\ signal[s] # None /\ signal[s].proposal.type # "NO_TRADE"
    /\ signal[s].recordedAt <= clock
    /\ LET a == signal[s].approval
       IN  /\ ResolvePaperAuthorization(a, clock, signal[s].scope, signal[s].regime)
           /\ approval[a].hash = signal[s].hash
           /\ DirectionFits(ApprovalSnapshot(a), signal[s].proposal.side)
           /\ \E context \in RiskContexts, closeTime \in 0..clock, quoteTime \in Times :
                 Evaluated(w, s, Candidate(s, a, context, closeTime, quoteTime))
    /\ UNCHANGED <<clock, changes, killSwitch, research, approval, entry>>

\* Fault: the evaluation of another command is overwritten.
SaveOverwriting(w) ==
    /\ worker[w].at = "save"
    /\ LET s == worker[w].signal
           e == worker[w].evaluation
       IN  /\ evaluation' = [evaluation EXCEPT ![s] = e]
           /\ Proceed(w, s, e)
    /\ UNCHANGED <<clock, changes, killSwitch, research, approval, signal, ticket, fill>>

\* Under the advisory lock of the signal: what is there stays.
SavePaperRiskEvaluation(w) ==
    /\ worker[w].at = "save"
    /\ LET s == worker[w].signal
           e == worker[w].evaluation
       IN  IF evaluation[s] = None
           THEN /\ evaluation' = [evaluation EXCEPT ![s] = e]
                /\ Proceed(w, s, e)
           ELSE /\ UNCHANGED evaluation
                /\ IF /\ EquivalentPaperRiskEvaluation(evaluation[s], e)
                      /\ evaluation[s].decision.createdAt <= e.input.evaluatedAt
                   THEN Proceed(w, s, evaluation[s])
                   ELSE worker' = [worker EXCEPT ![w] = Idle]
    /\ UNCHANGED <<clock, changes, killSwitch, research, approval, signal, ticket, fill>>

\* Submit resolves the grant again, looks for the order and prepares one.
OrderSignal(w) ==
    /\ worker[w].at = "order"
    /\ LET s == worker[w].signal
           e == worker[w].evaluation
           snapshot == ApprovalSnapshot(e.approval)
       IN  worker' = [worker EXCEPT ![w] =
             IF /\ ResolvePaperAuthorization(e.approval, clock, e.scope, e.regime)
                /\ ticket[s] = None
                /\ RequireFreshPaperRisk(e, clock)
                /\ SignalTicketAllowed(e, snapshot, clock)
             THEN [at |-> "ticket", signal |-> s,
                   ticket |-> NewPaperSignalTicket(e, clock)]
             ELSE Idle]
    /\ UNCHANGED <<clock, changes, killSwitch, research, approval, entry>>

RecordOrderTicket(w) ==
    /\ worker[w].at = "ticket"
    /\ LET s == worker[w].signal
       IN  ticket' = IF ticket[s] = None
                     THEN [ticket EXCEPT ![s] = worker[w].ticket] ELSE ticket
    /\ worker' = [worker EXCEPT ![w] = Idle]
    /\ UNCHANGED <<clock, changes, killSwitch, research, approval, signal,
                   evaluation, fill>>

(***************************************************************************)
(* The fill.  The check before it bounds the loss at the stop with the     *)
(* entry fee; the INSERT holds the grant and the validation it rests on.   *)
(***************************************************************************)
EntryLoss(t, execution) ==
    Distance(execution.price, t.stopLoss) * t.quantity + execution.fee

CheckPaperSignalFillBudget(e, t, execution) ==
    /\ execution.price > 0 /\ execution.fee >= 0
    /\ execution.spreadBPS \in 0..RiskPolicy.maxSpreadBPS
    /\ execution.slippageBPS \in 0..RiskPolicy.maxSlippageBPS
    /\ GeometryValid(t.side, execution.price, t.stopLoss, t.takeProfit)
    /\ EntryLoss(t, execution) * Whole
          <= RiskBudget(e.input.intent, e.input.account, RiskPolicy)

AuthorizePaperEntry(w, s) ==
    /\ worker[w] = Idle
    /\ ticket[s] # None /\ fill[s] = None
    /\ validation.status = "RUNNING" /\ ~killSwitch
    /\ RequireFreshPaperRisk(evaluation[s], clock)
    /\ ResolvePaperAuthorization(ticket[s].approval, clock, evaluation[s].scope,
                                 evaluation[s].regime)
    /\ CheckPaperSignalTicket(ticket[s], evaluation[s],
                              ApprovalSnapshot(ticket[s].approval))
    /\ \E execution \in Executions, filledAt \in ticket[s].createdAt..clock :
          /\ CheckPaperSignalFillBudget(evaluation[s], ticket[s], execution)
          /\ worker' = [worker EXCEPT ![w] =
                [at |-> "fill", signal |-> s,
                 fill |-> [price |-> execution.price, fee |-> execution.fee,
                           quantity |-> ticket[s].quantity, filledAt |-> filledAt]]]
    /\ UNCHANGED <<clock, changes, killSwitch, research, approval, entry>>

\* Fault: the INSERT relies on the authorization before it.
SourceAuthorized(s) == TRUE

\* The condition of the INSERT, which locks both rows.
EligibleSignalSource(s) ==
    ~approval[evaluation[s].approval].revoked /\ validation.status = "RUNNING"

RecordOrderFill(w) ==
    /\ worker[w].at = "fill"
    /\ LET s == worker[w].signal
       IN  fill' = IF EligibleSignalSource(s) /\ fill[s] = None
                   THEN [fill EXCEPT ![s] = worker[w].fill] ELSE fill
    /\ worker' = [worker EXCEPT ![w] = Idle]
    /\ UNCHANGED <<clock, changes, killSwitch, research, approval, signal,
                   evaluation, ticket>>

(***************************************************************************)
(* The rest of the world.                                                  *)
(***************************************************************************)
Crash(w) ==
    /\ worker[w] # Idle /\ Disturb
    /\ worker' = [worker EXCEPT ![w] = Idle]
    /\ UNCHANGED <<clock, killSwitch, research, approval, entry>>

ToggleKillSwitch ==
    /\ Disturb /\ killSwitch' = ~killSwitch
    /\ UNCHANGED <<clock, research, approval, entry, worker>>

Tick ==
    /\ clock < MaxClock /\ clock' = clock + 1
    /\ UNCHANGED <<changes, killSwitch, research, approval, entry, worker>>

Init ==
    /\ clock = 0 /\ changes = 0 /\ killSwitch = FALSE
    /\ hypothesis = None /\ run = None /\ result = None /\ validation = None
    /\ approval = [a \in Approvals |-> None]
    /\ signal = [s \in Signals |-> None] /\ evaluation = [s \in Signals |-> None]
    /\ ticket = [s \in Signals |-> None] /\ fill = [s \in Signals |-> None]
    /\ worker = [w \in Workers |-> Idle]

Research ==
    \/ \E content \in Contents : ImportAndStore(content)
    \/ StopValidation
    \/ \E w \in Workers :
          \/ Schedule(w) \/ UpsertRuns(w)
          \/ BacktestRules(w) \/ DryRun(w) \/ EvaluateRules(w)
          \/ RecordStatedResult(w) \/ RecordResult(w)
          \/ ValidateCandidate(w) \/ RecordValidation(w)
          \/ StartValidation(w) \/ TransitionValidation(w)

Entry ==
    \/ \E a \in Approvals : Revoke(a)
    \/ \E w \in Workers, a \in Approvals :
          GrantPaper(w, a) \/ \E s \in Signals : GenerateAndRecord(w, s, a)
    \/ \E w \in Workers, s \in Signals :
          EvaluateStoredSignal(w, s) \/ AuthorizePaperEntry(w, s)
    \/ \E w \in Workers : \/ RecordPaperApproval(w) \/ RecordSignal(w)
                          \/ SavePaperRiskEvaluation(w) \/ OrderSignal(w)
                          \/ RecordOrderTicket(w) \/ RecordOrderFill(w) \/ Crash(w)

Next == Research \/ Entry \/ ToggleKillSwitch \/ Tick

Spec == Init /\ [][Next]_vars

-----------------------------------------------------------------------------
(***************************************************************************)
(* Properties.                                                             *)
(***************************************************************************)
Rows(set) == {None} \union set

\* Types of the tables; no time in them is of the future and a result is one
\* the validator accepts.
TypeOK ==
    /\ clock \in Times /\ changes \in 0..MaxChanges /\ killSwitch \in BOOLEAN
    /\ hypothesis \in Rows([content : Contents, importedAt : 0..clock])
    /\ run \in Rows([hash : Contents, status : {"PLANNED"} \union FinalStatuses,
                     scopes : {Specs[content].scopes : content \in Contents},
                     plannedAt : 0..clock, windowStart : {0}, windowEnd : {WindowEnd}])
    /\ result # None => ValidResult(result) /\ result.recordedAt \in 0..clock
    /\ validation \in Rows([status : {"PLANNED", "RUNNING", "COMPLETED", "CANCELLED"},
                            plannedAt : 0..clock, startedAt : -1..clock])
    /\ approval \in [Approvals ->
          Rows([strategyName : StrategyNames, scope : Scopes, hash : Contents,
                grantedAt : 0..clock, revoked : BOOLEAN])]
    /\ \A table \in {signal, evaluation, ticket, fill} : DOMAIN table = Signals
    /\ DOMAIN worker = Workers

\* Each row of the evidence has the rows before it; what a grant rests on was
\* measured on the hypothesis it is for and its validation has started.
EvidenceKept ==
    /\ run # None => hypothesis # None
    /\ result # None => /\ run # None /\ result.status = run.status
                        /\ result.recordedAt >= run.plannedAt
    /\ validation # None =>
          /\ result # None
          /\ validation.startedAt \in {-1} \union validation.plannedAt..clock
    /\ \A a \in Approvals : approval[a] # None =>
          /\ validation # None /\ validation.status # "PLANNED"
          /\ approval[a].grantedAt >= validation.startedAt
          /\ run.hash = approval[a].hash

SignalOK(row) ==
    /\ row.approval \in Approvals /\ approval[row.approval] # None
    /\ row.recordedAt \in 0..clock
    /\ row.proposal.type # "NO_TRADE" => row.proposal.observedAt \in 0..clock

EvaluationOK(s, e) ==
    /\ e # None /\ signal[s] # None /\ signal[s].proposal.type # "NO_TRADE"
    /\ e.approval = signal[s].approval /\ e.regime = signal[s].regime
    /\ ValidatePaperRiskEvaluation(e)
    /\ e.decision.approved =>
          /\ e.decision.finalQuantity \in 1..MaxQuantity
          /\ e.input.market.dataTime \in 0..signal[s].proposal.observedAt

TicketOK(t, e) ==
    /\ e # None /\ e.decision.approved
    /\ t.approval = e.approval /\ t.quantity = e.decision.finalQuantity
    /\ t.createdAt \in 0..clock

\* A fill of a signal, written or about to be.
EntryIsBounded(s, f) ==
    LET e == evaluation[s]
        grant == approval[ticket[s].approval]
        spec == Specs[grant.hash]
    IN  /\ e.decision.approved /\ f.quantity = e.decision.finalQuantity
        /\ EntryLoss(ticket[s], f) * Whole
              <= e.input.account.equity
                    * Lesser(RiskPolicy.riskPerTradePct, spec.maxRiskPct)
        /\ f.filledAt - signal[s].proposal.observedAt <= RiskPolicy.maxDataAge
        /\ signal[s].regime \in spec.allowed \ spec.blocked
        /\ DirectionFits(spec, ticket[s].side)
        /\ run.hash = grant.hash

\* The rows about to be written for a plan, a validation and a grant.
NewRuns == [hash : Contents, status : {"PLANNED"},
            scopes : {Specs[content].scopes : content \in Contents},
            plannedAt : 0..clock, windowStart : {0}, windowEnd : {WindowEnd}]
NewValidations == [status : {"PLANNED"}, plannedAt : 0..clock, startedAt : {-1}]
NewGrants == [strategyName : StrategyNames, scope : Scopes, hash : {run.hash},
              grantedAt : 0..clock, revoked : {FALSE}]

\* What a command in progress decided is still consistent with the tables.
JobOK(job) ==
    \/ job = Idle
    \/ job.at = "schedule" /\ hypothesis # None /\ job.run \in NewRuns
    \/ /\ job.at = "record" /\ run # None
       /\ job.since \in run.plannedAt..clock /\ ValidResult(job.result)
    \/ job.at = "plan" /\ result # None /\ job.validation \in NewValidations
    \/ /\ job.at = "start" /\ validation # None
       /\ job.startedAt \in validation.plannedAt..clock
    \/ /\ job.at = "grant" /\ job.approval \in Approvals
       /\ validation # None /\ validation.status # "PLANNED"
       /\ job.grant \in NewGrants /\ job.grant.grantedAt >= validation.startedAt
    \/ job.at = "signal" /\ job.signal \in Signals /\ SignalOK(job.row)
    \/ job.at = "save" /\ job.signal \in Signals /\ EvaluationOK(job.signal, job.evaluation)
    \/ /\ job.at = "order" /\ job.signal \in Signals
       /\ job.evaluation # None /\ job.evaluation = evaluation[job.signal]
       /\ job.evaluation.decision.approved
    \/ /\ job.at = "ticket" /\ job.signal \in Signals
       /\ TicketOK(job.ticket, evaluation[job.signal])
    \/ /\ job.at = "fill" /\ job.signal \in Signals /\ ticket[job.signal] # None
       /\ EntryIsBounded(job.signal, job.fill)

\* From a signal to an entry every row follows from the one before it.
ChainKept ==
    \A s \in Signals :
        /\ signal[s] # None => SignalOK(signal[s])
        /\ evaluation[s] # None => EvaluationOK(s, evaluation[s])
        /\ ticket[s] # None => TicketOK(ticket[s], evaluation[s])
        /\ fill[s] # None => ticket[s] # None /\ EntryIsBounded(s, fill[s])

JobsKept == \A w \in Workers : JobOK(worker[w])

\* The inductive invariant of the proofs.
IInv == TypeOK /\ EvidenceKept /\ ChainKept /\ JobsKept

\* What a backtest is about to record is honest: on each series no trade is
\* entered while another is open or outside the window of the run, none is
\* entered before a state that allows it has closed (no look-ahead: at any
\* time there are at most as many trades as such states), and the metrics,
\* the split and the folds are of these trades and no others
\* (internal/app/research/backtest.go, internal/backtest/metrics.go).
TradesAreHonest ==
    \A w \in Workers :
        worker[w].at = "record" /\ worker[w].kind = "backtest" =>
            LET trades == worker[w].trades
                sample == Stored[worker[w].dataset]
            IN  /\ \A i \in DOMAIN trades :
                      HonestSeries(Specs[run.hash], run, sample[i], trades[i])
                /\ OneAccount(worker[w].result.metrics, trades)

\* No simulated entry is written once its grant is revoked or its validation
\* has ended, however long ago the command that writes it was authorized
\* (internal/storage/postgres/paper_order_fill_repository.go;
\* docs/implementation-status.md: the write itself rechecks the grant).
NoEntryAfterRevocation ==
    [][\A s \in Signals : fill'[s] # fill[s] =>
          /\ ~approval[ticket[s].approval].revoked
          /\ validation.status = "RUNNING"]_vars

\* An entry loses at its stop, fee included, no more than the share of the
\* equity that both the configuration and the granted hypothesis allow; it is
\* of a decision that approved just that quantity, on a signal no older than
\* the freshness limit however new the quote was, in a regime and a direction
\* the granted hypothesis trades, and that hypothesis is the one the run
\* measured.
EntriesAreBounded ==
    \A s \in Signals : fill[s] # None => EntryIsBounded(s, fill[s])

\* What the tables say of a signal, in the terms of SignalDecision.
Book == [s \in Signals |->
    [decision |-> IF evaluation[s] = None THEN "none"
                  ELSE IF evaluation[s].decision.approved THEN "approved"
                       ELSE "rejected",
     allowed |-> IF evaluation[s] = None THEN 0
                 ELSE evaluation[s].decision.finalQuantity,
     ordered |-> IF ticket[s] = None THEN 0 ELSE ticket[s].quantity,
     entered |-> IF fill[s] = None THEN 0 ELSE fill[s].quantity]]

\* The pipeline implements what is promised of a signal: one decision that
\* stays, an order of what it approved, one entry of that order, with
\* submissions repeated and interleaved as they may be
\* (internal/app/strategy/paper_entry.go and the three tables it writes).
Decisions == INSTANCE SignalDecision WITH book <- Book

EntryImplemented == Decisions!Spec
=============================================================================
