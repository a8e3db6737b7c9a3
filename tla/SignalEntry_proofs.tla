-------------------------- MODULE SignalEntry_proofs --------------------------
(***************************************************************************)
(* Proofs about SignalEntry, for every number of commands, signals and     *)
(* grants, every hypothesis, history, policy and account.                  *)
(***************************************************************************)
EXTENDS SignalEntry, PipelineParts_proofs, TLAPS

(***************************************************************************)
(* What no step takes back: rows stay, and of the rows that change the     *)
(* parts that other rows were checked against do not.                      *)
(***************************************************************************)
RunStays == run # None =>
    /\ run' # None /\ run'.hash = run.hash /\ run'.plannedAt = run.plannedAt

ValidationStays == validation # None =>
    /\ validation' # None /\ validation'.plannedAt = validation.plannedAt
    /\ validation.status # "PLANNED" =>
          /\ validation'.status # "PLANNED"
          /\ validation'.startedAt = validation.startedAt

GrantsStay == \A a \in Approvals : approval[a] # None =>
    approval'[a] # None /\ approval'[a].hash = approval[a].hash

RowsStay == \A s \in Signals :
    /\ signal[s] # None => signal'[s] = signal[s]
    /\ evaluation[s] # None => evaluation'[s] = evaluation[s]
    /\ ticket[s] # None => ticket'[s] = ticket[s]

Grows ==
    /\ clock' \in clock..MaxClock
    /\ hypothesis # None => hypothesis' # None
    /\ result # None => result' # None
    /\ RunStays /\ ValidationStays /\ GrantsStay /\ RowsStay

\* The rest of a row of the chain is about rows that stay.
LEMMA SignalKept ==
    ASSUME IInv, Grows, NEW row, SignalOK(row)
    PROVE  SignalOK(row)'
<1>1. clock \in Nat /\ clock' \in Nat /\ clock <= clock'
  BY EntryAssumption DEF IInv, TypeOK, Times, Grows
<1>2. row.approval \in Approvals /\ approval'[row.approval] # None
  BY DEF SignalOK, Grows, GrantsStay
<1> QED BY <1>1, <1>2 DEF SignalOK

LEMMA EvaluationKept ==
    ASSUME IInv, Grows, NEW s \in Signals, NEW e, EvaluationOK(s, e)
    PROVE  EvaluationOK(s, e)'
<1>1. signal[s] # None /\ signal'[s] = signal[s]
  BY DEF EvaluationOK, Grows, RowsStay
<1> QED BY <1>1 DEF EvaluationOK, ValidatePaperRiskEvaluation

LEMMA TicketKept ==
    ASSUME IInv, Grows, NEW t, NEW e, TicketOK(t, e)
    PROVE  TicketOK(t, e)'
<1>1. clock \in Nat /\ clock' \in Nat /\ clock <= clock'
  BY EntryAssumption DEF IInv, TypeOK, Times, Grows
<1> QED BY <1>1 DEF TicketOK

\* An order leads back to a grant whose evidence is there.
LEMMA OrderHasGrant ==
    ASSUME IInv, NEW s \in Signals, ticket[s] # None
    PROVE  /\ evaluation[s] # None /\ signal[s] # None
           /\ ticket[s].approval = evaluation[s].approval
           /\ ticket[s].approval \in Approvals
           /\ approval[ticket[s].approval] # None
           /\ run # None
<1>1. TicketOK(ticket[s], evaluation[s])
  BY DEF IInv, ChainKept
<1>2. evaluation[s] # None /\ ticket[s].approval = evaluation[s].approval
  BY <1>1 DEF TicketOK
<1>3. EvaluationOK(s, evaluation[s])
  BY <1>2 DEF IInv, ChainKept
<1>4. signal[s] # None /\ evaluation[s].approval = signal[s].approval
  BY <1>3 DEF EvaluationOK
<1>5. SignalOK(signal[s])
  BY <1>4 DEF IInv, ChainKept
<1>6. ticket[s].approval \in Approvals /\ approval[ticket[s].approval] # None
  BY <1>2, <1>4, <1>5 DEF SignalOK
<1>7. run # None
  BY <1>6, SMTT(60) DEF IInv, EvidenceKept
<1> QED BY <1>2, <1>4, <1>6, <1>7

LEMMA EntryKept ==
    ASSUME IInv, Grows, NEW s \in Signals, NEW f, ticket[s] # None,
           EntryIsBounded(s, f)
    PROVE  EntryIsBounded(s, f)'
<1>1. /\ evaluation[s] # None /\ signal[s] # None /\ run # None
      /\ ticket[s].approval \in Approvals /\ approval[ticket[s].approval] # None
  BY OrderHasGrant
<1>2. /\ evaluation'[s] = evaluation[s] /\ signal'[s] = signal[s]
      /\ ticket'[s] = ticket[s]
  BY <1>1 DEF Grows, RowsStay
<1>3. approval'[ticket[s].approval].hash = approval[ticket[s].approval].hash
  BY <1>1 DEF Grows, GrantsStay
<1>4. run'.hash = run.hash
  BY <1>1 DEF Grows, RunStays
<1> QED BY <1>2, <1>3, <1>4 DEF EntryIsBounded, EntryLoss

LEMMA JobKept ==
    ASSUME IInv, Grows, NEW job, JobOK(job)
    PROVE  JobOK(job)'
<1>1. clock \in Nat /\ clock' \in Nat /\ clock <= clock'
  BY EntryAssumption DEF IInv, TypeOK, Times, Grows
<1>2. CASE job = Idle
  BY <1>2 DEF JobOK
<1>3. CASE job.at = "schedule"
  <2>1. hypothesis # None /\ job.run \in NewRuns
    BY <1>3 DEF JobOK, Idle
  <2>2. job.run \in NewRuns'
    BY <1>1, <2>1 DEF NewRuns
  <2> QED BY <1>3, <2>1, <2>2 DEF JobOK, Grows
<1>4. CASE job.at = "record"
  <2>1. run # None /\ job.since \in run.plannedAt..clock /\ ValidResult(job.result)
    BY <1>4 DEF JobOK, Idle
  <2>2. run' # None /\ run'.plannedAt = run.plannedAt
    BY <2>1 DEF Grows, RunStays
  <2>3. job.since \in run'.plannedAt..clock'
    BY <1>1, <2>1, <2>2
  <2> QED BY <1>4, <2>1, <2>2, <2>3 DEF JobOK
<1>5. CASE job.at = "plan"
  <2>1. result # None /\ job.validation \in NewValidations
    BY <1>5 DEF JobOK, Idle
  <2>2. job.validation \in NewValidations'
    BY <1>1, <2>1 DEF NewValidations
  <2> QED BY <1>5, <2>1, <2>2 DEF JobOK, Grows
<1>6. CASE job.at = "start"
  <2>1. validation # None /\ job.startedAt \in validation.plannedAt..clock
    BY <1>6 DEF JobOK, Idle
  <2>2. validation' # None /\ validation'.plannedAt = validation.plannedAt
    BY <2>1 DEF Grows, ValidationStays
  <2> QED BY <1>1, <1>6, <2>1, <2>2 DEF JobOK
<1>7. CASE job.at = "grant"
  <2>1. /\ job.approval \in Approvals /\ validation # None
        /\ validation.status # "PLANNED" /\ job.grant \in NewGrants
        /\ job.grant.grantedAt >= validation.startedAt
    BY <1>7 DEF JobOK, Idle
  <2>2. /\ validation' # None /\ validation'.status # "PLANNED"
        /\ validation'.startedAt = validation.startedAt
    BY <2>1 DEF Grows, ValidationStays
  <2>3. run'.hash = run.hash
    BY <2>1 DEF Grows, RunStays, IInv, EvidenceKept
  <2>4. 0..clock \subseteq 0..clock'
    BY <1>1
  <2>5. job.grant \in NewGrants'
    BY <2>1, <2>3, <2>4 DEF NewGrants
  <2> QED BY <1>7, <2>1, <2>2, <2>5 DEF JobOK
<1>8. CASE job.at = "signal"
  BY <1>8, SignalKept DEF JobOK, Idle
<1>9. CASE job.at = "save"
  BY <1>9, EvaluationKept DEF JobOK, Idle
<1>10. CASE job.at = "order"
  <2>1. /\ job.signal \in Signals /\ job.evaluation # None
        /\ job.evaluation = evaluation[job.signal] /\ job.evaluation.decision.approved
    BY <1>10 DEF JobOK, Idle
  <2>2. evaluation'[job.signal] = evaluation[job.signal]
    BY <2>1 DEF Grows, RowsStay
  <2> QED BY <1>10, <2>1, <2>2 DEF JobOK
<1>11. CASE job.at = "ticket"
  <2>1. job.signal \in Signals /\ TicketOK(job.ticket, evaluation[job.signal])
    BY <1>11 DEF JobOK, Idle
  <2>2. evaluation'[job.signal] = evaluation[job.signal]
    BY <2>1 DEF TicketOK, Grows, RowsStay
  <2>3. PICK e : e = evaluation[job.signal]
    OBVIOUS
  <2>4. TicketOK(job.ticket, e)'
    BY <2>1, <2>3, TicketKept
  <2>5. TicketOK(job.ticket, evaluation[job.signal])'
    BY <2>2, <2>3, <2>4
  <2> QED BY <1>11, <2>1, <2>5 DEF JobOK
<1>12. CASE job.at = "fill"
  <2>1. /\ job.signal \in Signals /\ ticket[job.signal] # None
        /\ EntryIsBounded(job.signal, job.fill)
    BY <1>12 DEF JobOK, Idle
  <2>2. ticket'[job.signal] # None
    BY <2>1 DEF Grows, RowsStay
  <2>3. EntryIsBounded(job.signal, job.fill)'
    BY <2>1, EntryKept
  <2> QED BY <1>12, <2>1, <2>2, <2>3 DEF JobOK
<1> QED BY <1>2, <1>3, <1>4, <1>5, <1>6, <1>7, <1>8, <1>9, <1>10, <1>11, <1>12 DEF JobOK

LEMMA ChainFrame ==
    ASSUME IInv, Grows, UNCHANGED entry
    PROVE  ChainKept'
<1> SUFFICES ASSUME NEW s \in Signals
             PROVE  /\ signal'[s] # None => SignalOK(signal[s])'
                    /\ evaluation'[s] # None => EvaluationOK(s, evaluation[s])'
                    /\ ticket'[s] # None => TicketOK(ticket[s], evaluation[s])'
                    /\ fill'[s] # None => ticket'[s] # None /\ EntryIsBounded(s, fill[s])'
  BY DEF ChainKept
<1> PICK row, e, t, f : row = signal[s] /\ e = evaluation[s] /\ t = ticket[s] /\ f = fill[s]
  OBVIOUS
<1>1. row = signal'[s] /\ e = evaluation'[s] /\ t = ticket'[s] /\ f = fill'[s]
  BY DEF entry
<1>2. /\ row # None => SignalOK(row)
      /\ e # None => EvaluationOK(s, e)
      /\ t # None => TicketOK(t, e)
      /\ f # None => t # None /\ EntryIsBounded(s, f)
  BY DEF IInv, ChainKept
<1>3. /\ row # None => SignalOK(row)'
      /\ e # None => EvaluationOK(s, e)'
      /\ t # None => TicketOK(t, e)'
      /\ f # None => t # None /\ EntryIsBounded(s, f)'
  BY <1>2, SignalKept, EvaluationKept, TicketKept, EntryKept
<1> QED BY <1>1, <1>3

\* A command that leaves a job which is consistent with the tables, or none.
LEMMA JobsFrame ==
    ASSUME IInv, Grows, NEW w \in Workers, NEW job, JobOK(job)',
           worker' = [worker EXCEPT ![w] = job]
    PROVE  JobsKept' /\ DOMAIN worker' = Workers
<1>1. DOMAIN worker = Workers
  BY DEF IInv, TypeOK
<1> SUFFICES ASSUME NEW v \in Workers PROVE JobOK(worker[v])'
  BY <1>1 DEF JobsKept
<1>2. CASE v = w
  BY <1>1, <1>2
<1>3. CASE v # w
  <2> PICK other : other = worker[v]
    OBVIOUS
  <2>1. JobOK(other)'
    BY JobKept DEF IInv, JobsKept
  <2>2. worker'[v] = other
    BY <1>1, <1>3
  <2> QED BY <2>1, <2>2
<1> QED BY <1>2, <1>3

LEMMA IdleIsOK == JobOK(Idle) /\ JobOK(Idle)'
BY DEF JobOK

LEMMA JobsEnd ==
    ASSUME IInv, Grows, NEW w \in Workers, worker' = [worker EXCEPT ![w] = Idle]
    PROVE  JobsKept' /\ DOMAIN worker' = Workers
<1> PICK job : job = Idle
  OBVIOUS
<1>1. JobOK(job)'
  BY IdleIsOK
<1> QED BY <1>1, JobsFrame

LEMMA JobsStay ==
    ASSUME IInv, Grows, UNCHANGED worker
    PROVE  JobsKept' /\ DOMAIN worker' = Workers
<1>1. DOMAIN worker = Workers
  BY DEF IInv, TypeOK
<1> SUFFICES ASSUME NEW v \in Workers PROVE JobOK(worker[v])'
  BY <1>1 DEF JobsKept
<1> PICK other : other = worker[v]
  OBVIOUS
<1>2. JobOK(other)'
  BY JobKept DEF IInv, JobsKept
<1> QED BY <1>2

(***************************************************************************)
(* Steps that only prepare a write.                                        *)
(***************************************************************************)
LEMMA NothingWritten ==
    ASSUME IInv, UNCHANGED <<clock, research, approval, entry>>
    PROVE  Grows
<1>1. clock \in 0..MaxClock /\ MaxClock \in Nat
  BY EntryAssumption DEF IInv, TypeOK, Times
<1> QED BY <1>1 DEF Grows, RunStays, ValidationStays, GrantsStay, RowsStay, research, entry

LEMMA Prepared ==
    ASSUME IInv, NEW w \in Workers, NEW job, JobOK(job),
           worker' = [worker EXCEPT ![w] = job],
           changes' \in 0..MaxChanges, killSwitch' = killSwitch,
           UNCHANGED <<clock, research, approval, entry>>
    PROVE  IInv'
<1>1. Grows
  BY NothingWritten
<1>2. JobsKept' /\ DOMAIN worker' = Workers
  BY <1>1, JobKept, JobsFrame
<1>3. TypeOK'
  BY <1>2 DEF IInv, TypeOK, research, entry
<1>4. EvidenceKept'
  BY DEF IInv, EvidenceKept, research
<1>5. ChainKept'
  BY <1>1, ChainFrame
<1> QED BY <1>2, <1>3, <1>4, <1>5 DEF IInv

\* A disturbance is counted.
LEMMA Counted ==
    ASSUME IInv
    PROVE  /\ Disturb => changes' \in 0..MaxChanges
           /\ UNCHANGED changes => changes' \in 0..MaxChanges
BY EntryAssumption DEF IInv, TypeOK, Disturb

LEMMA PrepareKeeps ==
    ASSUME IInv, NEW w \in Workers, NEW job, JobOK(job), Prepare(w, job)
    PROVE  IInv'
BY Prepared, Counted DEF Prepare

LEMMA ScheduleKeeps ==
    ASSUME IInv, NEW w \in Workers, Schedule(w) PROVE IInv'
<1> DEFINE planned == [hash |-> hypothesis.content, status |-> "PLANNED",
                       scopes |-> Specs[hypothesis.content].scopes,
                       plannedAt |-> clock, windowStart |-> 0, windowEnd |-> WindowEnd]
<1> PICK job : job = [at |-> "schedule", run |-> planned]
  OBVIOUS
<1>1. hypothesis # None /\ Prepare(w, job)
  BY DEF Schedule
<1>2. hypothesis.content \in Contents
  BY <1>1 DEF IInv, TypeOK, Rows
<1>3. clock \in 0..clock
  BY EntryAssumption DEF IInv, TypeOK, Times
<1>4. planned \in NewRuns
  BY <1>2, <1>3 DEF NewRuns
<1>5. job.at = "schedule" /\ job.run = planned
  OBVIOUS
<1>6. JobOK(job)
  BY <1>1, <1>4, <1>5 DEF JobOK
<1> QED BY <1>1, <1>6, PrepareKeeps

LEMMA ValidateCandidateKeeps ==
    ASSUME IInv, NEW w \in Workers, ValidateCandidate(w) PROVE IInv'
<1> DEFINE planned == [status |-> "PLANNED", plannedAt |-> clock, startedAt |-> -1]
<1> PICK job : job = [at |-> "plan", validation |-> planned]
  OBVIOUS
<1>1. result # None /\ Prepare(w, job)
  BY DEF ValidateCandidate, IsCandidate
<1>2. clock \in 0..clock
  BY EntryAssumption DEF IInv, TypeOK, Times
<1>3. planned \in NewValidations
  BY <1>2 DEF NewValidations
<1>4. job.at = "plan" /\ job.validation = planned
  OBVIOUS
<1>5. JobOK(job)
  BY <1>1, <1>3, <1>4 DEF JobOK
<1> QED BY <1>1, <1>5, PrepareKeeps

LEMMA StartValidationKeeps ==
    ASSUME IInv, NEW w \in Workers, StartValidation(w) PROVE IInv'
<1> PICK job : job = [at |-> "start", startedAt |-> clock]
  OBVIOUS
<1>1. validation # None /\ Prepare(w, job)
  BY DEF StartValidation
<1>2. validation.plannedAt \in 0..clock /\ clock \in Nat
  BY <1>1, EntryAssumption DEF IInv, TypeOK, Rows, Times
<1>3. job.startedAt \in validation.plannedAt..clock
  BY <1>2
<1>4. JobOK(job)
  BY <1>1, <1>3 DEF JobOK
<1> QED BY <1>1, <1>4, PrepareKeeps

LEMMA StartRecordKeeps ==
    ASSUME IInv, NEW w \in Workers, NEW kind, NEW dataset, NEW made, NEW trades,
           run # None, changes' \in 0..MaxChanges,
           StartRecord(w, kind, dataset, made, trades)
    PROVE  IInv'
<1> PICK job : job = [at |-> "record", kind |-> kind, dataset |-> dataset,
                      result |-> made, trades |-> trades, since |-> clock]
  OBVIOUS
<1>1. /\ ValidResult(made) /\ worker' = [worker EXCEPT ![w] = job]
      /\ UNCHANGED <<clock, killSwitch, research, approval, entry>>
  BY DEF StartRecord
<1>2. run.plannedAt \in 0..clock /\ clock \in Nat
  BY EntryAssumption DEF IInv, TypeOK, Rows, Times
<1>3. job.since \in run.plannedAt..clock
  BY <1>2
<1>4. job.at = "record" /\ job.result = made
  OBVIOUS
<1>5. JobOK(job)
  BY <1>1, <1>3, <1>4 DEF JobOK
<1> QED BY <1>1, <1>5, Prepared

LEMMA RecordersKeep ==
    ASSUME IInv, NEW w \in Workers,
           BacktestRules(w) \/ DryRun(w) \/ EvaluateRules(w) \/ RecordStatedResult(w)
    PROVE  IInv'
<1>1. /\ run # None
      /\ \E kind, dataset, made, trades : StartRecord(w, kind, dataset, made, trades)
      /\ changes' \in 0..MaxChanges
  BY Counted DEF BacktestRules, DryRun, EvaluateRules, RecordStatedResult, IsOpen
<1>2. PICK kind, dataset, made, trades : StartRecord(w, kind, dataset, made, trades)
  BY <1>1
<1> QED BY <1>1, <1>2, StartRecordKeeps

LEMMA GrantPaperKeeps ==
    ASSUME IInv, NEW w \in Workers, NEW a \in Approvals, GrantPaper(w, a) PROVE IInv'
<1>0. PICK strategyName \in StrategyNames, scope \in Scopes :
        \E grant, job :
          /\ grant = [strategyName |-> strategyName, scope |-> scope,
                      hash |-> hypothesis.content, grantedAt |-> clock, revoked |-> FALSE]
          /\ job = [at |-> "grant", approval |-> a, grant |-> grant]
          /\ CheckPaperApprovalEvidence(grant, clock) /\ Prepare(w, job)
  BY DEF GrantPaper
<1>1. PICK grant, job :
        /\ grant = [strategyName |-> strategyName, scope |-> scope,
                    hash |-> hypothesis.content, grantedAt |-> clock, revoked |-> FALSE]
        /\ job = [at |-> "grant", approval |-> a, grant |-> grant]
        /\ CheckPaperApprovalEvidence(grant, clock) /\ Prepare(w, job)
  BY <1>0
<1>2. /\ validation # None /\ validation.status = "RUNNING"
      /\ grant.hash = hypothesis.content /\ run.hash = hypothesis.content
      /\ validation.startedAt <= clock
  BY <1>1 DEF CheckPaperApprovalEvidence
<1>3. validation.startedAt \in Int /\ clock \in Nat
  BY <1>2, EntryAssumption DEF IInv, TypeOK, Rows, Times
<1>4. grant.grantedAt = clock /\ clock >= validation.startedAt
  BY <1>1, <1>2, <1>3
<1>5. grant \in NewGrants
  BY <1>1, <1>2, <1>3 DEF NewGrants
<1>6. job.at = "grant" /\ job.approval = a /\ job.grant = grant
  BY <1>1
<1>7. JobOK(job)
  BY <1>2, <1>4, <1>5, <1>6 DEF JobOK
<1> QED BY <1>1, <1>7, PrepareKeeps

\* Every proposal carries the time of the observation it was made of.
LEMMA ProposalTime ==
    ASSUME NEW m, NEW policy, NEW cfg,
           GenerateSignal(m, policy, cfg).type # "NO_TRADE"
    PROVE  GenerateSignal(m, policy, cfg).observedAt = m.observedAt
<1> DEFINE Timed(p) == p.type # "NO_TRADE" => p.observedAt = m.observedAt
<1>1. Timed(NoTrade)
  BY DEF NoTrade
<1>2. \A side, stop, target : Timed(Propose(m, side, stop, target))
  BY DEF Propose, BuildSignal, NoTrade
<1> HIDE DEF Timed
<1>3. Timed(Trend(m, cfg))
  BY <1>1, <1>2 DEF Trend
<1>4. Timed(MeanReversion(m, cfg))
  BY <1>1, <1>2 DEF MeanReversion
<1>5. Timed(Breakout(m, cfg))
  BY <1>1, <1>2 DEF Breakout
<1>6. Timed(GenerateSignal(m, policy, cfg))
  BY <1>1, <1>3, <1>4, <1>5 DEF GenerateSignal
<1> QED BY <1>6 DEF Timed

LEMMA GenerateAndRecordKeeps ==
    ASSUME IInv, NEW w \in Workers, NEW s \in Signals, NEW a \in Approvals,
           GenerateAndRecord(w, s, a)
    PROVE  IInv'
<1>0. PICK market \in Markets, now \in 0..clock :
        \E observedAt \in 0..now, closeTime \in 0..now :
          LET m == MarketContext(market, a, now, observedAt, closeTime)
              made == GenerateSignal(m, SelectionPolicy, StrategyConfig)
          IN  /\ approval[a] # None
              /\ Prepare(w, [at |-> "signal", signal |-> s, row |->
                    [proposal |-> made, approval |-> a, hash |-> approval[a].hash,
                     regime |-> market.regime.name, scope |-> market.regime.scope,
                     recordedAt |-> clock]])
  BY DEF GenerateAndRecord, ResolvePaperAuthorization
<1>1. PICK observedAt \in 0..now, closeTime \in 0..now :
        LET m == MarketContext(market, a, now, observedAt, closeTime)
            made == GenerateSignal(m, SelectionPolicy, StrategyConfig)
        IN  /\ approval[a] # None
            /\ Prepare(w, [at |-> "signal", signal |-> s, row |->
                  [proposal |-> made, approval |-> a, hash |-> approval[a].hash,
                   regime |-> market.regime.name, scope |-> market.regime.scope,
                   recordedAt |-> clock]])
  BY <1>0
<1> DEFINE m == MarketContext(market, a, now, observedAt, closeTime)
           made == GenerateSignal(m, SelectionPolicy, StrategyConfig)
<1> PICK row : row =
        [proposal |-> made, approval |-> a, hash |-> approval[a].hash,
         regime |-> market.regime.name, scope |-> market.regime.scope,
         recordedAt |-> clock]
  OBVIOUS
<1> PICK job : job = [at |-> "signal", signal |-> s, row |-> row]
  OBVIOUS
<1>2. clock \in Nat
  BY EntryAssumption DEF IInv, TypeOK, Times
<1>3. m.observedAt = observedAt
  BY ContextAssumption DEF MarketContext
<1>4. made.type # "NO_TRADE" => made.observedAt \in 0..clock
  BY <1>2, <1>3, ProposalTime
<1>5. /\ row.approval = a /\ row.recordedAt = clock /\ row.proposal = made
      /\ job.at = "signal" /\ job.signal = s /\ job.row = row
  OBVIOUS
<1>6. SignalOK(row)
  BY <1>1, <1>2, <1>4, <1>5 DEF SignalOK
<1>7. JobOK(job)
  BY <1>5, <1>6 DEF JobOK
<1> QED BY <1>1, <1>7, PrepareKeeps

\* What an approved evaluation says of its quantity and of its data.
LEMMA ApprovedEvaluation ==
    ASSUME NEW input, Evaluate(input, RiskPolicy).approved
    PROVE  /\ Evaluate(input, RiskPolicy).finalQuantity
                 \in 1..input.market.instrument.maxOrderQuantity
           /\ input.market.dataTime <= input.evaluatedAt
<1> DEFINE checks == Checks(input, RiskPolicy)
<1>1. \A name \in DOMAIN checks : checks[name]
  BY SMTT(60) DEF Evaluate, AllChecksPassed
<1>2. checks.quantity_valid /\ checks.data_fresh
  BY <1>1 DEF Checks
<1>3. Quantity(input, RiskPolicy) \in 1..input.market.instrument.maxOrderQuantity
  BY <1>2 DEF Checks
<1>4. input.market.dataTime <= input.evaluatedAt
  BY <1>2 DEF Checks, DataFresh
<1> QED BY <1>3, <1>4 DEF Evaluate

LEMMA CandidateOK ==
    ASSUME IInv, NEW s \in Signals, NEW context \in RiskContexts,
           NEW closeTime \in 0..clock, NEW quoteTime \in Times,
           signal[s] # None, signal[s].proposal.type # "NO_TRADE",
           ValidatePaperRiskEvaluation(
               Candidate(s, signal[s].approval, context, closeTime, quoteTime))
    PROVE  EvaluationOK(s, Candidate(s, signal[s].approval, context, closeTime, quoteTime))
<1> DEFINE a == signal[s].approval
           observedAt == signal[s].proposal.observedAt
           e == Candidate(s, a, context, closeTime, quoteTime)
           input == e.input
           oldest == Oldest(quoteTime, observedAt, closeTime, clock)
<1>1. /\ e # None /\ e.approval = a /\ e.regime = signal[s].regime
      /\ e.decision = Evaluate(input, RiskPolicy)
  BY DEF Candidate, None
<1>2. /\ input.evaluatedAt = clock
      /\ input.market = [context.market EXCEPT !.dataTime = oldest]
  BY DEF Candidate
<1>3. /\ input.market.dataTime = oldest
      /\ input.market.instrument = context.market.instrument
  BY <1>2, ContextAssumption
<1>4. SignalOK(signal[s])
  BY DEF IInv, ChainKept
<1>5. observedAt \in 0..clock /\ clock \in Nat /\ closeTime \in Nat /\ quoteTime \in Nat
  BY <1>4, EntryAssumption DEF SignalOK, IInv, TypeOK, Times
<1>6. ASSUME e.decision.approved
      PROVE  /\ e.decision.finalQuantity \in 1..MaxQuantity
             /\ input.market.dataTime \in 0..observedAt
  <2>1. Evaluate(input, RiskPolicy).approved
    BY <1>1, <1>6
  <2>2. /\ e.decision.finalQuantity \in 1..context.market.instrument.maxOrderQuantity
        /\ oldest <= clock
    BY <1>1, <1>2, <1>3, <2>1, ApprovedEvaluation, ZenonT(60)
  <2>3. context.market.instrument.maxOrderQuantity \in 0..MaxQuantity /\ MaxQuantity \in Nat
    BY ContextAssumption, EntryAssumption
  <2> HIDE DEF e, observedAt
  <2>4. oldest \in 0..observedAt
    BY <1>5, <2>2 DEF Oldest, Lesser
  <2> QED BY <1>3, <2>2, <2>3, <2>4
<1> QED BY <1>1, <1>6 DEF EvaluationOK

LEMMA EvaluateStoredSignalKeeps ==
    ASSUME IInv, NEW w \in Workers, NEW s \in Signals, EvaluateStoredSignal(w, s)
    PROVE  IInv'
<1>1. PICK context \in RiskContexts, closeTime \in 0..clock, quoteTime \in Times :
        Evaluated(w, s, Candidate(s, signal[s].approval, context, closeTime, quoteTime))
  BY DEF EvaluateStoredSignal
<1>2. /\ signal[s] # None /\ signal[s].proposal.type # "NO_TRADE"
      /\ UNCHANGED <<clock, changes, killSwitch, research, approval, entry>>
  BY DEF EvaluateStoredSignal
<1>3. changes' \in 0..MaxChanges
  BY <1>2, Counted
<1> DEFINE candidate == Candidate(s, signal[s].approval, context, closeTime, quoteTime)
<1>4. CASE evaluation[s] # None
  <2> PICK job : job = [at |-> "order", signal |-> s, evaluation |-> evaluation[s]]
    OBVIOUS
  <2>1. /\ evaluation[s].decision.approved
        /\ worker' = [worker EXCEPT ![w] = job]
    BY <1>1, <1>4 DEF Evaluated, Proceed
  <2>2. job.at = "order" /\ job.signal = s /\ job.evaluation = evaluation[s]
    OBVIOUS
  <2>3. JobOK(job)
    BY <1>4, <2>1, <2>2 DEF JobOK
  <2> QED BY <1>2, <1>3, <2>1, <2>3, Prepared
<1>5. CASE evaluation[s] = None
  <2> PICK job : job = [at |-> "save", signal |-> s, evaluation |-> candidate]
    OBVIOUS
  <2>1. /\ ValidatePaperRiskEvaluation(candidate)
        /\ worker' = [worker EXCEPT ![w] = job]
    BY <1>1, <1>5 DEF Evaluated
  <2>2. EvaluationOK(s, candidate)
    BY <1>2, <2>1, CandidateOK
  <2>3. job.at = "save" /\ job.signal = s /\ job.evaluation = candidate
    OBVIOUS
  <2>4. JobOK(job)
    BY <2>2, <2>3 DEF JobOK
  <2> QED BY <1>2, <1>3, <2>1, <2>4, Prepared
<1> QED BY <1>4, <1>5

LEMMA OrderSignalKeeps ==
    ASSUME IInv, NEW w \in Workers, OrderSignal(w) PROVE IInv'
<1> PICK old : old = worker[w]
  OBVIOUS
<1>1. old.at = "order" /\ JobOK(old)
  BY DEF OrderSignal, IInv, JobsKept
<1> PICK s, e : s = old.signal /\ e = old.evaluation
  OBVIOUS
<1>2. s \in Signals /\ e # None /\ e = evaluation[s] /\ e.decision.approved
  BY <1>1 DEF JobOK, Idle
<1>3. changes' \in 0..MaxChanges /\ killSwitch' = killSwitch
      /\ UNCHANGED <<clock, research, approval, entry>>
  BY Counted DEF OrderSignal
<1>4. CASE worker' = [worker EXCEPT ![w] = Idle]
  <2> PICK job : job = Idle
    OBVIOUS
  <2> QED BY <1>3, <1>4, IdleIsOK, Prepared
<1>5. CASE worker' = [worker EXCEPT ![w] =
              [at |-> "ticket", signal |-> s, ticket |-> NewPaperSignalTicket(e, clock)]]
  <2> DEFINE t == NewPaperSignalTicket(e, clock)
  <2> PICK job : job = [at |-> "ticket", signal |-> s, ticket |-> t]
    OBVIOUS
  <2>1. clock \in 0..clock
    BY EntryAssumption DEF IInv, TypeOK, Times
  <2>2. TicketOK(t, evaluation[s])
    BY <1>2, <2>1 DEF TicketOK, NewPaperSignalTicket
  <2>3. job.at = "ticket" /\ job.signal = s /\ job.ticket = t
    OBVIOUS
  <2>4. JobOK(job)
    BY <1>2, <2>2, <2>3, SMTT(60) DEF JobOK
  <2> QED BY <1>3, <1>5, <2>4, Prepared
<1> QED BY <1>4, <1>5 DEF OrderSignal

\* An authorized fill is within its bounds.
LEMMA AuthorizedEntry ==
    ASSUME IInv, NEW s \in Signals, ticket[s] # None,
           RequireFreshPaperRisk(evaluation[s], clock),
           ResolvePaperAuthorization(ticket[s].approval, clock, evaluation[s].scope,
                                     evaluation[s].regime),
           CheckPaperSignalTicket(ticket[s], evaluation[s],
                                  ApprovalSnapshot(ticket[s].approval)),
           NEW execution, NEW filledAt \in ticket[s].createdAt..clock,
           CheckPaperSignalFillBudget(evaluation[s], ticket[s], execution),
           NEW f, f = [price |-> execution.price, fee |-> execution.fee,
                       quantity |-> ticket[s].quantity, filledAt |-> filledAt]
    PROVE  EntryIsBounded(s, f)
<1> DEFINE e == evaluation[s]
           t == ticket[s]
           grant == approval[t.approval]
           spec == Specs[grant.hash]
           observedAt == signal[s].proposal.observedAt
           dataTime == e.input.market.dataTime
<1>1. e # None /\ signal[s] # None
  BY OrderHasGrant
<1>2. TicketOK(t, e) /\ EvaluationOK(s, e) /\ SignalOK(signal[s])
  BY <1>1 DEF IInv, ChainKept
<1>3. e.decision.approved /\ f.quantity = e.decision.finalQuantity
  BY <1>2 DEF TicketOK
<1>4. /\ ApprovalSnapshot(t.approval).maxRiskPct = spec.maxRiskPct
      /\ ApprovalSnapshot(t.approval).direction = spec.direction
  BY DEF ApprovalSnapshot
<1>5. EntryLoss(t, f) * Whole
        <= e.input.account.equity * Lesser(RiskPolicy.riskPerTradePct, spec.maxRiskPct)
  <2>1. EntryLoss(t, f) = EntryLoss(t, execution)
    BY DEF EntryLoss
  <2>2. spec.maxRiskPct = e.input.intent.hypothesisMaxRiskPct
    BY <1>4 DEF CheckPaperSignalTicket, SignalTicketAllowed
  <2>3. RiskBudget(e.input.intent, e.input.account, RiskPolicy)
          = e.input.account.equity * Lesser(RiskPolicy.riskPerTradePct, spec.maxRiskPct)
    BY <2>2 DEF RiskBudget
  <2>4. EntryLoss(t, execution) * Whole
          <= RiskBudget(e.input.intent, e.input.account, RiskPolicy)
    BY DEF CheckPaperSignalFillBudget
  <2> QED BY <2>1, <2>3, <2>4
<1>6. f.filledAt - observedAt <= RiskPolicy.maxDataAge
  <2>1. clock - dataTime <= RiskPolicy.maxDataAge
    BY DEF RequireFreshPaperRisk, DataFresh
  <2>2. RiskPolicy.maxDataAge \in Nat
    BY EntryAssumption DEF ValidPolicy
  <2>3. observedAt \in 0..clock /\ dataTime \in 0..observedAt /\ clock \in Nat
    BY <1>2, <1>3, EntryAssumption DEF SignalOK, EvaluationOK, IInv, TypeOK, Times
  <2>4. t.createdAt \in Nat
    BY <1>2, <2>3 DEF TicketOK
  <2>5. f.filledAt = filledAt /\ filledAt \in Nat /\ filledAt <= clock
    BY <2>3, <2>4, SMTT(60)
  <2> HIDE DEF observedAt, dataTime
  <2> QED BY <2>1, <2>2, <2>3, <2>5
<1>7. signal[s].regime \in spec.allowed \ spec.blocked
  BY <1>2 DEF ResolvePaperAuthorization, EvaluationOK
<1>8. DirectionFits(spec, t.side)
  BY <1>4 DEF CheckPaperSignalTicket, SignalTicketAllowed, NewPaperSignalTicket, DirectionFits
<1>9. run.hash = grant.hash
  BY DEF ResolvePaperAuthorization, CheckPaperApprovalEvidence
<1> QED BY <1>3, <1>5, <1>6, <1>7, <1>8, <1>9 DEF EntryIsBounded

LEMMA AuthorizePaperEntryKeeps ==
    ASSUME IInv, NEW w \in Workers, NEW s \in Signals, AuthorizePaperEntry(w, s)
    PROVE  IInv'
<1>1. PICK execution \in Executions, filledAt \in ticket[s].createdAt..clock :
        /\ CheckPaperSignalFillBudget(evaluation[s], ticket[s], execution)
        /\ worker' = [worker EXCEPT ![w] =
              [at |-> "fill", signal |-> s,
               fill |-> [price |-> execution.price, fee |-> execution.fee,
                         quantity |-> ticket[s].quantity, filledAt |-> filledAt]]]
  BY DEF AuthorizePaperEntry
<1> PICK f : f = [price |-> execution.price, fee |-> execution.fee,
                  quantity |-> ticket[s].quantity, filledAt |-> filledAt]
  OBVIOUS
<1> PICK job : job = [at |-> "fill", signal |-> s, fill |-> f]
  OBVIOUS
<1>2. ticket[s] # None /\ EntryIsBounded(s, f)
  BY <1>1, AuthorizedEntry DEF AuthorizePaperEntry
<1>3. job.at = "fill" /\ job.signal = s /\ job.fill = f
  OBVIOUS
<1>4. JobOK(job)
  BY <1>2, <1>3 DEF JobOK
<1>5. changes' \in 0..MaxChanges /\ killSwitch' = killSwitch
      /\ UNCHANGED <<clock, research, approval, entry>>
  BY Counted DEF AuthorizePaperEntry
<1> QED BY <1>1, <1>4, <1>5, Prepared

LEMMA CrashKeeps ==
    ASSUME IInv, NEW w \in Workers, Crash(w) PROVE IInv'
<1> PICK job : job = Idle
  OBVIOUS
<1> QED BY IdleIsOK, Counted, Prepared DEF Crash

(***************************************************************************)
(* Steps that write the evidence.                                          *)
(***************************************************************************)
LEMMA Clock == ASSUME IInv PROVE clock \in Nat /\ MaxClock \in Nat /\ clock <= MaxClock
BY EntryAssumption DEF IInv, TypeOK, Times

LEMMA ImportAndStoreKeeps ==
    ASSUME IInv, NEW content \in Contents, ImportAndStore(content) PROVE IInv'
<1>1. /\ hypothesis' = [content |-> content, importedAt |-> clock]
      /\ UNCHANGED <<clock, killSwitch, run, result, validation, approval, entry, worker>>
      /\ changes' \in 0..MaxChanges
  BY Counted DEF ImportAndStore
<1>2. hypothesis' # None
  BY <1>1 DEF None
<1>3. Grows
  BY <1>1, <1>2, Clock DEF Grows, RunStays, ValidationStays, GrantsStay, RowsStay, entry
<1>4. hypothesis' \in Rows([content : Contents, importedAt : 0..clock'])
  BY <1>1, Clock DEF Rows
<1>5. TypeOK'
  BY <1>1, <1>4 DEF IInv, TypeOK, entry
<1>6. EvidenceKept'
  BY <1>1, <1>2 DEF IInv, EvidenceKept
<1>7. ChainKept' /\ JobsKept'
  BY <1>1, <1>3, ChainFrame, JobsStay
<1> QED BY <1>5, <1>6, <1>7 DEF IInv

LEMMA UpsertRunsKeeps ==
    ASSUME IInv, NEW w \in Workers, UpsertRuns(w) PROVE IInv'
<1> PICK job : job = worker[w]
  OBVIOUS
<1>1. job.at = "schedule" /\ JobOK(job)
  BY DEF UpsertRuns, IInv, JobsKept
<1>2. hypothesis # None /\ job.run \in NewRuns
  BY <1>1 DEF JobOK, Idle
<1>3. /\ run' = IF run = None THEN job.run ELSE run
      /\ worker' = [worker EXCEPT ![w] = Idle]
      /\ UNCHANGED <<clock, changes, killSwitch, hypothesis, result, validation,
                     approval, entry>>
  BY DEF UpsertRuns
<1>4. Grows
  BY <1>3, Clock DEF Grows, RunStays, ValidationStays, GrantsStay, RowsStay, entry
<1>5. run' \in Rows([hash : Contents, status : {"PLANNED"} \union FinalStatuses,
                     scopes : {Specs[content].scopes : content \in Contents},
                     plannedAt : 0..clock', windowStart : {0}, windowEnd : {WindowEnd}])
  BY <1>2, <1>3 DEF IInv, TypeOK, Rows, NewRuns
<1>6. JobsKept' /\ DOMAIN worker' = Workers
  BY <1>3, <1>4, JobsEnd
<1>7. TypeOK'
  BY <1>3, <1>5, <1>6 DEF IInv, TypeOK, entry
<1>8. EvidenceKept'
  <2>1. CASE run = None
    BY <1>2, <1>3, <2>1 DEF IInv, EvidenceKept
  <2>2. CASE run # None
    BY <1>3, <2>2 DEF IInv, EvidenceKept
  <2> QED BY <2>1, <2>2
<1>9. ChainKept'
  BY <1>3, <1>4, ChainFrame
<1> QED BY <1>6, <1>7, <1>8, <1>9 DEF IInv

\* The rows of a validation, as TypeOK has them.
Validations == [status : {"PLANNED", "RUNNING", "COMPLETED", "CANCELLED"},
                plannedAt : 0..clock, startedAt : -1..clock]

\* A step that writes the validation and keeps what was read of it.
LEMMA ValidationWritten ==
    ASSUME IInv, result # None, ValidationStays,
           UNCHANGED <<clock, killSwitch, hypothesis, run, result, approval, entry>>,
           changes' \in 0..MaxChanges, validation' \in Validations,
           validation'.startedAt \in {-1} \union validation'.plannedAt..clock,
           \/ UNCHANGED worker
           \/ \E w \in Workers : worker' = [worker EXCEPT ![w] = Idle]
    PROVE  IInv'
<1>1. Grows
  BY Clock DEF Grows, RunStays, GrantsStay, RowsStay, entry
<1>2. JobsKept' /\ DOMAIN worker' = Workers
  BY <1>1, JobsEnd, JobsStay
<1>3. TypeOK'
  BY <1>2 DEF IInv, TypeOK, Rows, Validations, entry
<1>4. EvidenceKept'
  <2>1. /\ run' # None => hypothesis' # None
        /\ result' # None => /\ run' # None /\ result'.status = run'.status
                             /\ result'.recordedAt >= run'.plannedAt
        /\ validation' # None =>
              /\ result' # None
              /\ validation'.startedAt \in {-1} \union validation'.plannedAt..clock'
    BY DEF IInv, EvidenceKept
  <2>2. ASSUME NEW a \in Approvals, approval'[a] # None
        PROVE  /\ validation' # None /\ validation'.status # "PLANNED"
               /\ approval'[a].grantedAt >= validation'.startedAt
               /\ run'.hash = approval'[a].hash
    BY <2>2 DEF IInv, EvidenceKept, ValidationStays
  <2> QED BY <2>1, <2>2 DEF EvidenceKept
<1>5. ChainKept'
  BY <1>1, ChainFrame
<1> QED BY <1>2, <1>3, <1>4, <1>5 DEF IInv

LEMMA RecordValidationKeeps ==
    ASSUME IInv, NEW w \in Workers, RecordValidation(w) PROVE IInv'
<1> PICK job : job = worker[w]
  OBVIOUS
<1>1. job.at = "plan" /\ JobOK(job)
  BY DEF RecordValidation, IInv, JobsKept
<1>2. result # None /\ job.validation \in NewValidations
  BY <1>1 DEF JobOK, Idle
<1>3. /\ validation' = IF validation = None THEN job.validation ELSE validation
      /\ worker' = [worker EXCEPT ![w] = Idle]
      /\ UNCHANGED <<clock, killSwitch, hypothesis, run, result, approval, entry>>
      /\ changes' \in 0..MaxChanges
  BY Counted DEF RecordValidation
<1>4. ValidationStays
  BY <1>3 DEF ValidationStays
<1>5. CASE validation = None
  <2>1. /\ validation' \in Validations /\ validation'.startedAt = -1
    BY <1>2, <1>3, <1>5, Clock DEF NewValidations, Validations
  <2> QED BY <1>2, <1>3, <1>4, <2>1, ValidationWritten
<1>6. CASE validation # None
  <2>1. validation' = validation /\ validation \in Validations
    BY <1>3, <1>6 DEF IInv, TypeOK, Rows, Validations
  <2>2. validation'.startedAt \in {-1} \union validation'.plannedAt..clock
    BY <1>6, <2>1 DEF IInv, EvidenceKept
  <2> QED BY <1>2, <1>3, <1>4, <2>1, <2>2, ValidationWritten
<1> QED BY <1>5, <1>6

LEMMA TransitionValidationKeeps ==
    ASSUME IInv, NEW w \in Workers, TransitionValidation(w) PROVE IInv'
<1> PICK job : job = worker[w]
  OBVIOUS
<1>1. job.at = "start" /\ JobOK(job)
  BY DEF TransitionValidation, IInv, JobsKept
<1>2. validation # None /\ job.startedAt \in validation.plannedAt..clock
  BY <1>1 DEF JobOK, Idle
<1>3. /\ validation' = IF validation.status = "PLANNED"
                       THEN [validation EXCEPT !.status = "RUNNING",
                                               !.startedAt = job.startedAt]
                       ELSE validation
      /\ worker' = [worker EXCEPT ![w] = Idle]
      /\ UNCHANGED <<clock, killSwitch, hypothesis, run, result, approval, entry>>
      /\ changes' \in 0..MaxChanges
  BY Counted DEF TransitionValidation
<1>4. validation \in Validations /\ result # None
  BY <1>2 DEF IInv, TypeOK, Rows, Validations, EvidenceKept
<1>5. CASE validation.status = "PLANNED"
  <2>1. validation' = [status |-> "RUNNING", plannedAt |-> validation.plannedAt,
                       startedAt |-> job.startedAt]
    BY <1>3, <1>4, <1>5 DEF Validations
  <2>2. validation.plannedAt \in 0..clock
    BY <1>4 DEF Validations
  <2>3. /\ validation' \in Validations
        /\ validation'.startedAt \in {-1} \union validation'.plannedAt..clock
    BY <1>2, <2>1, <2>2, Clock DEF Validations
  <2>4. ValidationStays
    BY <1>5, <2>1 DEF ValidationStays, None
  <2> QED BY <1>3, <1>4, <2>3, <2>4, ValidationWritten
<1>6. CASE validation.status # "PLANNED"
  <2>1. validation' = validation
    BY <1>3, <1>6
  <2>2. validation'.startedAt \in {-1} \union validation'.plannedAt..clock
    BY <1>2, <2>1 DEF IInv, EvidenceKept
  <2>3. ValidationStays
    BY <2>1 DEF ValidationStays
  <2> QED BY <1>3, <1>4, <2>1, <2>2, <2>3, ValidationWritten
<1> QED BY <1>5, <1>6

LEMMA StopValidationKeeps ==
    ASSUME IInv, StopValidation PROVE IInv'
<1>1. PICK status \in {"COMPLETED", "CANCELLED"} :
        validation' = [validation EXCEPT !.status = status]
  BY DEF StopValidation
<1>2. /\ validation # None /\ changes' \in 0..MaxChanges
      /\ UNCHANGED <<clock, killSwitch, hypothesis, run, result, approval, entry, worker>>
  BY Counted DEF StopValidation
<1>3. validation \in Validations /\ result # None
  BY <1>2 DEF IInv, TypeOK, Rows, Validations, EvidenceKept
<1>4. validation' = [status |-> status, plannedAt |-> validation.plannedAt,
                     startedAt |-> validation.startedAt]
  BY <1>1, <1>3 DEF Validations
<1>5. validation' \in Validations
  BY <1>3, <1>4 DEF Validations
<1>6. validation'.startedAt \in {-1} \union validation'.plannedAt..clock
  BY <1>2, <1>4 DEF IInv, EvidenceKept
<1>7. ValidationStays
  BY <1>4 DEF ValidationStays, None
<1> QED BY <1>2, <1>3, <1>5, <1>6, <1>7, ValidationWritten

LEMMA RecordResultKeeps ==
    ASSUME IInv, NEW w \in Workers, RecordResult(w) PROVE IInv'
<1> PICK job : job = worker[w]
  OBVIOUS
<1> PICK made : made = job.result
  OBVIOUS
<1>1. job.at = "record" /\ JobOK(job)
  BY DEF RecordResult, IInv, JobsKept
<1>2. run # None /\ job.since \in run.plannedAt..clock /\ ValidResult(made)
  BY <1>1 DEF JobOK, Idle
<1>3. PICK at \in job.since..clock :
        result' = [status |-> made.status, outcome |-> made.outcome,
                   metrics |-> made.metrics, recordedAt |-> at]
  BY DEF RecordResult
<1>4. /\ run' = [run EXCEPT !.status = made.status]
      /\ worker' = [worker EXCEPT ![w] = Idle]
      /\ UNCHANGED <<clock, changes, killSwitch, hypothesis, validation, approval, entry>>
  BY DEF RecordResult
<1> DEFINE Runs == [hash : Contents, status : {"PLANNED"} \union FinalStatuses,
                    scopes : {Specs[content].scopes : content \in Contents},
                    plannedAt : 0..clock, windowStart : {0}, windowEnd : {WindowEnd}]
<1>5. run \in Runs
  BY <1>2 DEF IInv, TypeOK, Rows
<1>6. made.status \in FinalStatuses
  BY <1>2 DEF ValidResult
<1>7. /\ run' \in Runs /\ run'.hash = run.hash /\ run'.plannedAt = run.plannedAt
      /\ run'.status = made.status
  BY <1>4, <1>5, <1>6
<1>8. run' # None
  <2>1. "hash" \in DOMAIN run'
    BY <1>7
  <2> QED BY <2>1 DEF None
<1>9. result' # None /\ result'.status = made.status /\ result'.recordedAt = at
  BY <1>3 DEF None
<1>10. at \in 0..clock /\ at >= run.plannedAt
  <2>1. run.plannedAt \in 0..clock
    BY <1>5
  <2> QED BY <1>2, <2>1, Clock
<1>11. Grows
  BY <1>4, <1>7, <1>8, <1>9, Clock
     DEF Grows, RunStays, ValidationStays, GrantsStay, RowsStay, entry
<1>12. JobsKept' /\ DOMAIN worker' = Workers
  BY <1>4, <1>11, JobsEnd
<1>13. ValidResult(result')
  BY <1>2, <1>3 DEF ValidResult
<1>14. TypeOK'
  <2>1. run' \in Rows(Runs)
    BY <1>7 DEF Rows
  <2>2. (result # None => ValidResult(result) /\ result.recordedAt \in 0..clock)'
    BY <1>4, <1>9, <1>10, <1>13
  <2> QED BY <1>4, <1>12, <2>1, <2>2 DEF IInv, TypeOK, entry
<1>15. EvidenceKept'
  BY <1>2, <1>4, <1>7, <1>8, <1>9, <1>10 DEF IInv, EvidenceKept
<1>16. ChainKept'
  BY <1>4, <1>11, ChainFrame
<1> QED BY <1>12, <1>14, <1>15, <1>16 DEF IInv

(***************************************************************************)
(* Steps that write the grants.                                            *)
(***************************************************************************)
Grants == [strategyName : StrategyNames, scope : Scopes, hash : Contents,
           grantedAt : 0..clock, revoked : BOOLEAN]

LEMMA GrantsWritten ==
    ASSUME IInv, GrantsStay, approval' \in [Approvals -> Rows(Grants)],
           UNCHANGED <<clock, killSwitch, research, entry>>, changes' \in 0..MaxChanges,
           \A a \in Approvals : approval'[a] # None =>
               /\ validation # None /\ validation.status # "PLANNED"
               /\ approval'[a].grantedAt >= validation.startedAt
               /\ run.hash = approval'[a].hash,
           \/ UNCHANGED worker
           \/ \E w \in Workers : worker' = [worker EXCEPT ![w] = Idle]
    PROVE  IInv'
<1>1. Grows
  BY Clock DEF Grows, RunStays, ValidationStays, RowsStay, entry, research
<1>2. JobsKept' /\ DOMAIN worker' = Workers
  BY <1>1, JobsEnd, JobsStay
<1>3. TypeOK'
  BY <1>2 DEF IInv, TypeOK, Grants, entry, research
<1>4. EvidenceKept'
  BY DEF IInv, EvidenceKept, research
<1>5. ChainKept'
  BY <1>1, ChainFrame
<1> QED BY <1>2, <1>3, <1>4, <1>5 DEF IInv

LEMMA RecordPaperApprovalKeeps ==
    ASSUME IInv, NEW w \in Workers, RecordPaperApproval(w) PROVE IInv'
<1> PICK job : job = worker[w]
  OBVIOUS
<1> PICK a, grant : a = job.approval /\ grant = job.grant
  OBVIOUS
<1>1. job.at = "grant" /\ JobOK(job)
  BY DEF RecordPaperApproval, IInv, JobsKept
<1>2. /\ a \in Approvals /\ validation # None /\ validation.status # "PLANNED"
      /\ grant \in NewGrants /\ grant.grantedAt >= validation.startedAt
  BY <1>1 DEF JobOK, Idle
<1>3. /\ approval' = IF approval[a] = None THEN [approval EXCEPT ![a] = grant] ELSE approval
      /\ worker' = [worker EXCEPT ![w] = Idle]
      /\ UNCHANGED <<clock, killSwitch, research, entry>> /\ changes' \in 0..MaxChanges
  BY Counted DEF RecordPaperApproval
<1>4. approval \in [Approvals -> Rows(Grants)]
  BY DEF IInv, TypeOK, Grants
<1>5. run # None
  BY <1>2 DEF IInv, EvidenceKept
<1>6. run.hash \in Contents
  BY <1>5 DEF IInv, TypeOK, Rows
<1>7. grant \in Grants /\ grant.hash = run.hash
  BY <1>2, <1>6 DEF NewGrants, Grants
<1>8. approval' \in [Approvals -> Rows(Grants)]
  BY <1>3, <1>4, <1>7 DEF Rows
<1>9. grant # None
  <2>1. "hash" \in DOMAIN grant
    BY <1>7 DEF Grants
  <2> QED BY <2>1 DEF None
<1>10. GrantsStay
  BY <1>3, <1>4 DEF GrantsStay
<1>11. ASSUME NEW b \in Approvals, approval'[b] # None
       PROVE  /\ validation # None /\ validation.status # "PLANNED"
              /\ approval'[b].grantedAt >= validation.startedAt
              /\ run.hash = approval'[b].hash
  <2>1. approval'[b] = grant \/ approval'[b] = approval[b]
    BY <1>3, <1>4
  <2> QED BY <1>2, <1>7, <1>11, <2>1 DEF IInv, EvidenceKept
<1> QED BY <1>3, <1>8, <1>10, <1>11, GrantsWritten

LEMMA RevokeKeeps ==
    ASSUME IInv, NEW a \in Approvals, Revoke(a) PROVE IInv'
<1>1. /\ approval[a] # None /\ approval' = [approval EXCEPT ![a].revoked = TRUE]
      /\ UNCHANGED <<clock, killSwitch, research, entry, worker>>
      /\ changes' \in 0..MaxChanges
  BY Counted DEF Revoke
<1>2. approval \in [Approvals -> Rows(Grants)] /\ approval[a] \in Grants
  BY <1>1 DEF IInv, TypeOK, Grants, Rows
<1> PICK grant : grant = [approval[a] EXCEPT !.revoked = TRUE]
  OBVIOUS
<1>3. /\ grant \in Grants /\ grant.hash = approval[a].hash
      /\ grant.grantedAt = approval[a].grantedAt
  BY <1>2 DEF Grants
<1>4. grant # None
  <2>1. "hash" \in DOMAIN grant
    BY <1>3 DEF Grants
  <2> QED BY <2>1 DEF None
<1>5. /\ approval' = [approval EXCEPT ![a] = grant]
      /\ approval' \in [Approvals -> Rows(Grants)]
  BY <1>1, <1>2, <1>3 DEF Rows
<1>6. \A b \in Approvals : approval'[b] = IF b = a THEN grant ELSE approval[b]
  BY <1>2, <1>5
<1>7. GrantsStay
  BY <1>3, <1>4, <1>6 DEF GrantsStay
<1>8. ASSUME NEW b \in Approvals, approval'[b] # None
      PROVE  /\ validation # None /\ validation.status # "PLANNED"
             /\ approval'[b].grantedAt >= validation.startedAt
             /\ run.hash = approval'[b].hash
  BY <1>1, <1>3, <1>6, <1>8 DEF IInv, EvidenceKept
<1> QED BY <1>1, <1>5, <1>7, <1>8, GrantsWritten

(***************************************************************************)
(* Steps that write the chain from a signal to its entry.                  *)
(***************************************************************************)
\* What remains to be shown of a step that writes rows of the chain.
LEMMA ChainWritten ==
    ASSUME IInv, Grows, ChainKept', JobsKept', DOMAIN worker' = Workers,
           \A table \in {signal', evaluation', ticket', fill'} : DOMAIN table = Signals,
           UNCHANGED <<clock, changes, killSwitch, research, approval>>
    PROVE  IInv'
<1>1. TypeOK'
  BY DEF IInv, TypeOK, research
<1>2. EvidenceKept'
  BY DEF IInv, EvidenceKept, research
<1> QED BY <1>1, <1>2 DEF IInv

\* The rows of the chain of a signal, old and new.
LEMMA ChainOf ==
    ASSUME IInv, Grows, NEW s \in Signals
    PROVE  /\ signal[s] # None => SignalOK(signal[s])
           /\ evaluation[s] # None => EvaluationOK(s, evaluation[s])
           /\ ticket[s] # None => TicketOK(ticket[s], evaluation[s])
           /\ fill[s] # None => ticket[s] # None /\ EntryIsBounded(s, fill[s])
BY DEF IInv, ChainKept

LEMMA Tables ==
    ASSUME IInv
    PROVE  /\ DOMAIN signal = Signals /\ DOMAIN evaluation = Signals
           /\ DOMAIN ticket = Signals /\ DOMAIN fill = Signals
           /\ DOMAIN worker = Workers
BY DEF IInv, TypeOK

\* A row of the chain that a step leaves, or puts where none was.
LEMMA RowsAfter ==
    ASSUME IInv, Grows, NEW s \in Signals, NEW row, NEW e, NEW t, NEW f,
           row = signal'[s], e = evaluation'[s], t = ticket'[s], f = fill'[s],
           row = signal[s] \/ SignalOK(row),
           e = evaluation[s] \/ EvaluationOK(s, e),
           t = ticket[s] \/ TicketOK(t, evaluation[s]),
           f = fill[s] \/ (ticket[s] # None /\ EntryIsBounded(s, f))
    PROVE  /\ signal'[s] # None => SignalOK(signal[s])'
           /\ evaluation'[s] # None => EvaluationOK(s, evaluation[s])'
           /\ ticket'[s] # None => TicketOK(ticket[s], evaluation[s])'
           /\ fill'[s] # None => ticket'[s] # None /\ EntryIsBounded(s, fill[s])'
<1>1. row # None => SignalOK(row)'
  BY ChainOf, SignalKept
<1>2. e # None => EvaluationOK(s, e)'
  BY ChainOf, EvaluationKept
<1>3. t # None => TicketOK(t, e)'
  <2> SUFFICES ASSUME t # None PROVE TicketOK(t, e)'
    OBVIOUS
  <2>1. TicketOK(t, evaluation[s])
    BY ChainOf
  <2>2. e = evaluation[s]
    BY <2>1 DEF TicketOK, Grows, RowsStay
  <2> QED BY <2>1, <2>2, TicketKept
<1>4. f # None => ticket'[s] # None /\ EntryIsBounded(s, f)'
  <2> SUFFICES ASSUME f # None PROVE ticket'[s] # None /\ EntryIsBounded(s, f)'
    OBVIOUS
  <2>1. ticket[s] # None /\ EntryIsBounded(s, f)
    BY ChainOf
  <2>2. ticket'[s] # None
    BY <2>1 DEF Grows, RowsStay
  <2> QED BY <2>1, <2>2, EntryKept
<1> QED BY <1>1, <1>2, <1>3, <1>4

LEMMA RecordSignalKeeps ==
    ASSUME IInv, NEW w \in Workers, RecordSignal(w) PROVE IInv'
<1> PICK job : job = worker[w]
  OBVIOUS
<1> PICK x, new : x = job.signal /\ new = job.row
  OBVIOUS
<1>1. job.at = "signal" /\ JobOK(job)
  BY DEF RecordSignal, IInv, JobsKept
<1>2. x \in Signals /\ SignalOK(new)
  BY <1>1 DEF JobOK, Idle
<1>3. /\ signal' = IF signal[x] = None THEN [signal EXCEPT ![x] = new] ELSE signal
      /\ worker' = [worker EXCEPT ![w] = Idle]
      /\ UNCHANGED <<clock, changes, killSwitch, research, approval, evaluation,
                     ticket, fill>>
  BY DEF RecordSignal
<1>4. DOMAIN signal' = Signals
  BY <1>3, Tables
<1>5. ASSUME NEW s \in Signals
      PROVE  signal'[s] = signal[s] \/ (signal[s] = None /\ signal'[s] = new)
  <2>1. CASE signal[x] = None
    BY <1>3, <2>1, Tables
  <2>2. CASE signal[x] # None
    BY <1>3, <2>2
  <2> QED BY <2>1, <2>2
<1>6. Grows
  BY <1>3, <1>5, Clock DEF Grows, RunStays, ValidationStays, GrantsStay, RowsStay, research
<1>7. JobsKept' /\ DOMAIN worker' = Workers
  BY <1>3, <1>6, JobsEnd
<1>8. ChainKept'
  <2> SUFFICES ASSUME NEW s \in Signals
               PROVE  /\ signal'[s] # None => SignalOK(signal[s])'
                      /\ evaluation'[s] # None => EvaluationOK(s, evaluation[s])'
                      /\ ticket'[s] # None => TicketOK(ticket[s], evaluation[s])'
                      /\ fill'[s] # None => ticket'[s] # None /\ EntryIsBounded(s, fill[s])'
    BY DEF ChainKept
  <2> PICK row, e, t, f :
        row = signal'[s] /\ e = evaluation'[s] /\ t = ticket'[s] /\ f = fill'[s]
    OBVIOUS
  <2>1. row = signal[s] \/ SignalOK(row)
    BY <1>2, <1>5
  <2>2. e = evaluation[s] /\ t = ticket[s] /\ f = fill[s]
    BY <1>3
  <2> QED BY <1>6, <2>1, <2>2, RowsAfter
<1> QED BY <1>3, <1>4, <1>6, <1>7, <1>8, Tables, ChainWritten

LEMMA SavePaperRiskEvaluationKeeps ==
    ASSUME IInv, NEW w \in Workers, SavePaperRiskEvaluation(w) PROVE IInv'
<1> PICK job : job = worker[w]
  OBVIOUS
<1> PICK x, new : x = job.signal /\ new = job.evaluation
  OBVIOUS
<1>1. job.at = "save" /\ JobOK(job)
  BY DEF SavePaperRiskEvaluation, IInv, JobsKept
<1>2. x \in Signals /\ EvaluationOK(x, new)
  BY <1>1 DEF JobOK, Idle
<1>3. /\ evaluation' = IF evaluation[x] = None THEN [evaluation EXCEPT ![x] = new]
                       ELSE evaluation
      /\ UNCHANGED <<clock, changes, killSwitch, research, approval, signal, ticket, fill>>
  BY DEF SavePaperRiskEvaluation
<1>4. DOMAIN evaluation' = Signals
  BY <1>3, Tables
<1>5. ASSUME NEW s \in Signals
      PROVE  \/ evaluation'[s] = evaluation[s]
             \/ s = x /\ evaluation[s] = None /\ evaluation'[s] = new
  <2>1. CASE evaluation[x] = None
    BY <1>3, <2>1, Tables
  <2>2. CASE evaluation[x] # None
    BY <1>3, <2>2
  <2> QED BY <2>1, <2>2
<1>6. Grows
  BY <1>3, <1>5, Clock DEF Grows, RunStays, ValidationStays, GrantsStay, RowsStay, research
<1>7. JobsKept' /\ DOMAIN worker' = Workers
  <2>1. \/ worker' = [worker EXCEPT ![w] = Idle]
        \/ evaluation[x] = None /\ Proceed(w, x, new)
        \/ evaluation[x] # None /\ Proceed(w, x, evaluation[x])
    BY DEF SavePaperRiskEvaluation
  <2>2. PICK e : e = evaluation'[x]
    OBVIOUS
  <2>3. e # None
    BY <1>2, <1>3, <2>2, Tables DEF EvaluationOK
  <2>4. worker' = [worker EXCEPT ![w] = Idle] \/ Proceed(w, x, e)
    BY <1>2, <1>3, <2>1, <2>2, Tables
  <2> PICK next : next = [at |-> "order", signal |-> x, evaluation |-> e]
    OBVIOUS
  <2>5. \/ worker' = [worker EXCEPT ![w] = Idle]
        \/ e.decision.approved /\ worker' = [worker EXCEPT ![w] = next]
    BY <2>4 DEF Proceed
  <2>6. CASE worker' = [worker EXCEPT ![w] = Idle]
    BY <1>6, <2>6, JobsEnd
  <2>7. CASE e.decision.approved /\ worker' = [worker EXCEPT ![w] = next]
    <3>1. next.at = "order" /\ next.signal = x /\ next.evaluation = e
      OBVIOUS
    <3>2. JobOK(next)'
      BY <1>2, <2>2, <2>3, <2>7, <3>1 DEF JobOK
    <3> QED BY <1>6, <2>7, <3>2, JobsFrame
  <2> QED BY <2>5, <2>6, <2>7
<1>8. ChainKept'
  <2> SUFFICES ASSUME NEW s \in Signals
               PROVE  /\ signal'[s] # None => SignalOK(signal[s])'
                      /\ evaluation'[s] # None => EvaluationOK(s, evaluation[s])'
                      /\ ticket'[s] # None => TicketOK(ticket[s], evaluation[s])'
                      /\ fill'[s] # None => ticket'[s] # None /\ EntryIsBounded(s, fill[s])'
    BY DEF ChainKept
  <2> PICK row, e, t, f :
        row = signal'[s] /\ e = evaluation'[s] /\ t = ticket'[s] /\ f = fill'[s]
    OBVIOUS
  <2>1. e = evaluation[s] \/ EvaluationOK(s, e)
    BY <1>2, <1>5
  <2>2. row = signal[s] /\ t = ticket[s] /\ f = fill[s]
    BY <1>3
  <2> QED BY <1>6, <2>1, <2>2, RowsAfter
<1> QED BY <1>3, <1>4, <1>6, <1>7, <1>8, Tables, ChainWritten

LEMMA RecordOrderTicketKeeps ==
    ASSUME IInv, NEW w \in Workers, RecordOrderTicket(w) PROVE IInv'
<1> PICK job : job = worker[w]
  OBVIOUS
<1> PICK x, new : x = job.signal /\ new = job.ticket
  OBVIOUS
<1>1. job.at = "ticket" /\ JobOK(job)
  BY DEF RecordOrderTicket, IInv, JobsKept
<1>2. x \in Signals /\ TicketOK(new, evaluation[x])
  BY <1>1 DEF JobOK, Idle
<1>3. /\ ticket' = IF ticket[x] = None THEN [ticket EXCEPT ![x] = new] ELSE ticket
      /\ worker' = [worker EXCEPT ![w] = Idle]
      /\ UNCHANGED <<clock, changes, killSwitch, research, approval, signal,
                     evaluation, fill>>
  BY DEF RecordOrderTicket
<1>4. DOMAIN ticket' = Signals
  BY <1>3, Tables
<1>5. ASSUME NEW s \in Signals
      PROVE  \/ ticket'[s] = ticket[s]
             \/ s = x /\ ticket[s] = None /\ ticket'[s] = new
  <2>1. CASE ticket[x] = None
    BY <1>3, <2>1, Tables
  <2>2. CASE ticket[x] # None
    BY <1>3, <2>2
  <2> QED BY <2>1, <2>2
<1>6. Grows
  BY <1>3, <1>5, Clock DEF Grows, RunStays, ValidationStays, GrantsStay, RowsStay, research
<1>7. JobsKept' /\ DOMAIN worker' = Workers
  BY <1>3, <1>6, JobsEnd
<1>8. ChainKept'
  <2> SUFFICES ASSUME NEW s \in Signals
               PROVE  /\ signal'[s] # None => SignalOK(signal[s])'
                      /\ evaluation'[s] # None => EvaluationOK(s, evaluation[s])'
                      /\ ticket'[s] # None => TicketOK(ticket[s], evaluation[s])'
                      /\ fill'[s] # None => ticket'[s] # None /\ EntryIsBounded(s, fill[s])'
    BY DEF ChainKept
  <2> PICK row, e, t, f :
        row = signal'[s] /\ e = evaluation'[s] /\ t = ticket'[s] /\ f = fill'[s]
    OBVIOUS
  <2>1. t = ticket[s] \/ TicketOK(t, evaluation[s])
    BY <1>2, <1>5
  <2>2. row = signal[s] /\ e = evaluation[s] /\ f = fill[s]
    BY <1>3
  <2> QED BY <1>6, <2>1, <2>2, RowsAfter
<1> QED BY <1>3, <1>4, <1>6, <1>7, <1>8, Tables, ChainWritten

\* A fill is written only for a job that was authorized, and only if the
\* condition of the INSERT holds.
LEMMA FillWritten ==
    ASSUME IInv, NEW w \in Workers, RecordOrderFill(w), NEW s \in Signals
    PROVE  \/ fill'[s] = fill[s]
           \/ /\ fill[s] = None /\ ticket[s] # None /\ EligibleSignalSource(s)
              /\ fill'[s] = worker[w].fill /\ EntryIsBounded(s, worker[w].fill)
<1> PICK job : job = worker[w]
  OBVIOUS
<1> PICK x, new : x = job.signal /\ new = job.fill
  OBVIOUS
<1>1. job.at = "fill" /\ JobOK(job)
  BY DEF RecordOrderFill, IInv, JobsKept
<1>2. x \in Signals /\ ticket[x] # None /\ EntryIsBounded(x, new)
  BY <1>1 DEF JobOK, Idle
<1>3. fill' = IF EligibleSignalSource(x) /\ fill[x] = None
              THEN [fill EXCEPT ![x] = new] ELSE fill
  BY DEF RecordOrderFill
<1>4. CASE EligibleSignalSource(x) /\ fill[x] = None
  BY <1>2, <1>3, <1>4, Tables
<1>5. CASE ~(EligibleSignalSource(x) /\ fill[x] = None)
  BY <1>3, <1>5
<1> QED BY <1>4, <1>5

LEMMA RecordOrderFillKeeps ==
    ASSUME IInv, NEW w \in Workers, RecordOrderFill(w) PROVE IInv'
<1>3. /\ worker' = [worker EXCEPT ![w] = Idle]
      /\ UNCHANGED <<clock, changes, killSwitch, research, approval, signal,
                     evaluation, ticket>>
  BY DEF RecordOrderFill
<1>4. DOMAIN fill' = Signals
  BY Tables DEF RecordOrderFill
<1>6. Grows
  BY <1>3, Clock DEF Grows, RunStays, ValidationStays, GrantsStay, RowsStay, research
<1>7. JobsKept' /\ DOMAIN worker' = Workers
  BY <1>3, <1>6, JobsEnd
<1>8. ChainKept'
  <2> SUFFICES ASSUME NEW s \in Signals
               PROVE  /\ signal'[s] # None => SignalOK(signal[s])'
                      /\ evaluation'[s] # None => EvaluationOK(s, evaluation[s])'
                      /\ ticket'[s] # None => TicketOK(ticket[s], evaluation[s])'
                      /\ fill'[s] # None => ticket'[s] # None /\ EntryIsBounded(s, fill[s])'
    BY DEF ChainKept
  <2> PICK row, e, t, f :
        row = signal'[s] /\ e = evaluation'[s] /\ t = ticket'[s] /\ f = fill'[s]
    OBVIOUS
  <2>1. f = fill[s] \/ (ticket[s] # None /\ EntryIsBounded(s, f))
    <3>1. CASE fill'[s] = fill[s]
      BY <3>1
    <3>2. CASE fill'[s] # fill[s]
      <4>1. ticket[s] # None /\ fill'[s] = worker[w].fill /\ EntryIsBounded(s, worker[w].fill)
        BY <3>2, FillWritten
      <4> QED BY <4>1
    <3> QED BY <3>1, <3>2
  <2>2. row = signal[s] /\ e = evaluation[s] /\ t = ticket[s]
    BY <1>3
  <2> QED BY <1>6, <2>1, <2>2, RowsAfter
<1> QED BY <1>3, <1>4, <1>6, <1>7, <1>8, Tables, ChainWritten

(***************************************************************************)
(* The rest of the world, and the invariant.                               *)
(***************************************************************************)
LEMMA ToggleKillSwitchKeeps ==
    ASSUME IInv, ToggleKillSwitch PROVE IInv'
<1>1. /\ UNCHANGED <<clock, research, approval, entry, worker>>
      /\ killSwitch' \in BOOLEAN /\ changes' \in 0..MaxChanges
  BY Counted DEF ToggleKillSwitch, IInv, TypeOK
<1>2. Grows
  BY <1>1, NothingWritten
<1>3. TypeOK'
  BY <1>1 DEF IInv, TypeOK, research, entry
<1>4. EvidenceKept'
  BY <1>1 DEF IInv, EvidenceKept, research
<1>5. ChainKept' /\ JobsKept'
  BY <1>1, <1>2, ChainFrame, JobsStay
<1> QED BY <1>3, <1>4, <1>5 DEF IInv

LEMMA TickKeeps ==
    ASSUME IInv, Tick PROVE IInv'
<1>1. /\ clock < MaxClock /\ clock' = clock + 1
      /\ UNCHANGED <<changes, killSwitch, research, approval, entry, worker>>
  BY DEF Tick
<1>2. clock' \in clock..MaxClock /\ clock' \in Times /\ 0..clock \subseteq 0..clock'
  BY <1>1, Clock DEF Times
<1>3. Grows
  BY <1>1, <1>2 DEF Grows, RunStays, ValidationStays, GrantsStay, RowsStay, research, entry
<1>4. TypeOK'
  <2>1. hypothesis' \in Rows([content : Contents, importedAt : 0..clock'])
    BY <1>1, <1>2 DEF IInv, TypeOK, Rows, research
  <2>2. run' \in Rows([hash : Contents, status : {"PLANNED"} \union FinalStatuses,
                       scopes : {Specs[content].scopes : content \in Contents},
                       plannedAt : 0..clock', windowStart : {0}, windowEnd : {WindowEnd}])
    BY <1>1, <1>2 DEF IInv, TypeOK, Rows, research
  <2>3. result' # None => ValidResult(result') /\ result'.recordedAt \in 0..clock'
    BY <1>1, <1>2 DEF IInv, TypeOK, research
  <2>4. validation' \in Rows(Validations')
    <3>1. -1..clock \subseteq -1..clock'
      BY <1>1, Clock
    <3> QED BY <1>1, <1>2, <3>1 DEF IInv, TypeOK, Rows, Validations, research
  <2>5. approval' \in [Approvals -> Rows(Grants')]
    BY <1>1, <1>2 DEF IInv, TypeOK, Rows, Grants
  <2> QED BY <1>1, <1>2, <2>1, <2>2, <2>3, <2>4, <2>5
          DEF IInv, TypeOK, Validations, Grants, entry
<1>5. EvidenceKept'
  BY <1>1, Clock DEF IInv, EvidenceKept, research
<1>6. ChainKept' /\ JobsKept'
  BY <1>1, <1>3, ChainFrame, JobsStay
<1> QED BY <1>4, <1>5, <1>6 DEF IInv

LEMMA InitOK == Init => IInv
<1> SUFFICES ASSUME Init PROVE IInv
  OBVIOUS
<1>1. TypeOK
  <2>1. clock \in Times /\ changes \in 0..MaxChanges /\ killSwitch \in BOOLEAN
    <3>1. MaxClock \in Nat /\ MaxChanges \in Nat
      BY EntryAssumption
    <3>2. clock = 0 /\ changes = 0
      BY DEF Init
    <3>3. killSwitch \in BOOLEAN
      BY DEF Init
    <3> QED BY <3>1, <3>2, <3>3 DEF Times
  <2>2. /\ hypothesis = None /\ run = None /\ result = None /\ validation = None
        /\ approval = [a \in Approvals |-> None]
    BY DEF Init
  <2>3. /\ \A table \in {signal, evaluation, ticket, fill} : DOMAIN table = Signals
        /\ DOMAIN worker = Workers
    BY DEF Init
  <2>4. \A set : None \in Rows(set) /\ approval \in [Approvals -> Rows(set)]
    BY <2>2 DEF Rows
  <2> QED BY <2>1, <2>2, <2>3, <2>4 DEF TypeOK
<1>2. EvidenceKept
  BY DEF Init, EvidenceKept
<1>3. ChainKept
  BY DEF Init, ChainKept
<1>4. JobsKept
  <2> SUFFICES ASSUME NEW w \in Workers PROVE JobOK(worker[w])
    BY DEF JobsKept
  <2>1. worker[w] = Idle
    BY DEF Init
  <2> QED BY <2>1, IdleIsOK
<1> QED BY <1>1, <1>2, <1>3, <1>4 DEF IInv

LEMMA StutterKeeps == ASSUME IInv, UNCHANGED vars PROVE IInv'
<1>1. UNCHANGED <<clock, changes, killSwitch, research, approval, entry, worker>>
  BY DEF vars
<1>2. Grows
  BY <1>1, NothingWritten
<1>3. TypeOK'
  BY <1>1 DEF IInv, TypeOK, research, entry
<1>4. EvidenceKept'
  BY <1>1 DEF IInv, EvidenceKept, research
<1>5. ChainKept' /\ JobsKept'
  BY <1>1, <1>2, ChainFrame, JobsStay
<1> QED BY <1>3, <1>4, <1>5 DEF IInv

LEMMA ResearchKeeps == ASSUME IInv, Research PROVE IInv'
<1>1. CASE \E content \in Contents : ImportAndStore(content)
  BY <1>1, ImportAndStoreKeeps
<1>2. CASE StopValidation
  BY <1>2, StopValidationKeeps
<1>3. ASSUME NEW w \in Workers,
             \/ Schedule(w) \/ UpsertRuns(w) \/ RecordResult(w)
             \/ ValidateCandidate(w) \/ RecordValidation(w)
             \/ StartValidation(w) \/ TransitionValidation(w)
      PROVE  IInv'
  BY <1>3, ScheduleKeeps, UpsertRunsKeeps, RecordResultKeeps, ValidateCandidateKeeps,
     RecordValidationKeeps, StartValidationKeeps, TransitionValidationKeeps
<1>4. ASSUME NEW w \in Workers,
             BacktestRules(w) \/ DryRun(w) \/ EvaluateRules(w) \/ RecordStatedResult(w)
      PROVE  IInv'
  BY <1>4, RecordersKeep
<1> QED BY <1>1, <1>2, <1>3, <1>4 DEF Research

LEMMA EntryKeeps == ASSUME IInv, Entry PROVE IInv'
<1>1. CASE \E a \in Approvals : Revoke(a)
  BY <1>1, RevokeKeeps
<1>2. ASSUME NEW w \in Workers, NEW a \in Approvals,
             GrantPaper(w, a) \/ \E s \in Signals : GenerateAndRecord(w, s, a)
      PROVE  IInv'
  BY <1>2, GrantPaperKeeps, GenerateAndRecordKeeps
<1>3. ASSUME NEW w \in Workers, NEW s \in Signals,
             EvaluateStoredSignal(w, s) \/ AuthorizePaperEntry(w, s)
      PROVE  IInv'
  BY <1>3, EvaluateStoredSignalKeeps, AuthorizePaperEntryKeeps
<1>4. ASSUME NEW w \in Workers,
             \/ RecordPaperApproval(w) \/ RecordSignal(w)
             \/ SavePaperRiskEvaluation(w) \/ OrderSignal(w)
             \/ RecordOrderTicket(w) \/ RecordOrderFill(w) \/ Crash(w)
      PROVE  IInv'
  BY <1>4, RecordPaperApprovalKeeps, RecordSignalKeeps, SavePaperRiskEvaluationKeeps,
     OrderSignalKeeps, RecordOrderTicketKeeps, RecordOrderFillKeeps, CrashKeeps
<1> QED BY <1>1, <1>2, <1>3, <1>4 DEF Entry

LEMMA NextKeeps == IInv /\ [Next]_vars => IInv'
BY ResearchKeeps, EntryKeeps, ToggleKillSwitchKeeps, TickKeeps, StutterKeeps DEF Next

\* The tables of the pipeline stay consistent with each other, and with what
\* the commands in progress have decided to write, whatever the others do
\* between the reads of a command and its writes.
THEOREM Invariance == Spec => []IInv
<1> QED BY InitOK, NextKeeps, PTL DEF Spec

\* Every simulated entry is of the decision, the grant, the hypothesis and the
\* run it names, and loses at its stop no more than both limits allow.
THEOREM Bounded == Spec => []EntriesAreBounded
<1>1. IInv => EntriesAreBounded
  BY DEF IInv, ChainKept, EntriesAreBounded
<1> QED BY <1>1, Invariance, PTL

(***************************************************************************)
(* What the steps do to the chain.                                         *)
(***************************************************************************)
LEMMA OtherStepsWriteNoEntry ==
    ASSUME [Next]_vars, \A w \in Workers : ~RecordOrderFill(w)
    PROVE  fill' = fill
<1>1. CASE Research
  BY <1>1, ZenonT(60) DEF Research, entry, ImportAndStore, StopValidation, Schedule, Prepare, UpsertRuns,
     BacktestRules, DryRun, EvaluateRules, StartRecord, RecordStatedResult, RecordResult,
     ValidateCandidate, RecordValidation, StartValidation, TransitionValidation
<1>2. CASE Entry
  <2>1. ASSUME NEW a \in Approvals, Revoke(a) PROVE fill' = fill
    BY <2>1 DEF Revoke, entry
  <2>2. ASSUME NEW w \in Workers, NEW a \in Approvals,
               GrantPaper(w, a) \/ \E s \in Signals : GenerateAndRecord(w, s, a)
        PROVE  fill' = fill
    <3>1. CASE GrantPaper(w, a)
      BY <3>1 DEF GrantPaper, Prepare, entry
    <3>2. ASSUME NEW s \in Signals, GenerateAndRecord(w, s, a)
          PROVE  \E job : Prepare(w, job)
      BY <3>2 DEF GenerateAndRecord
    <3> QED BY <2>2, <3>1, <3>2 DEF Prepare, entry
  <2>3. ASSUME NEW w \in Workers, NEW s \in Signals,
               EvaluateStoredSignal(w, s) \/ AuthorizePaperEntry(w, s)
        PROVE  fill' = fill
    BY <2>3 DEF EvaluateStoredSignal, AuthorizePaperEntry, entry
  <2>4. ASSUME NEW w \in Workers,
               \/ RecordPaperApproval(w) \/ RecordSignal(w)
               \/ SavePaperRiskEvaluation(w) \/ OrderSignal(w)
               \/ RecordOrderTicket(w) \/ Crash(w)
        PROVE  fill' = fill
    BY <2>4 DEF RecordPaperApproval, RecordSignal, SavePaperRiskEvaluation, OrderSignal,
       RecordOrderTicket, Crash, entry
  <2> QED BY <1>2, <2>1, <2>2, <2>3, <2>4 DEF Entry
<1>3. CASE ToggleKillSwitch \/ Tick
  BY <1>3 DEF ToggleKillSwitch, Tick, entry
<1>4. CASE UNCHANGED vars
  BY <1>4 DEF vars, entry
<1> QED BY <1>1, <1>2, <1>3, <1>4, SMTT(60) DEF Next

LEMMA OtherStepsKeepTheBook ==
    ASSUME [Next]_vars,
           \A w \in Workers : /\ ~RecordOrderFill(w) /\ ~RecordOrderTicket(w)
                              /\ ~SavePaperRiskEvaluation(w)
    PROVE  UNCHANGED <<evaluation, ticket, fill>>
<1>1. CASE Research
  BY <1>1, ZenonT(60) DEF Research, entry, ImportAndStore, StopValidation, Schedule, Prepare, UpsertRuns,
     BacktestRules, DryRun, EvaluateRules, StartRecord, RecordStatedResult, RecordResult,
     ValidateCandidate, RecordValidation, StartValidation, TransitionValidation
<1>2. CASE Entry
  <2>1. ASSUME NEW a \in Approvals, Revoke(a)
        PROVE  UNCHANGED <<evaluation, ticket, fill>>
    BY <2>1 DEF Revoke, entry
  <2>2. ASSUME NEW w \in Workers, NEW a \in Approvals,
               GrantPaper(w, a) \/ \E s \in Signals : GenerateAndRecord(w, s, a)
        PROVE  UNCHANGED <<evaluation, ticket, fill>>
    <3>1. CASE GrantPaper(w, a)
      BY <3>1 DEF GrantPaper, Prepare, entry
    <3>2. ASSUME NEW s \in Signals, GenerateAndRecord(w, s, a)
          PROVE  \E job : Prepare(w, job)
      BY <3>2 DEF GenerateAndRecord
    <3> QED BY <2>2, <3>1, <3>2 DEF Prepare, entry
  <2>3. ASSUME NEW w \in Workers, NEW s \in Signals,
               EvaluateStoredSignal(w, s) \/ AuthorizePaperEntry(w, s)
        PROVE  UNCHANGED <<evaluation, ticket, fill>>
    BY <2>3 DEF EvaluateStoredSignal, AuthorizePaperEntry, entry
  <2>4. ASSUME NEW w \in Workers,
               RecordPaperApproval(w) \/ RecordSignal(w) \/ OrderSignal(w) \/ Crash(w)
        PROVE  UNCHANGED <<evaluation, ticket, fill>>
    BY <2>4 DEF RecordPaperApproval, RecordSignal, OrderSignal, Crash, entry
  <2> QED BY <1>2, <2>1, <2>2, <2>3, <2>4 DEF Entry
<1>3. CASE ToggleKillSwitch \/ Tick
  BY <1>3 DEF ToggleKillSwitch, Tick, entry
<1>4. CASE UNCHANGED vars
  BY <1>4 DEF vars, entry
<1> QED BY <1>1, <1>2, <1>3, <1>4 DEF Next

\* The INSERT of a fill finds the grant and the validation as they are now:
\* an authorization made before a revocation writes nothing after it.
THEOREM NothingAfterRevocation == Spec => NoEntryAfterRevocation
<1> DEFINE Covered0 == \A s \in Signals : fill'[s] # fill[s] =>
               /\ ~approval[ticket[s].approval].revoked
               /\ validation.status = "RUNNING"
<1>1. ASSUME IInv, [Next]_vars PROVE Covered0
  <2> SUFFICES ASSUME NEW s \in Signals, fill'[s] # fill[s]
               PROVE  /\ ~approval[ticket[s].approval].revoked
                      /\ validation.status = "RUNNING"
    OBVIOUS
  <2>1. PICK w \in Workers : RecordOrderFill(w)
    BY <1>1, OtherStepsWriteNoEntry
  <2>2. ticket[s] # None /\ EligibleSignalSource(s)
    BY <1>1, <2>1, FillWritten
  <2>3. ticket[s].approval = evaluation[s].approval
    BY <1>1, <2>2, OrderHasGrant
  <2> QED BY <2>2, <2>3 DEF EligibleSignalSource
<1> QED BY <1>1, Invariance, PTL DEF Spec, NoEntryAfterRevocation

(***************************************************************************)
(* The pipeline implements SignalDecision.                                 *)
(***************************************************************************)
\* A book that differs from another for one signal.
LEMMA BookAfter ==
    ASSUME NEW x \in Signals,
           \A s \in Signals : s # x => /\ evaluation'[s] = evaluation[s]
                                       /\ ticket'[s] = ticket[s] /\ fill'[s] = fill[s]
    PROVE  Book' = [Book EXCEPT ![x] = Book'[x]]
<1> PICK before, after : before = Book /\ after = Book'
  OBVIOUS
<1>1. /\ before = [s \in Signals |-> before[s]] /\ after = [s \in Signals |-> after[s]]
      /\ DOMAIN before = Signals /\ DOMAIN after = Signals
  BY DEF Book
<1>2. ASSUME NEW s \in Signals, s # x PROVE after[s] = before[s]
  BY <1>2 DEF Book
<1>3. after = [before EXCEPT ![x] = after[x]]
  BY <1>1, <1>2
<1> QED BY <1>3

\* Changing fields of an entry is replacing it.
LEMMA FieldsAfter ==
    ASSUME NEW x \in Signals, NEW rows, DOMAIN rows = Signals,
           NEW d, NEW a, NEW o, NEW n,
           rows[x] = [decision |-> d, allowed |-> a, ordered |-> o, entered |-> n]
    PROVE  /\ \A e : [rows EXCEPT ![x].decision = e]
              = [rows EXCEPT ![x] =
                   [decision |-> e, allowed |-> a, ordered |-> o, entered |-> n]]
           /\ \A q : [rows EXCEPT ![x].ordered = q]
              = [rows EXCEPT ![x] =
                   [decision |-> d, allowed |-> a, ordered |-> q, entered |-> n]]
           /\ \A q : [rows EXCEPT ![x].entered = q]
              = [rows EXCEPT ![x] =
                   [decision |-> d, allowed |-> a, ordered |-> o, entered |-> q]]
<1> PICK row : row = rows[x]
  OBVIOUS
<1>1. ASSUME NEW e
      PROVE  [rows EXCEPT ![x].decision = e] = [rows EXCEPT ![x] =
                [decision |-> e, allowed |-> a, ordered |-> o, entered |-> n]]
  <2>1. [row EXCEPT !.decision = e]
          = [decision |-> e, allowed |-> a, ordered |-> o, entered |-> n]
    OBVIOUS
  <2>2. [rows EXCEPT ![x].decision = e] = [rows EXCEPT ![x] = [row EXCEPT !.decision = e]]
    OBVIOUS
  <2> QED BY <2>1, <2>2
<1>2. ASSUME NEW q
      PROVE  [rows EXCEPT ![x].ordered = q] = [rows EXCEPT ![x] =
                [decision |-> d, allowed |-> a, ordered |-> q, entered |-> n]]
  <2>1. [row EXCEPT !.ordered = q]
          = [decision |-> d, allowed |-> a, ordered |-> q, entered |-> n]
    OBVIOUS
  <2>2. [rows EXCEPT ![x].ordered = q] = [rows EXCEPT ![x] = [row EXCEPT !.ordered = q]]
    OBVIOUS
  <2> QED BY <2>1, <2>2
<1>3. ASSUME NEW q
      PROVE  [rows EXCEPT ![x].entered = q] = [rows EXCEPT ![x] =
                [decision |-> d, allowed |-> a, ordered |-> o, entered |-> q]]
  <2>1. [row EXCEPT !.entered = q]
          = [decision |-> d, allowed |-> a, ordered |-> o, entered |-> q]
    OBVIOUS
  <2>2. [rows EXCEPT ![x].entered = q] = [rows EXCEPT ![x] = [row EXCEPT !.entered = q]]
    OBVIOUS
  <2> QED BY <2>1, <2>2
<1> QED BY <1>1, <1>2, <1>3

LEMMA BookDomain == DOMAIN Book = Signals
BY DEF Book

LEMMA DecisionWritten ==
    ASSUME IInv, NEW w \in Workers, SavePaperRiskEvaluation(w)
    PROVE  \/ UNCHANGED <<evaluation, ticket, fill>>
           \/ \E x \in Signals : \E e :
                 /\ EvaluationOK(x, e) /\ evaluation[x] = None
                 /\ evaluation' = [evaluation EXCEPT ![x] = e]
                 /\ UNCHANGED <<ticket, fill>>
<1> PICK job : job = worker[w]
  OBVIOUS
<1> PICK x, new : x = job.signal /\ new = job.evaluation
  OBVIOUS
<1>1. job.at = "save" /\ JobOK(job)
  BY DEF SavePaperRiskEvaluation, IInv, JobsKept
<1>2. x \in Signals /\ EvaluationOK(x, new)
  BY <1>1 DEF JobOK, Idle
<1>3. /\ evaluation' = IF evaluation[x] = None THEN [evaluation EXCEPT ![x] = new]
                       ELSE evaluation
      /\ UNCHANGED <<ticket, fill>>
  BY DEF SavePaperRiskEvaluation
<1> QED BY <1>2, <1>3

LEMMA OrderWritten ==
    ASSUME IInv, NEW w \in Workers, RecordOrderTicket(w)
    PROVE  \/ UNCHANGED <<evaluation, ticket, fill>>
           \/ \E x \in Signals : \E t :
                 /\ TicketOK(t, evaluation[x]) /\ ticket[x] = None
                 /\ ticket' = [ticket EXCEPT ![x] = t]
                 /\ UNCHANGED <<evaluation, fill>>
<1> PICK job : job = worker[w]
  OBVIOUS
<1> PICK x, new : x = job.signal /\ new = job.ticket
  OBVIOUS
<1>1. job.at = "ticket" /\ JobOK(job)
  BY DEF RecordOrderTicket, IInv, JobsKept
<1>2. x \in Signals /\ TicketOK(new, evaluation[x])
  BY <1>1 DEF JobOK, Idle
<1>3. /\ ticket' = IF ticket[x] = None THEN [ticket EXCEPT ![x] = new] ELSE ticket
      /\ UNCHANGED <<evaluation, fill>>
  BY DEF RecordOrderTicket
<1> QED BY <1>2, <1>3

LEMMA EntryWritten ==
    ASSUME IInv, NEW w \in Workers, RecordOrderFill(w)
    PROVE  \/ UNCHANGED <<evaluation, ticket, fill>>
           \/ \E x \in Signals : \E f :
                 /\ EntryIsBounded(x, f) /\ ticket[x] # None /\ fill[x] = None
                 /\ fill' = [fill EXCEPT ![x] = f]
                 /\ UNCHANGED <<evaluation, ticket>>
<1> PICK job : job = worker[w]
  OBVIOUS
<1> PICK x, new : x = job.signal /\ new = job.fill
  OBVIOUS
<1>1. job.at = "fill" /\ JobOK(job)
  BY DEF RecordOrderFill, IInv, JobsKept
<1>2. x \in Signals /\ ticket[x] # None /\ EntryIsBounded(x, new)
  BY <1>1 DEF JobOK, Idle
<1>3. /\ fill' = IF EligibleSignalSource(x) /\ fill[x] = None
                 THEN [fill EXCEPT ![x] = new] ELSE fill
      /\ UNCHANGED <<evaluation, ticket>>
  BY DEF RecordOrderFill
<1> QED BY <1>2, <1>3

\* Without a decision there is no order, without an order no entry.
LEMMA BookOrder ==
    ASSUME IInv, NEW s \in Signals
    PROVE  /\ ticket[s] # None => /\ evaluation[s] # None
                                  /\ evaluation[s].decision.approved
                                  /\ ticket[s].quantity = evaluation[s].decision.finalQuantity
                                  /\ evaluation[s].decision.finalQuantity \in 1..MaxQuantity
           /\ fill[s] # None => ticket[s] # None
<1>1. fill[s] # None => ticket[s] # None
  BY DEF IInv, ChainKept
<1>2. ASSUME ticket[s] # None
      PROVE  /\ evaluation[s] # None /\ evaluation[s].decision.approved
             /\ ticket[s].quantity = evaluation[s].decision.finalQuantity
             /\ evaluation[s].decision.finalQuantity \in 1..MaxQuantity
  <2>1. TicketOK(ticket[s], evaluation[s])
    BY <1>2 DEF IInv, ChainKept
  <2>2. EvaluationOK(s, evaluation[s])
    BY <2>1 DEF TicketOK, IInv, ChainKept
  <2> QED BY <2>1, <2>2 DEF TicketOK, EvaluationOK
<1> QED BY <1>1, <1>2

LEMMA DecideSimulated ==
    ASSUME IInv, NEW x \in Signals, NEW e, EvaluationOK(x, e), evaluation[x] = None,
           evaluation' = [evaluation EXCEPT ![x] = e], UNCHANGED <<ticket, fill>>
    PROVE  Decisions!Decide(x)
<1>1. e # None /\ e.decision = Evaluate(e.input, RiskPolicy)
  BY DEF EvaluationOK, ValidatePaperRiskEvaluation
<1>2. /\ e.decision.approved => e.decision.finalQuantity \in 1..MaxQuantity
      /\ ~e.decision.approved => e.decision.finalQuantity = 0
  BY <1>1 DEF EvaluationOK, Evaluate
<1>3. ticket[x] = None /\ fill[x] = None
  BY BookOrder
<1>4. evaluation'[x] = e /\ \A s \in Signals : s # x => evaluation'[s] = evaluation[s]
  BY Tables
<1> PICK approved, quantity :
      approved = e.decision.approved /\ quantity = e.decision.finalQuantity
  OBVIOUS
<1>5. Book' = [Book EXCEPT ![x] = Book'[x]]
  BY <1>4, BookAfter
<1>6. Book[x] = [decision |-> "none", allowed |-> 0, ordered |-> 0, entered |-> 0]
  BY <1>3 DEF Book
<1>7. Book'[x] = [decision |-> IF approved THEN "approved" ELSE "rejected",
                  allowed |-> quantity, ordered |-> 0, entered |-> 0]
  BY <1>1, <1>3, <1>4 DEF Book
<1>8. CASE approved
  <2>1. /\ quantity \in 1..MaxQuantity
        /\ Book' = [Book EXCEPT ![x] = [decision |-> "approved", allowed |-> quantity,
                                        ordered |-> 0, entered |-> 0]]
    BY <1>2, <1>5, <1>7, <1>8
  <2>2. Book[x].decision = "none"
    BY <1>6
  <2> QED BY <2>1, <2>2 DEF Decisions!Decide
<1>9. CASE ~approved
  <2>1. Book' = [Book EXCEPT ![x].decision = "rejected"]
    BY <1>2, <1>5, <1>6, <1>7, <1>9, BookDomain, FieldsAfter
  <2> QED BY <1>6, <2>1 DEF Decisions!Decide
<1> QED BY <1>8, <1>9

LEMMA OrderSimulated ==
    ASSUME IInv, NEW x \in Signals, NEW t, TicketOK(t, evaluation[x]), ticket[x] = None,
           ticket' = [ticket EXCEPT ![x] = t], UNCHANGED <<evaluation, fill>>, t # None
    PROVE  Decisions!Order(x)
<1> PICK quantity : quantity = evaluation[x].decision.finalQuantity
  OBVIOUS
<1>1. evaluation[x] # None /\ evaluation[x].decision.approved /\ t.quantity = quantity
  BY DEF TicketOK
<1>2. fill[x] = None
  BY BookOrder
<1>3. ticket'[x] = t /\ \A s \in Signals : s # x => ticket'[s] = ticket[s]
  BY Tables
<1>4. Book' = [Book EXCEPT ![x] = Book'[x]]
  BY <1>3, BookAfter
<1>5. Book[x] = [decision |-> "approved", allowed |-> quantity, ordered |-> 0, entered |-> 0]
  BY <1>1, <1>2 DEF Book
<1>6. Book'[x] = [decision |-> "approved", allowed |-> quantity,
                  ordered |-> quantity, entered |-> 0]
  BY <1>1, <1>2, <1>3 DEF Book
<1>7. Book' = [Book EXCEPT ![x].ordered = Book[x].allowed]
  BY <1>4, <1>5, <1>6, BookDomain, FieldsAfter
<1> QED BY <1>5, <1>7 DEF Decisions!Order

LEMMA EnterSimulated ==
    ASSUME IInv, NEW x \in Signals, NEW f, EntryIsBounded(x, f), ticket[x] # None,
           fill[x] = None, f # None,
           fill' = [fill EXCEPT ![x] = f], UNCHANGED <<evaluation, ticket>>
    PROVE  Decisions!Enter(x)
<1> PICK quantity : quantity = evaluation[x].decision.finalQuantity
  OBVIOUS
<1>1. /\ evaluation[x] # None /\ evaluation[x].decision.approved
      /\ ticket[x].quantity = quantity /\ quantity \in 1..MaxQuantity
  BY BookOrder, SMTT(60)
<1>2. f.quantity = quantity
  BY DEF EntryIsBounded
<1>3. fill'[x] = f /\ \A s \in Signals : s # x => fill'[s] = fill[s]
  BY Tables
<1>4. Book' = [Book EXCEPT ![x] = Book'[x]]
  BY <1>3, BookAfter
<1>5. Book[x] = [decision |-> "approved", allowed |-> quantity,
                 ordered |-> quantity, entered |-> 0]
  BY <1>1 DEF Book
<1>6. Book'[x] = [decision |-> "approved", allowed |-> quantity,
                  ordered |-> quantity, entered |-> quantity]
  BY <1>1, <1>2, <1>3 DEF Book
<1>7. Book' = [Book EXCEPT ![x].entered = Book[x].ordered]
  BY <1>4, <1>5, <1>6, BookDomain, FieldsAfter
<1>8. Book[x].ordered > 0 /\ Book[x].entered = 0
  BY <1>1, <1>5, EntryAssumption
<1> QED BY <1>7, <1>8 DEF Decisions!Enter

LEMMA NextSimulated == IInv /\ [Next]_vars => [Decisions!Next]_Book
<1> SUFFICES ASSUME IInv, [Next]_vars PROVE Decisions!Next \/ Book' = Book
  OBVIOUS
<1>1. (\A s \in Signals : /\ evaluation'[s] = evaluation[s]
                          /\ ticket'[s] = ticket[s] /\ fill'[s] = fill[s])
      => Book' = Book
  BY DEF Book
<1>2. CASE \E w \in Workers : SavePaperRiskEvaluation(w)
  <2>1. PICK w \in Workers : SavePaperRiskEvaluation(w)
    BY <1>2
  <2>2. ASSUME NEW x \in Signals, NEW e, EvaluationOK(x, e), evaluation[x] = None,
               evaluation' = [evaluation EXCEPT ![x] = e], UNCHANGED <<ticket, fill>>
        PROVE  Decisions!Next
    BY <2>2, DecideSimulated DEF Decisions!Next
  <2> QED BY <1>1, <2>1, <2>2, DecisionWritten
<1>3. CASE \E w \in Workers : RecordOrderTicket(w)
  <2>1. PICK w \in Workers : RecordOrderTicket(w)
    BY <1>3
  <2>2. ASSUME NEW x \in Signals, NEW t, TicketOK(t, evaluation[x]), ticket[x] = None,
               ticket' = [ticket EXCEPT ![x] = t], UNCHANGED <<evaluation, fill>>
        PROVE  Decisions!Next \/ Book' = Book
    <3>1. CASE t = None
      <4>1. \A s \in Signals : ticket'[s] = ticket[s]
        BY <2>2, <3>1, Tables
      <4> QED BY <1>1, <2>2, <4>1
    <3>2. CASE t # None
      BY <2>2, <3>2, OrderSimulated DEF Decisions!Next
    <3> QED BY <3>1, <3>2
  <2> QED BY <1>1, <2>1, <2>2, OrderWritten
<1>4. CASE \E w \in Workers : RecordOrderFill(w)
  <2>1. PICK w \in Workers : RecordOrderFill(w)
    BY <1>4
  <2>2. ASSUME NEW x \in Signals, NEW f, EntryIsBounded(x, f), ticket[x] # None,
               fill[x] = None, fill' = [fill EXCEPT ![x] = f],
               UNCHANGED <<evaluation, ticket>>
        PROVE  Decisions!Next \/ Book' = Book
    <3>1. CASE f = None
      <4>1. \A s \in Signals : fill'[s] = fill[s]
        BY <2>2, <3>1, Tables
      <4> QED BY <1>1, <2>2, <4>1
    <3>2. CASE f # None
      BY <2>2, <3>2, EnterSimulated DEF Decisions!Next
    <3> QED BY <3>1, <3>2
  <2> QED BY <1>1, <2>1, <2>2, EntryWritten
<1>5. CASE \A w \in Workers : /\ ~RecordOrderFill(w) /\ ~RecordOrderTicket(w)
                              /\ ~SavePaperRiskEvaluation(w)
  BY <1>1, <1>5, OtherStepsKeepTheBook
<1> QED BY <1>2, <1>3, <1>4, <1>5

\* However submissions repeat and interleave, a signal gets one decision that
\* stays, an order of no more than it allows and one entry of that order.
THEOREM Implementation == Spec => EntryImplemented
<1>1. Init => Decisions!Init
  BY DEF Init, Book, Decisions!Init, Decisions!Untouched
<1> QED BY <1>1, NextSimulated, Invariance, PTL
        DEF Spec, EntryImplemented, Decisions!Spec

(***************************************************************************)
(* The trades a backtest is about to record.                               *)
(***************************************************************************)
IsBacktest(job) == job.at = "record" /\ job.kind = "backtest"

HonestJob(job) ==
    IsBacktest(job) =>
        LET trades == job.trades
            sample == Stored[job.dataset]
        IN  /\ \A i \in DOMAIN trades :
                  HonestSeries(Specs[run.hash], run, sample[i], trades[i])
            /\ OneAccount(job.result.metrics, trades)

\* A command decides something else than a backtest.
Decides(w) ==
    \E job : ~IsBacktest(job) /\ worker' = [worker EXCEPT ![w] = job]

\* No step takes back the window of a run or the hypothesis it is of.
LEMMA OtherStepsKeepTheRun ==
    ASSUME [Next]_vars, \A w \in Workers : ~UpsertRuns(w) /\ ~RecordResult(w)
    PROVE  run' = run
<1>1. CASE Research
  <2>1. CASE \/ \E content \in Contents : ImportAndStore(content)
             \/ StopValidation
    BY <2>1 DEF ImportAndStore, StopValidation
  <2>2. ASSUME NEW w \in Workers,
               \/ Schedule(w) \/ ValidateCandidate(w) \/ RecordValidation(w)
               \/ StartValidation(w) \/ TransitionValidation(w)
        PROVE  run' = run
    BY <2>2 DEF Schedule, Prepare, ValidateCandidate, RecordValidation, StartValidation,
       TransitionValidation, research
  <2>3. ASSUME NEW w \in Workers,
               BacktestRules(w) \/ DryRun(w) \/ EvaluateRules(w) \/ RecordStatedResult(w)
        PROVE  run' = run
    <3>1. \E kind, dataset, made, trades : StartRecord(w, kind, dataset, made, trades)
      BY <2>3 DEF BacktestRules, DryRun, EvaluateRules, RecordStatedResult
    <3> QED BY <3>1 DEF StartRecord, research
  <2> QED BY <1>1, <2>1, <2>2, <2>3 DEF Research
<1>2. CASE Entry
  <2>1. ASSUME NEW a \in Approvals, Revoke(a) PROVE run' = run
    BY <2>1 DEF Revoke, research
  <2>2. ASSUME NEW w \in Workers, NEW a \in Approvals,
               GrantPaper(w, a) \/ \E s \in Signals : GenerateAndRecord(w, s, a)
        PROVE  run' = run
    <3>1. CASE GrantPaper(w, a)
      BY <3>1 DEF GrantPaper, Prepare, research
    <3>2. ASSUME NEW s \in Signals, GenerateAndRecord(w, s, a)
          PROVE  \E job : Prepare(w, job)
      BY <3>2 DEF GenerateAndRecord
    <3> QED BY <2>2, <3>1, <3>2 DEF Prepare, research
  <2>3. ASSUME NEW w \in Workers, NEW s \in Signals,
               EvaluateStoredSignal(w, s) \/ AuthorizePaperEntry(w, s)
        PROVE  run' = run
    BY <2>3 DEF EvaluateStoredSignal, AuthorizePaperEntry, research
  <2>4. ASSUME NEW w \in Workers,
               \/ RecordPaperApproval(w) \/ RecordSignal(w)
               \/ SavePaperRiskEvaluation(w) \/ OrderSignal(w)
               \/ RecordOrderTicket(w) \/ RecordOrderFill(w) \/ Crash(w)
        PROVE  run' = run
    BY <2>4 DEF RecordPaperApproval, RecordSignal, SavePaperRiskEvaluation, OrderSignal,
       RecordOrderTicket, RecordOrderFill, Crash, research
  <2> QED BY <1>2, <2>1, <2>2, <2>3, <2>4 DEF Entry
<1>3. CASE ToggleKillSwitch \/ Tick
  BY <1>3 DEF ToggleKillSwitch, Tick, research
<1>4. CASE UNCHANGED vars
  BY <1>4 DEF vars, research
<1> QED BY <1>1, <1>2, <1>3, <1>4 DEF Next

\* The window of a run, once planned, is the window its backtest is judged by.
LEMMA WindowStays ==
    ASSUME IInv, IInv', [Next]_vars, run # None
    PROVE  /\ run' # None /\ run'.hash = run.hash
           /\ run'.windowStart = run.windowStart /\ run'.windowEnd = run.windowEnd
<1>1. run' # None /\ run'.hash = run.hash
  <2>1. CASE \A w \in Workers : ~UpsertRuns(w) /\ ~RecordResult(w)
    BY <2>1, OtherStepsKeepTheRun
  <2>2. ASSUME NEW w \in Workers, UpsertRuns(w) PROVE run' = run
    BY <2>2 DEF UpsertRuns
  <2>3. ASSUME NEW w \in Workers, RecordResult(w)
        PROVE  run' # None /\ run'.hash = run.hash
    <3>1. PICK status : run' = [run EXCEPT !.status = status]
      BY <2>3 DEF RecordResult
    <3>2. "hash" \in DOMAIN run /\ run.hash = run.hash
      BY DEF IInv, TypeOK, Rows
    <3>3. "hash" \in DOMAIN run' /\ run'.hash = run.hash
      BY <3>1, <3>2
    <3> QED BY <3>3 DEF None
  <2> QED BY <2>1, <2>2, <2>3
<1>2. run.windowStart = 0 /\ run.windowEnd = WindowEnd
  BY DEF IInv, TypeOK, Rows
<1>3. run'.windowStart = 0 /\ run'.windowEnd = WindowEnd
  BY <1>1 DEF IInv, TypeOK, Rows
<1> QED BY <1>1, <1>2, <1>3

\* Steps of the research that record no backtest.
LEMMA ResearchDecides ==
    ASSUME Research, \A w \in Workers : ~BacktestRules(w)
    PROVE  UNCHANGED worker \/ \E w \in Workers : Decides(w)
<1>1. CASE (\E content \in Contents : ImportAndStore(content)) \/ StopValidation
  BY <1>1 DEF ImportAndStore, StopValidation
<1>2. ASSUME NEW w \in Workers,
             \/ UpsertRuns(w) \/ RecordResult(w) \/ RecordValidation(w)
             \/ TransitionValidation(w)
      PROVE  Decides(w)
  <2>1. worker' = [worker EXCEPT ![w] = Idle]
    BY <1>2 DEF UpsertRuns, RecordResult, RecordValidation, TransitionValidation
  <2>2. ~IsBacktest(Idle)
    BY DEF IsBacktest, Idle
  <2> QED BY <2>1, <2>2, Zenon DEF Decides
<1>3. ASSUME NEW w \in Workers, Schedule(w) \/ ValidateCandidate(w) \/ StartValidation(w)
      PROVE  Decides(w)
  <2>1. CASE Schedule(w)
    <3>1. PICK planned : Prepare(w, [at |-> "schedule", run |-> planned])
      BY <2>1, Zenon DEF Schedule
    <3>2. PICK job : job = [at |-> "schedule", run |-> planned]
      OBVIOUS
    <3>3. ~IsBacktest(job)
      BY <3>2 DEF IsBacktest
    <3> QED BY <3>1, <3>2, <3>3, Zenon DEF Prepare, Decides
  <2>2. CASE ValidateCandidate(w)
    <3>1. PICK planned : Prepare(w, [at |-> "plan", validation |-> planned])
      BY <2>2, Zenon DEF ValidateCandidate
    <3>2. PICK job : job = [at |-> "plan", validation |-> planned]
      OBVIOUS
    <3>3. ~IsBacktest(job)
      BY <3>2 DEF IsBacktest
    <3> QED BY <3>1, <3>2, <3>3, Zenon DEF Prepare, Decides
  <2>3. CASE StartValidation(w)
    <3>1. PICK job : job = [at |-> "start", startedAt |-> clock]
      OBVIOUS
    <3>2. ~IsBacktest(job)
      BY <3>1 DEF IsBacktest
    <3> QED BY <2>3, <3>1, <3>2, Zenon DEF StartValidation, Prepare, Decides
  <2> QED BY <1>3, <2>1, <2>2, <2>3
<1>4. ASSUME NEW w \in Workers, DryRun(w) \/ EvaluateRules(w) \/ RecordStatedResult(w)
      PROVE  Decides(w)
  <2>1. PICK kind, dataset, made, trades :
          kind # "backtest" /\ StartRecord(w, kind, dataset, made, trades)
    BY <1>4 DEF DryRun, EvaluateRules, RecordStatedResult
  <2>2. PICK job : job = [at |-> "record", kind |-> kind, dataset |-> dataset,
                          result |-> made, trades |-> trades, since |-> clock]
    OBVIOUS
  <2>3. ~IsBacktest(job)
    BY <2>1, <2>2 DEF IsBacktest
  <2> QED BY <2>1, <2>2, <2>3, Zenon DEF StartRecord, Decides
<1> QED BY <1>1, <1>2, <1>3, <1>4 DEF Research

\* The commands about signals and orders.
LEMMA EntryDecides ==
    ASSUME Entry
    PROVE  UNCHANGED worker \/ \E w \in Workers : Decides(w)
<1>1. CASE \E a \in Approvals : Revoke(a)
  BY <1>1 DEF Revoke
<1>2. ASSUME NEW w \in Workers, NEW a \in Approvals, GrantPaper(w, a)
      PROVE  Decides(w)
  <2>1. PICK grant : Prepare(w, [at |-> "grant", approval |-> a, grant |-> grant])
    BY <1>2, Zenon DEF GrantPaper
  <2>2. PICK job : job = [at |-> "grant", approval |-> a, grant |-> grant]
    OBVIOUS
  <2>3. ~IsBacktest(job)
    BY <2>2 DEF IsBacktest
  <2> QED BY <2>1, <2>2, <2>3, Zenon DEF Prepare, Decides
<1>3. ASSUME NEW w \in Workers, NEW a \in Approvals, NEW s \in Signals,
             GenerateAndRecord(w, s, a)
      PROVE  Decides(w)
  <2>1. PICK row : Prepare(w, [at |-> "signal", signal |-> s, row |-> row])
    BY <1>3, ZenonT(60) DEF GenerateAndRecord
  <2>2. PICK job : job = [at |-> "signal", signal |-> s, row |-> row]
    OBVIOUS
  <2>3. ~IsBacktest(job)
    BY <2>2 DEF IsBacktest
  <2> QED BY <2>1, <2>2, <2>3, Zenon DEF Prepare, Decides
<1>4. ASSUME NEW w, NEW s, NEW e, Proceed(w, s, e)
      PROVE  Decides(w)
  <2>1. PICK job : job = IF e.decision.approved
                         THEN [at |-> "order", signal |-> s, evaluation |-> e] ELSE Idle
    OBVIOUS
  <2>2. ~IsBacktest(job)
    BY <2>1 DEF IsBacktest, Idle
  <2> QED BY <1>4, <2>1, <2>2, Zenon DEF Proceed, Decides
<1>5. ASSUME NEW w \in Workers, NEW s \in Signals, EvaluateStoredSignal(w, s)
      PROVE  Decides(w)
  <2>1. PICK e : Evaluated(w, s, e)
    BY <1>5, Zenon DEF EvaluateStoredSignal
  <2>2. CASE evaluation[s] # None
    BY <1>4, <2>1, <2>2 DEF Evaluated
  <2>3. CASE evaluation[s] = None
    <3>1. PICK job : job = [at |-> "save", signal |-> s, evaluation |-> e]
      OBVIOUS
    <3>2. ~IsBacktest(job)
      BY <3>1 DEF IsBacktest
    <3>3. worker' = [worker EXCEPT ![w] = job]
      BY <2>1, <2>3, <3>1 DEF Evaluated
    <3> QED BY <3>2, <3>3, Zenon DEF Decides
  <2> QED BY <2>2, <2>3
<1>6. ASSUME NEW w \in Workers, NEW s \in Signals, AuthorizePaperEntry(w, s)
      PROVE  Decides(w)
  <2>1. PICK f : worker' = [worker EXCEPT ![w] =
                              [at |-> "fill", signal |-> s, fill |-> f]]
    BY <1>6, Zenon DEF AuthorizePaperEntry
  <2>2. PICK job : job = [at |-> "fill", signal |-> s, fill |-> f]
    OBVIOUS
  <2>3. ~IsBacktest(job)
    BY <2>2 DEF IsBacktest
  <2> QED BY <2>1, <2>2, <2>3, Zenon DEF Decides
<1>7. ASSUME NEW w \in Workers,
             \/ RecordPaperApproval(w) \/ RecordSignal(w) \/ RecordOrderTicket(w)
             \/ RecordOrderFill(w) \/ Crash(w)
      PROVE  Decides(w)
  <2>1. worker' = [worker EXCEPT ![w] = Idle]
    BY <1>7 DEF RecordPaperApproval, RecordSignal, RecordOrderTicket, RecordOrderFill, Crash
  <2>2. ~IsBacktest(Idle)
    BY DEF IsBacktest, Idle
  <2> QED BY <2>1, <2>2, Zenon DEF Decides
<1>8. ASSUME NEW w \in Workers, SavePaperRiskEvaluation(w)
      PROVE  Decides(w)
  <2>1. \/ \E s, e : Proceed(w, s, e)
        \/ worker' = [worker EXCEPT ![w] = Idle]
    BY <1>8 DEF SavePaperRiskEvaluation
  <2>2. ~IsBacktest(Idle)
    BY DEF IsBacktest, Idle
  <2>3. CASE worker' = [worker EXCEPT ![w] = Idle]
    BY <2>2, <2>3, Zenon DEF Decides
  <2> QED BY <1>4, <2>1, <2>3
<1>9. ASSUME NEW w \in Workers, OrderSignal(w)
      PROVE  Decides(w)
  <2>1. PICK s, t : \/ worker' = [worker EXCEPT ![w] =
                                   [at |-> "ticket", signal |-> s, ticket |-> t]]
                    \/ worker' = [worker EXCEPT ![w] = Idle]
    <3>1. PICK s, e : s = worker[w].signal /\ e = worker[w].evaluation
      OBVIOUS
    <3>2. PICK allowed \in BOOLEAN :
            worker' = [worker EXCEPT ![w] =
                 IF allowed THEN [at |-> "ticket", signal |-> s,
                                  ticket |-> NewPaperSignalTicket(e, clock)]
                 ELSE Idle]
      BY <1>9, <3>1 DEF OrderSignal
    <3> QED BY <3>2
  <2>2. PICK job : job = [at |-> "ticket", signal |-> s, ticket |-> t]
    OBVIOUS
  <2>3. ~IsBacktest(job) /\ ~IsBacktest(Idle)
    BY <2>2 DEF IsBacktest, Idle
  <2> QED BY <2>1, <2>2, <2>3, Zenon DEF Decides
<1> QED BY <1>1, <1>2, <1>3, <1>5, <1>6, <1>7, <1>8, <1>9 DEF Entry

\* A backtest starts from honest trades.
LEMMA BacktestDecides ==
    ASSUME IInv, NEW w \in Workers, BacktestRules(w)
    PROVE  \E job : HonestJob(job) /\ worker' = [worker EXCEPT ![w] = job] /\ run' = run
<1>1. PICK request \in Requests, dataset \in Datasets :
        LET spec == Specs[hypothesis.content]
            sample == Stored[dataset]
        IN  StartRecord(w, "backtest", dataset,
                     BacktestResult(spec, run, request, GatePolicy, sample),
                     IF Covered(Coverage(run, sample), request)
                     THEN SeriesTrades(spec, run, request, sample) ELSE <<>>)
  BY DEF BacktestRules
<1>2. run # None /\ hypothesis.content = run.hash
  BY DEF BacktestRules, IsOpen, RunHypothesisLoaded
<1>3. PICK spec, sample, span :
        spec = Specs[run.hash] /\ sample = Stored[dataset] /\ span = run
  OBVIOUS
<1>4. span.windowStart \in Int /\ span.windowEnd \in Int
  BY <1>2, <1>3, EntryAssumption DEF IInv, TypeOK, Rows
<1>5. PICK made, trades :
        /\ made = BacktestResult(spec, span, request, GatePolicy, sample)
        /\ trades = IF Covered(Coverage(span, sample), request)
                    THEN SeriesTrades(spec, span, request, sample) ELSE <<>>
  OBVIOUS
<1>6. StartRecord(w, "backtest", dataset, made, trades)
  BY <1>1, <1>2, <1>3, <1>5, Zenon
<1>7. /\ ValidRequest(request)
      /\ Len(sample) \in Nat /\ DOMAIN sample = 1..Len(sample)
      /\ \A i \in DOMAIN sample : ValidSeries(sample[i])
  BY <1>3, EntryAssumption, HistoryAssumption
<1>8. PICK policy : policy = GatePolicy
  OBVIOUS
<1>9. /\ \A i \in DOMAIN trades : HonestSeries(spec, span, sample[i], trades[i])
      /\ OneAccount(made.metrics, trades)
  <2>1. made = BacktestResult(spec, span, request, policy, sample)
    BY <1>5, <1>8
  <2> QED BY <1>4, <1>5, <1>7, <2>1, ResultIsHonest
<1>10. PICK job : job = [at |-> "record", kind |-> "backtest", dataset |-> dataset,
                         result |-> made, trades |-> trades, since |-> clock]
  OBVIOUS
<1>11. job.dataset = dataset /\ job.result = made /\ job.trades = trades
  BY <1>10
<1>12. HonestJob(job)
  BY <1>3, <1>9, <1>11, Zenon DEF HonestJob
<1>13. worker' = [worker EXCEPT ![w] = job]
  BY <1>6, <1>10, Zenon DEF StartRecord
<1>14. run' = run
  BY <1>6 DEF StartRecord, research
<1> QED BY <1>12, <1>13, <1>14

\* What was honest stays so: it is about the stored history and about parts of
\* the run that no step takes back.
LEMMA HonestJobStays ==
    ASSUME NEW job, HonestJob(job), run'.hash = run.hash,
           run'.windowStart = run.windowStart, run'.windowEnd = run.windowEnd
    PROVE  HonestJob(job)'
<1> SUFFICES ASSUME IsBacktest(job)
             PROVE  /\ \A i \in DOMAIN job.trades :
                          HonestSeries(Specs[run'.hash], run', Stored[job.dataset][i],
                                       job.trades[i])
                    /\ OneAccount(job.result.metrics, job.trades)
  BY Zenon DEF HonestJob, IsBacktest
<1>1. /\ \A i \in DOMAIN job.trades :
            HonestSeries(Specs[run.hash], run, Stored[job.dataset][i], job.trades[i])
      /\ OneAccount(job.result.metrics, job.trades)
  BY Zenon DEF HonestJob
<1>2. \A time : InWindow(time, run) => InWindow(time, run')
  BY DEF InWindow
<1>3. \A spec, series, trades :
         HonestSeries(spec, run, series, trades) => HonestSeries(spec, run', series, trades)
  BY <1>2, Zenon DEF HonestSeries
<1> QED BY <1>1, <1>3

\* What a backtest is about to record has no overlapping trade, none outside
\* the window and none that looks ahead, and its metrics, split and folds are
\* of these trades, each once, whatever the history and the request and whatever
\* other commands do before it is recorded (BacktestRules in
\* internal/app/research/backtest.go).
THEOREM Honest == Spec => []TradesAreHonest
<1>1. TradesAreHonest <=> \A w \in Workers : HonestJob(worker[w])
  BY Zenon DEF TradesAreHonest, HonestJob, IsBacktest
<1>2. Init => TradesAreHonest
  <2>1. ~IsBacktest(Idle)
    BY DEF IsBacktest, Idle
  <2>2. Init => \A w \in Workers : worker[w] = Idle
    BY DEF Init
  <2> QED BY <1>1, <2>1, <2>2, Zenon DEF HonestJob
<1>3. ASSUME IInv, IInv', TradesAreHonest, [Next]_vars
      PROVE  TradesAreHonest'
  <2>1. ASSUME NEW w \in Workers
        PROVE  HonestJob(worker[w])'
    <3>1. PICK job : job = worker'[w]
      OBVIOUS
    <3>2. SUFFICES ASSUME IsBacktest(job) PROVE HonestJob(job)'
      BY <3>1 DEF HonestJob
    <3>3. DOMAIN worker = Workers
      BY <1>3 DEF IInv, TypeOK
    <3>4. CASE UNCHANGED worker
      <4>1. job = worker[w] /\ HonestJob(job)
        BY <1>1, <1>3, <3>1, <3>4
      <4>2. run # None
        BY <1>3, <3>2, <4>1 DEF IInv, JobsKept, JobOK, IsBacktest, Idle
      <4> QED BY <1>3, <4>1, <4>2, WindowStays, HonestJobStays
    <3>5. ASSUME NEW v \in Workers, Decides(v)
          PROVE  HonestJob(job)'
      <4>1. PICK other : ~IsBacktest(other) /\ worker' = [worker EXCEPT ![v] = other]
        BY <3>5 DEF Decides
      <4>2. job = worker[w]
        <5>1. CASE v = w
          BY <3>1, <3>2, <3>3, <4>1, <5>1
        <5>2. CASE v # w
          BY <3>1, <3>3, <4>1, <5>2
        <5> QED BY <5>1, <5>2
      <4>3. HonestJob(job)
        BY <1>1, <1>3, <4>2
      <4>4. run # None
        BY <1>3, <3>2, <4>2 DEF IInv, JobsKept, JobOK, IsBacktest, Idle
      <4> QED BY <1>3, <4>3, <4>4, WindowStays, HonestJobStays
    <3>6. ASSUME NEW v \in Workers, BacktestRules(v)
          PROVE  HonestJob(job)'
      <4>1. PICK made : /\ HonestJob(made) /\ worker' = [worker EXCEPT ![v] = made]
                        /\ run' = run
        BY <1>3, <3>6, BacktestDecides
      <4>2. HonestJob(job)
        <5>1. CASE v = w
          BY <3>1, <3>3, <4>1, <5>1
        <5>2. CASE v # w
          <6>1. job = worker[w]
            BY <3>1, <3>3, <4>1, <5>2
          <6> QED BY <1>1, <1>3, <6>1
        <5> QED BY <5>1, <5>2
      <4> QED BY <4>1, <4>2, HonestJobStays
    <3>7. CASE Research
      BY <3>4, <3>5, <3>6, <3>7, ResearchDecides
    <3>8. CASE Entry
      BY <3>4, <3>5, <3>8, EntryDecides
    <3>9. CASE ToggleKillSwitch \/ Tick \/ UNCHANGED vars
      BY <3>4, <3>9 DEF ToggleKillSwitch, Tick, vars
    <3> QED BY <1>3, <3>7, <3>8, <3>9 DEF Next
  <2>2. TradesAreHonest' <=> \A w \in Workers : HonestJob(worker[w])'
    BY Zenon DEF TradesAreHonest, HonestJob, IsBacktest
  <2> QED BY <2>1, <2>2
<1>4. Spec => []IInv
  BY Invariance
<1> QED BY <1>2, <1>3, <1>4, PTL DEF Spec
=============================================================================
