----------------------------- MODULE HandoffFiles -----------------------------
(***************************************************************************)
(* The JSON artifacts that the live commands leave for each other: what    *)
(* each of them says, how it is built, and the checks a later command      *)
(* makes before it relies on it.                                           *)
(*                                                                         *)
(* A file is named by its kind, so paths always match.  The SHA-256        *)
(* fingerprint of a file is the content itself: two fingerprints are equal *)
(* exactly when the contents are.  The identifiers of an order are a       *)
(* function of its decision (order_identity.go) and are represented by it. *)
(* Configuration, credentials and capital flags are taken to be fit, and   *)
(* there is one symbol: a check is listed only if it can fail for another  *)
(* reason.  An artifact that says nothing of its checks passes them all.   *)
(***************************************************************************)
EXTENDS Naturals, FiniteSets, Sequences

CONSTANTS Decisions,     \* LIVE risk decisions, numbered by created_at
          MicroSized,    \* those within the micro capital limit, leverage 1
          RunIds,        \* values of -run-id
          MaxAge,        \* -max-plan-age, -max-readiness-age and the like
          ReviewMaxAge,  \* -max-first-order-review-age
          NoRun          \* no run identifier

ASSUME DecisionsAssumption ==
  Decisions \subseteq Nat \ {0} /\ MicroSized \subseteq Decisions
ASSUME AgesAssumption == MaxAge \in Nat /\ ReviewMaxAge \in Nat
ASSUME NothingAssumption == NoRun \notin RunIds

NoDecision == 0
\* The file is not given, or does not exist.
NoFile == [file |-> "absent"]
Sources == {"select-pending", "decision-id"}

-----------------------------------------------------------------------------
(* Checks, as every report lists them: the names of those that failed and   *)
(* of those that warn.                                                      *)

\* ReadinessChecksReady
Ready(report) == report.failed = {}

\* SummarizeLiveOpsStatus
OpsStatus(failed, warned) ==
  IF failed # {} THEN "BLOCKED" ELSE IF warned # {} THEN "ATTENTION" ELSE "CLEAR"

\* ValidateReadinessChecks: a check has one status.
OneStatus(report) == report.failed \cap report.warned = {}

\* Fault: an artifact of this very instant counts as one of the future.
FreshLater(artifact, now, age) == artifact.at < now /\ now - artifact.at <= age

\* The created_at of an artifact is neither in the future nor too old.
Fresh(artifact, now, age) == artifact.at <= now /\ now - artifact.at <= age

-----------------------------------------------------------------------------
(* live-order-plan.                                                         *)

\* BuildLiveOrderPlanArtifact.  A decision that is recorded again under its
\* identifier is another one: born tells them apart, as created_at does.
PlanOf(source, decision, run, born, now) ==
  [source |-> source, decision |-> decision, run |-> run, born |-> born, at |-> now]

\* ValidateLiveOrderPlanArtifact
ValidPlan(plan) ==
  plan.source \in Sources /\ plan.decision # NoDecision /\ plan.run # NoRun

\* ValidateLiveOrderPlanArtifactFreshness
PlanFresh(plan, now) == Fresh(plan, now, MaxAge)

\* ValidateLiveOrderPlanArtifactSnapshot: the order is the planned one.
PlannedOrder(plan, decision, run, born) ==
  plan.decision = decision /\ plan.run = run /\ plan.born = born

\* ResolveLiveReadinessHandoffExecutionSelection: the source flags are those
\* of the plan.
SourceHolds(plan, source, decision) ==
  plan.source = source /\ (source = "decision-id" => decision = plan.decision)

-----------------------------------------------------------------------------
(* The loop audit: counts and verdict over the newest rows of a query.      *)

\* ListLiveLoopRunAudits: rows are in the order of started_at, and the newest
\* ones, as their places, are seen.  A deleted row leaves its place empty.
Recent(rows, limit, filter) ==
  LET kept == {i \in DOMAIN rows : /\ rows[i].status # "DELETED"
                                   /\ filter \in {"all", rows[i].status}}
  IN {i \in kept : Cardinality({j \in kept : j >= i}) <= limit}

Places(rows, seen, status) == {i \in seen : rows[i].status = status}

\* Of the newest row with this status.
NewestRun(rows, seen, status) ==
  LET places == Places(rows, seen, status)
  IN rows[CHOOSE i \in places : \A j \in places : j <= i].id

\* SummarizeLiveLoopAuditReview
ReviewOf(rows, seen) ==
  IF Places(rows, seen, "RUNNING") # {}
    THEN [review |-> "BLOCKED", run |-> NewestRun(rows, seen, "RUNNING")]
  ELSE IF Places(rows, seen, "FAILED") # {}
    THEN [review |-> "REVIEW", run |-> NewestRun(rows, seen, "FAILED")]
  ELSE [review |-> "CLEAR", run |-> NoRun]

\* BuildLiveLoopAuditReport
AuditOf(rows, limit, filter) ==
  LET seen == Recent(rows, limit, filter) IN
  [limit     |-> limit,
   running   |-> Cardinality(Places(rows, seen, "RUNNING")),
   failed    |-> Cardinality(Places(rows, seen, "FAILED")),
   completed |-> Cardinality(Places(rows, seen, "COMPLETED")),
   review    |-> ReviewOf(rows, seen).review,
   run       |-> ReviewOf(rows, seen).run]

\* BuildLiveLoopAuditArtifact
AuditFileOf(audit, now) == [audit |-> audit, at |-> now]

\* liveReadinessAuditCheck
AuditFails(audit) == IF audit.review = "BLOCKED" THEN {"audit"} ELSE {}
AuditWarns(audit) == IF audit.review = "REVIEW" THEN {"audit"} ELSE {}

\* liveLoopAuditArtifactSummaryProblems: the verdict agrees with the counts.
ValidAudit(audit) ==
  /\ audit.review = "BLOCKED" <=> audit.running > 0
  /\ audit.review = "REVIEW" <=> audit.running = 0 /\ audit.failed > 0
  /\ audit.run = NoRun <=> audit.review = "CLEAR"
  /\ audit.running + audit.failed + audit.completed <= audit.limit

\* validateLiveReadinessArtifactAuditProblems and its like in the ops report: a
\* copy of the audit is checked less, its verdict may say anything of its counts.
ValidCopy(audit) == audit.run = NoRun <=> audit.review = "CLEAR"

\* ValidateLiveLoopAuditArtifactFreshness
AuditFresh(file, now) == ValidAudit(file.audit) /\ Fresh(file, now, MaxAge)

-----------------------------------------------------------------------------
(* live-readiness.                                                          *)

\* liveReadinessKillSwitchCheck
KillSwitchFails(killSwitch) == IF killSwitch.active THEN {"kill_switch"} ELSE {}

\* liveReadinessPendingDecisionCheck
PendingFails(next, required) ==
  IF next = NoDecision /\ required THEN {"pending"} ELSE {}
PendingWarns(next, required) ==
  IF next = NoDecision /\ ~required THEN {"pending"} ELSE {}

\* liveReadinessPlanArtifactCheck: a FIFO plan must still be at the head, and
\* any plan must be the one the recorded decision gives today.
PlanFails(plan, next, recorded, born, now) ==
  IF \/ plan = NoFile
     \/ /\ PlanFresh(plan, now)
        /\ plan.source = "select-pending" => plan.decision = next
        /\ plan.decision \in recorded
        /\ PlannedOrder(plan, plan.decision, plan.run, born[plan.decision])
    THEN {} ELSE {"plan"}

\* BuildLiveReadinessReport
ReadinessChecks(killSwitch, next, required, audit, planFails) ==
  [failed |-> KillSwitchFails(killSwitch) \cup PendingFails(next, required)
                \cup planFails \cup AuditFails(audit),
   warned |-> PendingWarns(next, required) \cup AuditWarns(audit)]

\* BuildLiveReadinessArtifact
ReadinessOf(plan, hash, killSwitch, next, required, audit, planFails, now) ==
  LET checks == ReadinessChecks(killSwitch, next, required, audit, planFails) IN
  [plan |-> plan, hash |-> hash, next |-> next, required |-> required,
   killSwitch |-> killSwitch, audit |-> audit, at |-> now,
   failed |-> checks.failed, warned |-> checks.warned]

\* validateLiveReadinessArtifactPlanFileProblems
ValidPlanFile(readiness) ==
  /\ readiness.plan = NoFile <=> readiness.hash = NoFile
  /\ readiness.plan # NoFile => ValidPlan(readiness.plan)

\* ValidateLiveReadinessArtifact
ValidReadiness(readiness) ==
  OneStatus(readiness) /\ ValidCopy(readiness.audit) /\ ValidPlanFile(readiness)

\* ValidateLiveReadinessArtifactFreshness
ReadinessFresh(readiness, now) ==
  ValidReadiness(readiness) /\ Fresh(readiness, now, MaxAge)

\* liveReadinessArtifactHandoffPlanFileProblems: fingerprint and metadata.
SamePlan(readiness, plan) ==
  /\ readiness.plan # NoFile
  /\ readiness.hash = plan
  /\ readiness.plan.source = plan.source
  /\ readiness.plan.decision = plan.decision

\* liveReadinessArtifactHandoffAuditProblems
SameAudit(readiness, audit) ==
  /\ readiness.audit.limit = audit.audit.limit
  /\ readiness.audit.running = audit.audit.running
  /\ readiness.audit.completed = audit.audit.completed
  /\ readiness.audit.failed = audit.audit.failed
  /\ readiness.audit.review = audit.audit.review
  /\ readiness.audit.run = audit.audit.run

\* ValidateLiveReadinessArtifactHandoff.  The selected decision is not known
\* before a FIFO loop has selected it.
ReadinessAdmits(readiness, plan, audit, selected) ==
  /\ Ready(readiness)
  /\ readiness.required /\ readiness.next # NoDecision
  /\ selected # NoDecision => readiness.next = selected
  /\ IF plan = NoFile THEN readiness.plan = NoFile ELSE SamePlan(readiness, plan)
  /\ audit # NoFile => SameAudit(readiness, audit)

-----------------------------------------------------------------------------
(* risk-kill-switch -action state.                                          *)

\* BuildKillSwitchArtifact
KillSwitchFileOf(killSwitch, now) == [killSwitch |-> killSwitch, at |-> now]

\* ValidateKillSwitchArtifactHandoff
InactiveState(file) == ~file.killSwitch.active

\* validateLiveLoopKillSwitchArtifactForExecution: a fresh inactive snapshot.
KillSwitchAdmits(file, now) == Fresh(file, now, MaxAge) /\ InactiveState(file)

\* ValidateKillSwitchReadinessArtifactHandoff: state and updated_at agree.
SameKillSwitch(file, readiness) == file.killSwitch = readiness.killSwitch

-----------------------------------------------------------------------------
(* live-deploy-check, for one iteration.                                    *)

\* liveDeploymentCapitalCheck
CapitalFits(plan) == plan.decision \in MicroSized

\* liveDeploymentArtifactFreshnessCheck
AllFresh(plan, readiness, audit, now) ==
  PlanFresh(plan, now) /\ ReadinessFresh(readiness, now) /\ AuditFresh(audit, now)

\* liveDeploymentReadinessReviewCheck
ReviewedReadiness(readiness) ==
  /\ Ready(readiness) /\ readiness.warned = {}
  /\ readiness.audit.review = "CLEAR" /\ ~readiness.killSwitch.active

\* BuildLiveDeploymentCheckReport: the names of its failing checks.  The
\* handoff is not checked for a source that is refused.
DeployFails(plan, readiness, audit, source, decision, now) ==
  LET sourced == SourceHolds(plan, source, decision)
      failing == [source    |-> ~sourced,
                  capital   |-> ~CapitalFits(plan),
                  freshness |-> ~AllFresh(plan, readiness, audit, now),
                  review    |-> ~ReviewedReadiness(readiness),
                  handoff   |-> sourced /\
                    ~ReadinessAdmits(readiness, plan, audit, plan.decision)]
  IN {name \in DOMAIN failing : failing[name]}

\* BuildLiveDeploymentCheckArtifact
DeployCheckOf(plan, readiness, audit, source, decision, now) ==
  [plan |-> plan, readiness |-> readiness, audit |-> audit, source |-> source,
   selected |-> IF SourceHolds(plan, source, decision) THEN plan.decision ELSE NoDecision,
   at |-> now, warned |-> {},
   failed |-> DeployFails(plan, readiness, audit, source, decision, now)]

\* validateLiveDeploymentExecutionArtifactProblems
ValidExecution(check) ==
  check.source \in Sources /\ (Ready(check) => check.selected # NoDecision)

\* validateLiveDeploymentPlanFileArtifactProblems and its like for the other two
\* files: their metadata is there.
ValidCheckedFiles(check) ==
  /\ check.plan.source \in Sources /\ check.plan.decision # NoDecision
  /\ check.readiness # NoFile /\ check.audit # NoFile

\* ValidateLiveDeploymentCheckArtifact
ValidDeployCheck(check) ==
  OneStatus(check) /\ ValidCheckedFiles(check) /\ ValidExecution(check)

\* ValidateLiveDeploymentCheckArtifactFreshness
DeployCheckFresh(check, now) == ValidDeployCheck(check) /\ Fresh(check, now, MaxAge)

\* liveDeploymentCheckArtifactHandoffPlanProblems: path, fingerprint, order.
CheckedPlan(check, plan) == check.plan = plan

\* liveDeploymentCheckArtifactHandoffReadinessProblems: path, fingerprint,
\* created_at and verdict.
CheckedReadiness(check, readiness) == check.readiness = readiness

\* liveDeploymentCheckArtifactHandoffAuditProblems: path, fingerprint,
\* created_at and verdict.
CheckedAudit(check, audit) == check.audit = audit

\* liveDeploymentCheckArtifactHandoffExecutionProblems
CheckedExecution(check, source, selected, iterations) ==
  check.source = source /\ check.selected = selected /\ iterations = 1

\* ValidateLiveDeploymentCheckArtifactHandoff: the files and flags of this
\* execution are those that were checked.
DeployAdmits(check, plan, readiness, audit, source, selected, iterations) ==
  /\ Ready(check)
  /\ CheckedPlan(check, plan)
  /\ CheckedReadiness(check, readiness)
  /\ CheckedAudit(check, audit)
  /\ CheckedExecution(check, source, selected, iterations)

-----------------------------------------------------------------------------
(* live-first-order-review and live-ops-report.                             *)

\* BuildLiveFirstOrderReviewArtifact
ReviewFileOf(plan, failed, now) ==
  [plan |-> plan, ready |-> failed = {}, failed |-> failed, at |-> now]

\* validateLiveFirstOrderReviewPlanFileArtifactProblems: metadata of the plan.
ValidReviewPlan(review) ==
  review.plan.source \in Sources /\ review.plan.decision # NoDecision

\* ValidateLiveFirstOrderReviewArtifact
ValidReview(review) == ValidReviewPlan(review) /\ (review.ready <=> Ready(review))

\* ValidateLiveFirstOrderReviewArtifactFreshness
ReviewFresh(review, now) == ValidReview(review) /\ Fresh(review, now, ReviewMaxAge)

\* liveOpsFirstOrderReviewCheck
ReviewFails(review, needed, now) ==
  IF ~needed \/ (review # NoFile /\ review.ready /\ ReviewFresh(review, now))
    THEN {} ELSE {"review"}

\* BuildLiveOpsReport: its failing checks.  The review is checked when it is
\* given, required, or an idle queue is allowed.
OpsFails(killSwitch, allowIdle, required, audit, review, now) ==
  LET needed == review # NoFile \/ required \/ allowIdle IN
  KillSwitchFails(killSwitch) \cup AuditFails(audit)
    \cup ReviewFails(review, needed, now)

\* liveOpsPendingDecisionCheck: an idle queue that is not allowed warns.
OpsWarns(next, allowIdle, audit) ==
  PendingWarns(next, allowIdle) \cup AuditWarns(audit)

\* BuildLiveOpsReportArtifact
OpsReportOf(killSwitch, next, allowIdle, required, audit, review, now) ==
  LET failed == OpsFails(killSwitch, allowIdle, required, audit, review, now)
      warned == OpsWarns(next, allowIdle, audit)
  IN [killSwitch |-> killSwitch, next |-> next, audit |-> audit,
      review |-> review, at |-> now, failed |-> failed, warned |-> warned,
      status |-> OpsStatus(failed, warned)]

\* validateLiveOpsReportArtifactFirstOrderReviewProblems
ValidOpsReview(report) == report.review # NoFile => ValidReview(report.review)

\* ValidateLiveOpsReportArtifact
ValidOpsReport(report) ==
  /\ OneStatus(report)
  /\ report.status = OpsStatus(report.failed, report.warned)
  /\ ValidCopy(report.audit)
  /\ ValidOpsReview(report)

\* ValidateLiveOpsReportArtifactFreshness
OpsReportFresh(report, now) == ValidOpsReport(report) /\ Fresh(report, now, MaxAge)

\* ValidateLiveOpsReportArtifactHandoff
OpsAdmits(report, now) == OpsReportFresh(report, now) /\ report.status = "CLEAR"
===============================================================================
