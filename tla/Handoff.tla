------------------------------- MODULE Handoff --------------------------------
(***************************************************************************)
(* The operator's way to a first live order: live-first-order-check runs   *)
(* seven commands that leave files behind, live-loop is armed with these   *)
(* files and posts the order, live-post-order-check reviews it and reports *)
(* on operations.  Under all of them are the database and the exchange     *)
(* account, which other commands change meanwhile.                         *)
(*                                                                         *)
(* Invocations share one directory of artifacts: what a command writes     *)
(* replaces the file of an earlier one.  live-readiness and                *)
(* live-ops-report read one thing after another, so files and database may *)
(* change between their reads.  One loop runs at a time here (LiveOrder is *)
(* about several); live-submit runs beside it.                             *)
(***************************************************************************)
EXTENDS HandoffFiles

CONSTANTS Checks,     \* invocations of a script
          Scripts,    \* of each invocation, what it may be: commands and flags
          Requests,   \* the flags a loop may be given
          Handoffs,   \* sets of files a loop may be given
          NoCheck,    \* no invocation
          Rehearsed,  \* the decision that live-loop-smoke makes up
          SmokeRun,   \* and its -run-id
          SmokeAuditLimit, \* rows of the audit it looks at
          MaxTime,    \* bound on the clock
          MaxEvents,  \* bound on the Kill Switch events
          MaxSmokes,  \* bound on the decisions that smokes seed
          MaxRuns     \* bound on the rows of live_loop_runs, but for the smoke's

FirstOrder == <<"kill-switch", "plan", "readiness", "audit", "deploy-check",
                "ops-report", "verify">>
PostOrder == <<"review", "post-order-ops">>
Slots == {"plan", "killSwitch", "audit", "readiness", "deployCheck",
          "opsReport", "review", "postOps"}
AllFiles == {"plan", "killSwitch", "audit", "readiness", "deployCheck", "opsReport"}

\* live-loop: an audit goes with a readiness report, a deployment check with
\* plan, readiness report and audit.
ASSUME HandoffsAssumption ==
  \A given \in Handoffs :
    /\ given \subseteq AllFiles
    /\ "audit" \in given => "readiness" \in given
    /\ "deployCheck" \in given => {"plan", "readiness", "audit"} \subseteq given
\* ValidateLiveLoopAuditQuery: what a command makes of a greater limit, or of
\* none, is an error.
AuditLimits == 1..100
\* A request: source and decision, -run-id, the audit limits of readiness and
\* of live-loop-audit, its -status, -require-pending and -max-iterations.
Flags == [source: Sources, decision: Decisions \cup {NoDecision}, run: RunIds,
          readinessLimit: AuditLimits, auditLimit: AuditLimits, filter: STRING,
          required: BOOLEAN, bound: Nat \ {0}]
ASSUME RequestsAssumption ==
  /\ Requests \subseteq Flags
  /\ \A c \in Checks : \A script \in Scripts[c] :
       script.commands \in Seq(STRING) /\ script.request \in Flags

\* A decision by its identifier, or the head of the queue, never both.
OneSource(request) ==
  request.source = "decision-id" <=> request.decision # NoDecision
\* normalizeLiveFirstOrderCheckRequest
FirstOrderFlags(request) == OneSource(request) /\ request.bound = 1
\* liveLoopBoundsProblems: maxLiveLoopCLIIterations
LoopBounds(request) == request.bound \in 1..100
ASSUME SmokeAssumption ==
  /\ Rehearsed \in MicroSized
  /\ SmokeRun \notin RunIds \cup {NoRun}
  /\ SmokeAuditLimit \in Nat \ {0}
ASSUME BoundsAssumption ==
  MaxTime \in Nat /\ MaxEvents \in Nat /\ MaxRuns \in Nat /\ MaxSmokes \in Nat

VARIABLES
  clock,
  recorded,     \* risk_decisions rows: approved, of mode LIVE
  order,        \* of each decision: what the journals and the exchange hold,
                \* and which run submitted it (history; 0: none of the loops)
  killSwitch,   \* current state: active, number of its last event
  runs,         \* live_loop_runs, in the order of started_at; a row that a
                \* smoke has deleted is one of status DELETED
  lots,         \* exchange: size of the position, in orders
  positionRow,  \* size in the newest row of live_position_snapshots; 0: none
  file,         \* the content of each file
  check,        \* the invocations of scripts
  loop,         \* the live-loop in progress
  smoke,        \* the last live-loop-smoke, and how many have seeded Rehearsed
  quiet         \* history: a first-order check since whose start nobody else
                \* has acted, or Disturbed

database == <<recorded, order, killSwitch, runs, lots, positionRow>>
vars == <<clock, database, smoke, file, check, loop, quiet>>

NoOrder == [journal |-> "none", exchange |-> "none", at |-> 0, by |-> 0]
NothingSeen == [plan |-> NoFile, hash |-> NoFile, review |-> NoFile,
                killSwitch |-> [active |-> FALSE, since |-> 0],
                next |-> NoDecision, fails |-> {}, at |-> 0]
NoRequest == [source |-> "select-pending", decision |-> NoDecision, run |-> NoRun,
              readinessLimit |-> 1, auditLimit |-> 1, filter |-> "all",
              required |-> TRUE, bound |-> 1]
Idle == [status |-> "idle", todo |-> <<>>, request |-> NoRequest,
         stage |-> "start", seen |-> NothingSeen]
Disturbed == [check |-> NoCheck, request |-> NoRequest, since |-> 0, status |-> "done"]
NoLoop == [phase |-> "none", given |-> {}, file |-> [s \in AllFiles |-> NoFile],
           request |-> NoRequest, row |-> 0, already |-> FALSE, executed |-> 0]

\* SelectNextPendingLiveDecision: approved decisions without a submission,
\* oldest first.
Pending == {d \in recorded : order[d].journal = "none"}
Oldest == IF Pending = {} THEN NoDecision
          ELSE CHOOSE d \in Pending : \A e \in Pending : d <= e

\* The created_at of the decisions: each smoke makes up one of its own.
Born == [d \in Decisions |-> IF d = Rehearsed THEN smoke.seeds ELSE 0]

Init ==
  /\ clock = 0
  /\ recorded = {}
  /\ order = [d \in Decisions |-> NoOrder]
  /\ killSwitch = [active |-> FALSE, since |-> 0]
  /\ runs = <<>>
  /\ lots = 0
  /\ positionRow = 0
  /\ file = [s \in Slots |-> NoFile]
  /\ check = [c \in Checks |-> Idle]
  /\ loop = NoLoop
  /\ smoke = [stage |-> "none", seeds |-> 0]
  /\ quiet = Disturbed

-----------------------------------------------------------------------------
(* What goes on beside the commands.                                        *)

Tick ==
  /\ clock < MaxTime
  /\ clock' = clock + 1
  /\ UNCHANGED <<database, smoke, file, check, loop, quiet>>

\* A step of the surroundings or of the loop.
Beside == quiet' = Disturbed /\ UNCHANGED <<clock, file, check, smoke>>

\* The risk engine records the audit row of a decision.
RecordDecision(d) ==
  /\ d \notin recorded /\ d # Rehearsed
  /\ recorded' = recorded \cup {d}
  /\ Beside /\ UNCHANGED <<order, killSwitch, runs, lots, positionRow, loop>>

\* risk-kill-switch -action activate and deactivate, the drift guard.
ToggleKillSwitch ==
  /\ killSwitch.since < MaxEvents
  /\ killSwitch' = [active |-> ~killSwitch.active, since |-> killSwitch.since + 1]
  /\ Beside /\ UNCHANGED <<recorded, order, runs, lots, positionRow, loop>>

\* live-submit, from its preflight to its last reconciliation.
SubmitElsewhere(d) ==
  /\ d \in recorded /\ order[d].journal = "none" /\ order[d].exchange = "none"
  /\ ~killSwitch.active /\ lots = 0
  /\ order' = [order EXCEPT ![d] =
       [journal |-> "filled", exchange |-> "filled", at |-> clock, by |-> 0]]
  /\ lots' = 1 /\ positionRow' = 1
  /\ Beside /\ UNCHANGED <<recorded, killSwitch, runs, loop>>

\* The exchange executes an order it has taken.
FillOrder(d) ==
  /\ order[d].exchange = "open"
  /\ order' = [order EXCEPT ![d].exchange = "filled"]
  /\ lots' = lots + 1
  /\ Beside /\ UNCHANGED <<recorded, killSwitch, runs, positionRow, loop>>

\* Stop loss, take profit or the operator close the position.
ClosePosition ==
  /\ lots > 0
  /\ lots' = 0
  /\ Beside /\ UNCHANGED <<recorded, order, killSwitch, runs, positionRow, loop>>

Row(id, status, bound, decision) ==
  [id |-> id, status |-> status, bound |-> bound, decision |-> decision,
   outcome |-> "none"]

RoomForRun == Cardinality({i \in DOMAIN runs : runs[i].id # SmokeRun}) < MaxRuns

\* live-health runs a bounded loop of no orders under a run id of its own.
HealthRun(id, status) ==
  /\ RoomForRun
  /\ runs' = Append(runs, Row(id, status, 1, NoDecision))
  /\ Beside /\ UNCHANGED <<recorded, order, killSwitch, lots, positionRow, loop>>

-----------------------------------------------------------------------------
(* Invocations of a script: its commands one after another, and the first   *)
(* that fails ends it.  One that is interrupted takes no further step.      *)

\* Invocation c of a script starts.
Begin(c, script) ==
  /\ check[c].status = "idle"
  /\ check' = [check EXCEPT ![c] = [Idle EXCEPT
       !.status = "running", !.todo = script.commands, !.request = script.request]]
  /\ UNCHANGED <<clock, database, smoke, file, loop>>

\* live-first-order-check
BeginFirstOrder(c, script) ==
  /\ script.commands = FirstOrder /\ FirstOrderFlags(script.request)
  /\ Begin(c, script)
  /\ quiet' = [check |-> c, request |-> script.request, since |-> clock,
               status |-> "running"]

\* live-post-order-check
BeginPostOrder(c, script) ==
  /\ script.commands = PostOrder
  /\ Begin(c, script) /\ quiet' = Disturbed

\* A command run by hand.
BeginOne(c, script) ==
  /\ Len(script.commands) = 1 /\ OneSource(script.request)
  /\ Begin(c, script) /\ quiet' = Disturbed

\* Invocation c is about to run this command, at this stage of it.
At(c, command, stage) ==
  /\ check[c].status = "running"
  /\ Head(check[c].todo) = command /\ check[c].stage = stage

\* The command goes on with what it has read.
Read(c, stage, seen) ==
  /\ check' = [check EXCEPT ![c].stage = stage, ![c].seen = seen]
  /\ quiet' = IF quiet.check = c THEN quiet ELSE Disturbed
  /\ UNCHANGED <<clock, database, smoke, file, loop>>

\* The command returns, with an error or without, and the next one follows.
Return(c, good) ==
  LET rest == Tail(check[c].todo)
      status == IF ~good THEN "failed" ELSE IF rest = <<>> THEN "passed" ELSE "running"
  IN /\ check' = [check EXCEPT ![c] =
          IF status = "running"
            THEN [@ EXCEPT !.todo = rest, !.stage = "start", !.seen = NothingSeen]
            ELSE [Idle EXCEPT !.status = "done"]]
     /\ quiet' = IF quiet.check = c THEN [quiet EXCEPT !.status = status] ELSE Disturbed
     /\ UNCHANGED <<clock, database, smoke, loop>>

\* It writes its file before it returns.
Leave(c, slot, content, good) ==
  /\ file' = [file EXCEPT ![slot] = content]
  /\ Return(c, good)

\* risk-kill-switch -action state
KillSwitchState(c) ==
  /\ At(c, "kill-switch", "start")
  /\ Leave(c, "killSwitch", KillSwitchFileOf(killSwitch, clock), TRUE)

\* live-order-plan: the head of the queue, or a decision by its identifier,
\* submitted before or not.
PlannedDecision(request) ==
  IF request.source = "select-pending" THEN Oldest ELSE request.decision
OrderPlan(c) ==
  /\ At(c, "plan", "start")
  /\ LET request == check[c].request
         d == PlannedDecision(request)
     IN IF d \in recorded
          THEN Leave(c, "plan", PlanOf(request.source, d, request.run, Born[d], clock), TRUE)
          ELSE Return(c, FALSE) /\ UNCHANGED file

\* live-readiness loads the plan,
LoadPlan(c) ==
  /\ At(c, "readiness", "start")
  /\ IF file["plan"] # NoFile /\ ValidPlan(file["plan"])
       THEN Read(c, "hash", [NothingSeen EXCEPT !.plan = file["plan"]])
       ELSE Return(c, FALSE) /\ UNCHANGED file

\* opens the file once more for its fingerprint, reads the Kill Switch,
HashPlan(c) ==
  /\ At(c, "readiness", "hash")
  /\ Read(c, "queue", [check[c].seen EXCEPT
       !.hash = file["plan"], !.killSwitch = killSwitch])

\* checks the plan against the queue,
CheckPlan(c) ==
  /\ At(c, "readiness", "queue")
  /\ LET seen == check[c].seen IN
     Read(c, "audit", [seen EXCEPT
       !.next = Oldest,
       !.fails = PlanFails(seen.plan, Oldest, recorded, Born, clock)])

\* reads the audit and writes its verdict.
WriteReadiness(c) ==
  /\ At(c, "readiness", "audit")
  /\ LET seen == check[c].seen
         request == check[c].request
         report == ReadinessOf(seen.plan, seen.hash, seen.killSwitch, seen.next,
                     request.required, AuditOf(runs, request.readinessLimit, "all"),
                     seen.fails, clock)
     IN Leave(c, "readiness", report, Ready(report))

\* live-loop-audit
LoopAudit(c) ==
  /\ At(c, "audit", "start")
  /\ LET request == check[c].request IN
     Leave(c, "audit",
           AuditFileOf(AuditOf(runs, request.auditLimit, request.filter), clock), TRUE)

\* It loads and validates the three files it is given.
DeployLoads ==
  /\ \A s \in {"plan", "readiness", "audit"} : file[s] # NoFile
  /\ ValidPlan(file["plan"]) /\ ValidReadiness(file["readiness"])
  /\ ValidAudit(file["audit"].audit)

\* live-deploy-check
DeployCheck(c) ==
  /\ At(c, "deploy-check", "start")
  /\ IF DeployLoads
     THEN LET report == DeployCheckOf(file["plan"], file["readiness"],
                          file["audit"], check[c].request.source,
                          check[c].request.decision, clock)
          IN Leave(c, "deployCheck", report, Ready(report))
     ELSE Return(c, FALSE) /\ UNCHANGED file

\* live-ops-report loads the review it is given, takes the time of its report,
\* and reads the Kill Switch; after the order it needs the review's file,
BeginOpsReport(c, command) ==
  /\ At(c, command, "start")
  /\ IF command = "post-order-ops" /\ file["review"] = NoFile
     THEN Return(c, FALSE) /\ UNCHANGED file
     ELSE Read(c, "queue", [NothingSeen EXCEPT
            !.review = IF command = "post-order-ops" THEN file["review"] ELSE NoFile,
            !.at = clock, !.killSwitch = killSwitch])

\* reads the queue,
ReadQueue(c, command) ==
  /\ At(c, command, "queue")
  /\ Read(c, "audit", [check[c].seen EXCEPT !.next = Oldest])

\* reads the audit and writes the report; -fail-on-non-clear.  Only after the
\* order may the queue be empty.
WriteOpsReport(c, command) ==
  /\ At(c, command, "audit")
  /\ LET seen == check[c].seen
         after == command = "post-order-ops"
         report == OpsReportOf(seen.killSwitch, seen.next, after, FALSE,
                     AuditOf(runs, check[c].request.readinessLimit, "all"),
                     seen.review, seen.at)
     IN Leave(c, IF after THEN "postOps" ELSE "opsReport", report,
              report.status = "CLEAR")

\* Of the files that are given, what holds whichever decision is selected.
FilesAdmit(given, content, now) ==
  /\ "plan" \in given => ValidPlan(content["plan"]) /\ PlanFresh(content["plan"], now)
  /\ "readiness" \in given => ReadinessFresh(content["readiness"], now)
  /\ "killSwitch" \in given => KillSwitchAdmits(content["killSwitch"], now)
  /\ "audit" \in given => AuditFresh(content["audit"], now)
  /\ "deployCheck" \in given => DeployCheckFresh(content["deployCheck"], now)
  /\ "opsReport" \in given => OpsAdmits(content["opsReport"], now)

\* The loaders: every file that is given is there.
Loaded(given, content) == \A s \in given : content[s] # NoFile

Given(given, content, slot) == IF slot \in given THEN content[slot] ELSE NoFile

\* The readiness report, for the selected decision if it is known.
ReadinessHolds(given, content, selected) ==
  "readiness" \in given =>
    /\ ReadinessAdmits(content["readiness"], Given(given, content, "plan"),
                       Given(given, content, "audit"), selected)
    /\ "killSwitch" \in given =>
         SameKillSwitch(content["killSwitch"], content["readiness"])

\* The deployment check, for the selected decision.
DeployHolds(given, content, source, selected, iterations) ==
  "deployCheck" \in given =>
    DeployAdmits(content["deployCheck"], content["plan"], content["readiness"],
                 content["audit"], source, selected, iterations)

\* live-handoff-verify
Verify(c) ==
  /\ At(c, "verify", "start")
  /\ LET request == check[c].request IN
     Return(c, /\ Loaded(AllFiles, file)
               /\ FilesAdmit(AllFiles, file, clock)
               /\ SourceHolds(file["plan"], request.source, request.decision)
               /\ ReadinessHolds(AllFiles, file, file["plan"].decision)
               /\ DeployHolds(AllFiles, file, request.source,
                              file["plan"].decision, request.bound))
  /\ UNCHANGED file

\* liveFirstOrderPlanCheck
PlanPasses(plan) == ValidPlan(plan)

\* ReadLiveFirstOrderReviewEvidence: the rows under the plan's run identifier,
RunsOf(plan) == {i \in DOMAIN runs : runs[i].id = plan.run}

\* of which there must be one, a completed run of one iteration,
RunPasses(plan) ==
  /\ Cardinality(RunsOf(plan)) = 1
  /\ \A i \in RunsOf(plan) : runs[i].status = "COMPLETED" /\ runs[i].bound = 1

\* that submitted the planned order itself;
IterationPasses(plan) ==
  \A i \in RunsOf(plan) :
    runs[i].outcome = "submitted" /\ runs[i].decision = plan.decision

\* the submission, not of before the plan;
SubmissionPasses(plan) ==
  order[plan.decision].journal # "none" /\ order[plan.decision].at >= plan.at

\* its acknowledgement, without which no status is journaled;
AcknowledgementPasses(plan) == order[plan.decision].journal \in {"open", "filled"}

\* Fault: any status that is journaled will do.
StatusObserved(plan) == order[plan.decision].journal \in {"open", "filled"}

\* its status, which must be filled;
StatusPasses(plan) == order[plan.decision].journal = "filled"

\* and the newest position of the symbol, whoever opened it.
PositionPasses == positionRow = 1

\* BuildLiveFirstOrderReviewReport: the names of the failing checks.
ReviewChecks(plan) ==
  LET failing == [plan            |-> ~PlanPasses(plan),
                  run             |-> ~RunPasses(plan),
                  iteration       |-> ~IterationPasses(plan),
                  submission      |-> ~SubmissionPasses(plan),
                  acknowledgement |-> ~AcknowledgementPasses(plan),
                  status          |-> ~StatusPasses(plan),
                  position        |-> ~PositionPasses]
  IN {name \in DOMAIN failing : failing[name]}

\* live-first-order-review: the rows it reads one after another never change
\* once they pass, but for the position, which it reads last.
FirstOrderReview(c) ==
  /\ At(c, "review", "start")
  /\ LET plan == file["plan"] IN
     IF plan # NoFile /\ ValidPlan(plan)
       THEN LET review == ReviewFileOf(plan, ReviewChecks(plan), clock)
            IN Leave(c, "review", review, review.ready)
       ELSE Return(c, FALSE) /\ UNCHANGED file

-----------------------------------------------------------------------------
(* live-loop-smoke: the whole chain in memory, then a loop on a fake         *)
(* exchange; but its decision and its rows are in the database of all.       *)
(* A smoke ends by its last step, or by taking no further one.               *)

\* A step of a smoke.
SmokeStep(stage, seeds) ==
  /\ smoke' = [stage |-> stage, seeds |-> seeds]
  /\ quiet' = Disturbed
  /\ UNCHANGED <<clock, killSwitch, lots, file, check, loop>>

\* What the DELETE of the snapshots, and then of the submission, leaves of
\* what is journaled.
Deleted(journal) == {journal, IF journal = "none" THEN "none" ELSE "submitted", "none"}

\* cleanupLiveLoopSmokeRows: the rows of its run identifier, iterations with
\* them, then those of the order, whoever sent it; it may stop in between.
SmokeCleanup ==
  /\ runs' = [i \in DOMAIN runs |->
       IF runs[i].id = SmokeRun
         THEN [runs[i] EXCEPT !.status = "DELETED", !.outcome = "none"] ELSE runs[i]]
  /\ \E left \in Deleted(order[Rehearsed].journal) :
       /\ order' = [order EXCEPT ![Rehearsed] =
            IF left = "none" THEN [@ EXCEPT !.journal = "none", !.at = 0, !.by = 0]
            ELSE [@ EXCEPT !.journal = left]]
       /\ SmokeStep(IF left = "none" THEN "cleaned" ELSE "none", smoke.seeds)
  /\ UNCHANGED <<recorded, positionRow>>

\* It deletes the decision, which no submission may refer to, and records an
\* approved LIVE decision like any other; or stops in between.
SmokeSeed ==
  /\ smoke.stage = "cleaned" /\ order[Rehearsed].journal = "none"
  /\ \/ /\ smoke.seeds < MaxSmokes
        /\ recorded' = recorded \cup {Rehearsed}
        /\ SmokeStep("seeded", smoke.seeds + 1)
     \/ /\ recorded' = recorded \ {Rehearsed}
        /\ SmokeStep("none", smoke.seeds)
  /\ UNCHANGED <<order, runs, positionRow>>

\* The files it would have left: plan, readiness and audit,
SmokePlan == PlanOf("decision-id", Rehearsed, SmokeRun, Born[Rehearsed], clock)
SmokeReadiness ==
  ReadinessOf(SmokePlan, SmokePlan, killSwitch, Oldest, TRUE,
              AuditOf(runs, SmokeAuditLimit, "all"),
              PlanFails(SmokePlan, Oldest, recorded, Born, clock), clock)
SmokeAudit == AuditFileOf(SmokeReadiness.audit, clock)
SmokeOpsReport ==
  OpsReportOf(killSwitch, Oldest, FALSE, FALSE,
              AuditOf(runs, SmokeAuditLimit, "all"), NoFile, clock)
\* and what it builds on them.
SmokeFiles ==
  [plan        |-> SmokePlan,
   readiness   |-> SmokeReadiness,
   killSwitch  |-> KillSwitchFileOf(killSwitch, clock),
   audit       |-> SmokeAudit,
   deployCheck |-> DeployCheckOf(SmokePlan, SmokeReadiness, SmokeAudit,
                                 "decision-id", Rehearsed, clock),
   opsReport   |-> SmokeOpsReport]

\* buildAndValidateLiveLoopSmokeHandoff
SmokeRehearse ==
  /\ smoke.stage = "seeded"
  /\ FilesAdmit(AllFiles, SmokeFiles, clock)
  /\ ReadinessHolds(AllFiles, SmokeFiles, Rehearsed)
  /\ DeployHolds(AllFiles, SmokeFiles, "decision-id", Rehearsed, 1)
  /\ SmokeStep("rehearsed", smoke.seeds)
  /\ UNCHANGED <<recorded, order, runs, positionRow>>

\* The order as its run, row by row, journals it; no exchange knows of it.
SmokeOrder(journal) ==
  [order[Rehearsed] EXCEPT !.journal = journal, !.at = clock, !.by = Len(runs) + 1]
\* Nobody has submitted it meanwhile, or deleted it.
SmokeMaySubmit ==
  ~killSwitch.active /\ order[Rehearsed].journal = "none" /\ Rehearsed \in recorded

\* verifyLiveLoopSmokeRows: one filled order, of a completed run.
SmokeVerifies(submitted, rows) ==
  /\ submitted.journal = "filled"
  /\ \E i \in DOMAIN rows : /\ rows[i].id = SmokeRun /\ rows[i].status = "COMPLETED"
                            /\ rows[i].outcome = "submitted"

\* The bounded loop on the fake exchange, which fills the order it is sent.
SmokeExecute ==
  /\ smoke.stage = "rehearsed" /\ SmokeMaySubmit
  /\ order' = [order EXCEPT ![Rehearsed] = SmokeOrder("filled")]
  /\ runs' = Append(runs, [Row(SmokeRun, "COMPLETED", 1, Rehearsed)
                             EXCEPT !.outcome = "submitted"])
  /\ positionRow' = 1
  /\ SmokeVerifies(order'[Rehearsed], runs')
  /\ SmokeStep("done", smoke.seeds)
  /\ UNCHANGED recorded

\* This loop fails or dies: before its preflight has journaled a flat position,
\* after it, or after a row of its order or of the position.
SmokeFails ==
  /\ smoke.stage = "rehearsed"
  /\ \E status \in {"RUNNING", "FAILED"} :
       runs' = Append(runs, Row(SmokeRun, status, 1, Rehearsed))
  /\ \/ UNCHANGED <<order, positionRow>>
     \/ ~killSwitch.active /\ positionRow' = 0 /\ UNCHANGED order
     \/ /\ SmokeMaySubmit
        /\ \E journal \in {"submitted", "filled"} :
             /\ order' = [order EXCEPT ![Rehearsed] = SmokeOrder(journal)]
             /\ positionRow' \in IF journal = "filled" THEN {0, 1} ELSE {0}
  /\ SmokeStep("none", smoke.seeds)
  /\ UNCHANGED recorded

-----------------------------------------------------------------------------
(* The bounded live loop, armed with the files it is given.                 *)

\* A step of the loop.
LoopStep(phase) ==
  /\ loop' = [loop EXCEPT !.phase = phase]
  /\ Beside

\* applyLiveLoopPlanArtifact: source and decision, and with a plan also
\* -run-id, are those of the plan.
PlanApplies(given, content, request) ==
  "plan" \in given =>
    /\ SourceHolds(content["plan"], request.source, request.decision)
    /\ request.run = content["plan"].run

\* validateLiveLoopPlanArtifactAgainstCurrentDecision: the plan, against the
\* row of the selected decision.
PlanHolds(given, content, selected, run) ==
  "plan" \in given =>
    selected \in recorded /\ PlannedOrder(content["plan"], selected, run, Born[selected])

\* Its files are loaded at one instant and never read again.  A FIFO loop
\* does not know its decision yet.
Arm(given, request) ==
  LET selected == IF request.source = "select-pending" THEN NoDecision
                  ELSE request.decision
      ask == [request EXCEPT !.decision = selected]
  IN /\ loop.phase = "none"
     /\ OneSource(request) /\ LoopBounds(request)
     /\ Loaded(given, file)
     /\ FilesAdmit(given, file, clock)
     /\ PlanApplies(given, file, request)
     /\ ReadinessHolds(given, file, selected)
     /\ selected # NoDecision =>
          /\ DeployHolds(given, file, request.source, selected, request.bound)
          /\ PlanHolds(given, file, selected, request.run)
     /\ loop' = [NoLoop EXCEPT !.given = given, !.request = ask,
                   !.file = [s \in AllFiles |-> Given(given, file, s)],
                   !.phase = IF selected = NoDecision THEN "select" ELSE "start"]
     /\ Beside /\ UNCHANGED database

\* Fault: the files are not checked again once the decision is known.
SelectUnchecked ==
  /\ loop.phase = "select" /\ Oldest # NoDecision
  /\ loop' = [loop EXCEPT !.phase = "start", !.request.decision = Oldest]
  /\ Beside /\ UNCHANGED database

\* Under the pending-selection lock: the head of the queue, and the files
\* once more for this decision.
Select ==
  /\ loop.phase = "select" /\ Oldest # NoDecision
  /\ ReadinessHolds(loop.given, loop.file, Oldest)
  /\ DeployHolds(loop.given, loop.file, loop.request.source, Oldest,
                 loop.request.bound)
  /\ PlanHolds(loop.given, loop.file, Oldest, loop.request.run)
  /\ loop' = [loop EXCEPT !.phase = "start", !.request.decision = Oldest]
  /\ Beside /\ UNCHANGED database

\* RunBoundedLiveLoop opens the row of the run.
Start ==
  /\ loop.phase = "start"
  /\ RoomForRun
  /\ runs' = Append(runs, Row(loop.request.run, "RUNNING", loop.request.bound,
                              loop.request.decision))
  /\ loop' = [loop EXCEPT !.phase = "preflight", !.row = Len(runs) + 1]
  /\ Beside /\ UNCHANGED <<recorded, order, killSwitch, lots, positionRow>>

\* PreflightLiveStartup: inactive Kill Switch, flat position.
Preflight ==
  /\ loop.phase = "preflight"
  /\ ~killSwitch.active /\ lots = 0
  /\ positionRow' = 0
  /\ LoopStep("journal") /\ UNCHANGED <<recorded, order, killSwitch, runs, lots>>

\* Fault: a row that is there already is written over.
JournalAnyway ==
  LET d == loop.request.decision IN
  /\ loop.phase = "journal"
  /\ ~killSwitch.active /\ d \in recorded
  /\ order' = [order EXCEPT ![d].journal = "submitted", ![d].at = clock,
                            ![d].by = loop.row]
  /\ LoopStep("post")
  /\ UNCHANGED <<recorded, killSwitch, runs, lots, positionRow>>

\* The Kill Switch once more, then the submission row.  The row of another
\* run is met as AlreadySubmitted only if it is the same to its created_at.
Journal ==
  LET d == loop.request.decision IN
  /\ loop.phase = "journal"
  /\ ~killSwitch.active /\ d \in recorded
  /\ \/ /\ order[d].journal = "none"
        /\ order' = [order EXCEPT ![d].journal = "submitted", ![d].at = clock,
                                 ![d].by = loop.row]
        /\ LoopStep("post")
     \/ /\ order[d].journal # "none" /\ order[d].at = clock
        /\ loop' = [loop EXCEPT !.phase = "observe", !.already = TRUE]
        /\ Beside /\ UNCHANGED order
  /\ UNCHANGED <<recorded, killSwitch, runs, lots, positionRow>>

\* The exchange takes the order, if it is the first of its orderLinkId, and
\* executes it at once or later.
Post ==
  /\ loop.phase = "post" /\ order[loop.request.decision].exchange = "none"
  /\ \E taken \in {"open", "filled"} :
       /\ order' = [order EXCEPT ![loop.request.decision].exchange = taken]
       /\ lots' = IF taken = "filled" THEN lots + 1 ELSE lots
  /\ LoopStep("observe") /\ UNCHANGED <<recorded, killSwitch, runs, positionRow>>

\* ReconcileSubmittedOrderStatus journals what the exchange says of it, under
\* a submission row of its orderLinkId.
Observe ==
  LET d == loop.request.decision IN
  /\ loop.phase = "observe"
  /\ order[d].exchange # "none" /\ order[d].journal # "none"
  /\ order' = [order EXCEPT ![d].journal = order[d].exchange]
  /\ loop' = [loop EXCEPT !.phase = "complete",
                !.executed = IF order[d].exchange = "filled" THEN 1 ELSE 0]
  /\ Beside /\ UNCHANGED <<recorded, killSwitch, runs, lots, positionRow>>

\* Fault: the run counts as the one that submitted whatever row it met.
CompleteSubmitted ==
  /\ loop.phase = "complete"
  /\ lots = loop.executed
  /\ positionRow' = lots
  /\ runs' = [runs EXCEPT ![loop.row].status = "COMPLETED",
                         ![loop.row].outcome = "submitted"]
  /\ loop' = NoLoop
  /\ Beside /\ UNCHANGED <<recorded, order, killSwitch, lots>>

\* ReconcileSubmittedOrderPosition journals the position if it is of the
\* executed size, and the run ends: an iteration always requests the stop.
Complete ==
  /\ loop.phase = "complete"
  /\ lots = loop.executed
  /\ positionRow' = lots
  /\ runs' = [runs EXCEPT ![loop.row].status = "COMPLETED", ![loop.row].outcome =
                IF loop.already THEN "already" ELSE "submitted"]
  /\ loop' = NoLoop
  /\ Beside /\ UNCHANGED <<recorded, order, killSwitch, lots>>

\* Fault: the row of an interrupted run gets a status of its own.
StopAborted ==
  /\ loop.phase # "none"
  /\ runs' = IF loop.row = 0 THEN runs
             ELSE [runs EXCEPT ![loop.row].status = "ABORTED"]
  /\ loop' = NoLoop
  /\ Beside /\ UNCHANGED <<recorded, order, killSwitch, lots, positionRow>>

\* A refused check, an error or a deadline ends the loop, and its row as FAILED.
Stop ==
  /\ loop.phase # "none"
  /\ runs' = IF loop.row = 0 THEN runs
             ELSE [runs EXCEPT ![loop.row].status = "FAILED"]
  /\ loop' = NoLoop
  /\ Beside /\ UNCHANGED <<recorded, order, killSwitch, lots, positionRow>>

\* The process dies, and leaves its row as RUNNING.
Crash ==
  /\ loop.row # 0
  /\ loop' = NoLoop
  /\ Beside /\ UNCHANGED database

-----------------------------------------------------------------------------
Environment ==
  \/ Tick
  \/ \E d \in Decisions : RecordDecision(d) \/ SubmitElsewhere(d) \/ FillOrder(d)
  \/ ToggleKillSwitch
  \/ ClosePosition
  \/ \E id \in RunIds, status \in {"COMPLETED", "FAILED"} : HealthRun(id, status)

Smoke == SmokeCleanup \/ SmokeSeed \/ SmokeRehearse \/ SmokeExecute \/ SmokeFails

Command(c) ==
  \/ \E script \in Scripts[c] :
       BeginFirstOrder(c, script) \/ BeginPostOrder(c, script) \/ BeginOne(c, script)
  \/ KillSwitchState(c)
  \/ OrderPlan(c)
  \/ LoadPlan(c) \/ HashPlan(c) \/ CheckPlan(c) \/ WriteReadiness(c)
  \/ LoopAudit(c)
  \/ DeployCheck(c)
  \/ \E command \in {"ops-report", "post-order-ops"} :
       BeginOpsReport(c, command) \/ ReadQueue(c, command) \/ WriteOpsReport(c, command)
  \/ Verify(c)
  \/ FirstOrderReview(c)

Loop ==
  \/ \E given \in Handoffs, request \in Requests : Arm(given, request)
  \/ Select \/ Start \/ Preflight \/ Journal \/ Post \/ Observe \/ Complete
  \/ Stop \/ Crash

Next == Environment \/ Smoke \/ (\E c \in Checks : Command(c)) \/ Loop

Spec == Init /\ [][Next]_vars

-----------------------------------------------------------------------------
(* Properties.                                                              *)

\* What the rows of the database and the plan file may hold.
Times == 0..MaxTime
Orders == [journal: {"none", "submitted", "open", "filled"},
           exchange: {"none", "open", "filled"}, at: Times, by: Nat]
RunRows == [id: RunIds \cup {SmokeRun},
            status: {"RUNNING", "FAILED", "COMPLETED", "DELETED"},
            bound: Nat \ {0}, decision: Decisions \cup {NoDecision},
            outcome: {"none", "already", "submitted"}]
Plans == [source: Sources, decision: Decisions, run: RunIds, born: 0..MaxSmokes, at: Times]

\* A review that can be loaded, of a plan that could be.
KnownReview(review) ==
  review # NoFile => review.plan \in Plans /\ ValidReview(review)

\* Every file that a command leaves is one that the commands after it can load.
FilesTyped ==
  /\ DOMAIN file = Slots
  /\ file["plan"] \in Plans \cup {NoFile}
  /\ file["readiness"] # NoFile => ValidReadiness(file["readiness"])
  /\ file["audit"] # NoFile => ValidAudit(file["audit"].audit)
  /\ file["deployCheck"] # NoFile => ValidDeployCheck(file["deployCheck"])
  /\ KnownReview(file["review"])
  /\ \A s \in {"opsReport", "postOps"} : file[s] # NoFile => ValidOpsReport(file[s])

\* An invocation keeps its flags, and what it has read, until its last command.
CheckTyped(c) ==
  LET seen == check[c].seen IN
  /\ DOMAIN check[c] = DOMAIN Idle /\ DOMAIN seen = DOMAIN NothingSeen
  /\ check[c].status \in {"idle", "running", "done"}
  /\ check[c].todo \in Seq(STRING)
  /\ check[c].status = "running" => check[c].request \in Flags /\ check[c].todo # <<>>
  /\ seen.plan \in Plans \cup {NoFile} /\ seen.hash \in Plans \cup {NoFile}
  /\ seen.fails \subseteq {"plan"} /\ KnownReview(seen.review)

LoopTyped ==
  /\ DOMAIN loop = DOMAIN NoLoop /\ DOMAIN loop.file = AllFiles
  /\ loop.phase \in {"none", "select", "start", "preflight", "journal", "post",
                     "observe", "complete"}
  /\ loop.given \subseteq AllFiles
  /\ loop.phase # "none" => loop.request \in Flags
  /\ loop.row \in 0..Len(runs) /\ loop.already \in BOOLEAN /\ loop.executed \in {0, 1}

QuietTyped ==
  /\ DOMAIN quiet = DOMAIN Disturbed
  /\ quiet.check \in Checks \cup {NoCheck}
  /\ quiet.status \in {"running", "passed", "failed", "done"}
  /\ quiet.since \in 0..clock

\* Every variable keeps the shape the commands rely on.
TypeOK ==
  /\ clock \in Times
  /\ recorded \subseteq Decisions
  /\ order \in [Decisions -> Orders]
  /\ killSwitch \in [active: BOOLEAN, since: 0..MaxEvents]
  /\ runs \in Seq(RunRows)
  /\ lots \in Nat /\ positionRow \in Nat
  /\ smoke \in [stage: {"none", "cleaned", "seeded", "rehearsed", "done"},
               seeds: 0..MaxSmokes]
  /\ FilesTyped
  /\ DOMAIN check = Checks /\ \A c \in Checks : CheckTyped(c)
  /\ LoopTyped
  /\ QuietTyped

\* A loop that knows its decision and was given every file runs one iteration
\* for that decision under the plan's run identifier, and the files are of one
\* piece: readiness found this decision at the head of the queue, with this
\* plan, this Kill Switch state and a clear audit, and the deployment check
\* passed for these very files and a decision of micro capital.
HandoffHolds ==
  loop.phase \notin {"none", "select"} /\ loop.given = AllFiles =>
    LET content == loop.file  d == loop.request.decision IN
    /\ content["plan"].decision = d /\ d \in MicroSized
    /\ content["plan"].run = loop.request.run /\ loop.request.bound = 1
    /\ content["plan"].source = loop.request.source
    /\ content["readiness"].next = d /\ content["readiness"].failed = {}
    /\ content["readiness"].warned = {} /\ content["readiness"].hash = content["plan"]
    /\ content["audit"].audit.review = "CLEAR"
    /\ ~content["killSwitch"].killSwitch.active
    /\ content["killSwitch"].killSwitch = content["readiness"].killSwitch
    /\ content["deployCheck"].selected = d
    /\ content["deployCheck"].readiness = content["readiness"]

\* Reviewed(plan): a completed run of the plan's run identifier submitted its
\* order.  The order was filled, not submitted before the plan was made, and is
\* journaled as that run's; but of the order of a smoke's decision, whose rows
\* the next smoke deletes and writes again, all one knows is that it was placed.
Reviewed(plan) ==
  LET d == plan.decision IN
  /\ \E i \in DOMAIN runs :
       /\ runs[i].id = plan.run /\ runs[i].status = "COMPLETED"
       /\ runs[i].outcome = "submitted" /\ runs[i].decision = d
       /\ d # Rehearsed => order[d].by = i
  /\ order[d].exchange # "none"
  /\ d # Rehearsed => order[d].exchange = "filled" /\ order[d].at >= plan.at

\* A first-order review that is ready is about an order the reviewed run itself
\* submitted, never about one that live-submit or another run placed.
ReviewIsEarned ==
  file["review"] # NoFile /\ file["review"].ready => Reviewed(file["review"].plan)

\* A clear post-order report over an empty queue rests on such an order.
IdleIsReviewed ==
  LET report == file["postOps"] IN
  report # NoFile /\ report.status = "CLEAR" /\ report.next = NoDecision =>
    report.review # NoFile /\ Reviewed(report.review.plan)

\* Once a smoke has completed, nobody begins to order the decision it made up:
\* it is journaled under the smoke's own run, and a loop that is about to send
\* it opened its run before the smoke did.
NoOrderAfterSmoke ==
  smoke.stage = "done" =>
    /\ order[Rehearsed].journal # "none" /\ order[Rehearsed].by \in DOMAIN runs
    /\ runs[order[Rehearsed].by].id = SmokeRun
    /\ loop.phase = "post" /\ loop.request.decision = Rehearsed =>
         loop.row < order[Rehearsed].by

\* What a first-order check asks for.
Fit(request) ==
  /\ ~killSwitch.active
  /\ Oldest \in MicroSized
  /\ request.source = "decision-id" => request.decision = Oldest
  /\ request.required
  /\ LET audit == AuditOf(runs, request.readinessLimit, "all") IN
     audit.review = "CLEAR" /\ AuditOf(runs, request.auditLimit, request.filter) = audit

\* The commands of a first-order check do not contradict one another: if
\* nobody else acts and the files do not grow too old meanwhile, it passes
\* exactly when the Kill Switch, the queue and the audit allow it.
QuietCheckIsRight ==
  quiet.check # NoCheck /\ clock - quiet.since <= MaxAge =>
    /\ quiet.status = "passed" => Fit(quiet.request)
    /\ quiet.status = "failed" => ~Fit(quiet.request)

-----------------------------------------------------------------------------
(* The inductive invariant.                                                  *)

\* The exchange knows no order that is not journaled, and has filled those that
\* are journaled as filled; but for the smoke's decision.
JournalsHold ==
  \A d \in Decisions \ {Rehearsed} :
    /\ order[d].exchange # "none" => order[d].journal # "none"
    /\ order[d].journal = "filled" => order[d].exchange = "filled"

\* The order of decision d is journaled under row i of the runs.
JournaledBy(d, i) == order[d].journal # "none" /\ order[d].by = i

\* A row that says submitted is of a completed run that posted the order, if it
\* was not the smoke's, and journaled it, which the next smoke may have undone.
RowsHold ==
  \A i \in DOMAIN runs : runs[i].outcome = "submitted" =>
    /\ runs[i].status = "COMPLETED" /\ runs[i].decision \in Decisions
    /\ runs[i].decision # Rehearsed => JournaledBy(runs[i].decision, i)
    /\ runs[i].id # SmokeRun => order[runs[i].decision].exchange # "none"

\* A loop on its way: its row is open, and from its own submission row on the
\* order is its own, the smoke's excepted; what it reconciles was placed.
LoopHolds ==
  LET d == loop.request.decision  row == loop.row IN
  /\ loop.phase \in {"none", "select", "start"} <=> row = 0
  /\ loop.phase \notin {"none", "select"} => d \in Decisions
  /\ row # 0 => /\ runs[row].status = "RUNNING" /\ runs[row].outcome = "none"
                /\ runs[row].id = loop.request.run /\ runs[row].decision = d
  /\ loop.phase = "post" /\ d # Rehearsed =>
       /\ order[d].journal = "submitted" /\ order[d].exchange = "none"
       /\ order[d].by = row
  /\ loop.phase \in {"observe", "complete"} /\ ~loop.already =>
       order[d].exchange # "none" /\ (d # Rehearsed => order[d].by = row)

\* Wherever a ready review is kept, it is earned.
Earned(review) == review # NoFile /\ review.ready => Reviewed(review.plan)
ReviewsHold ==
  /\ Earned(file["review"])
  /\ \A c \in Checks : Earned(check[c].seen.review)
  /\ file["postOps"] # NoFile /\ file["postOps"].status = "CLEAR" =>
       /\ file["postOps"].review # NoFile /\ file["postOps"].review.ready
       /\ KnownReview(file["postOps"].review) /\ Earned(file["postOps"].review)

\* What a deployment check that is ready says of the files it names.
ReadyMeans(report) ==
  report # NoFile /\ Ready(report) =>
    CapitalFits(report.plan) /\ ReviewedReadiness(report.readiness)

\* A loop with every file has kept what it found in them when it was armed.
LoopArmed ==
  loop.phase # "none" /\ loop.given = AllFiles =>
    /\ PlanApplies(AllFiles, loop.file, loop.request)
    /\ InactiveState(loop.file["killSwitch"])
    /\ SameKillSwitch(loop.file["killSwitch"], loop.file["readiness"])
    /\ loop.file["plan"] # NoFile /\ loop.file["audit"] # NoFile
    /\ loop.file["deployCheck"] # NoFile /\ ReadyMeans(loop.file["deployCheck"])
FilesHold == ReadyMeans(file["deployCheck"]) /\ LoopArmed

\* live-readiness has loaded a plan, and has its fingerprint.
SeenHolds(c) ==
  LET seen == check[c].seen IN
  /\ check[c].stage = "hash" => seen.plan # NoFile /\ file["plan"] # NoFile
  /\ check[c].stage \in {"queue", "audit"} /\ Head(check[c].todo) = "readiness" =>
       seen.plan # NoFile /\ seen.hash # NoFile

\* What the commands of the undisturbed check have left, each at an instant
\* since it began, is what the database still says.
Since == quiet.since..clock
QuietKillSwitch == \E t \in Since : file["killSwitch"] = KillSwitchFileOf(killSwitch, t)
QuietPlan(request) ==
  LET d == PlannedDecision(request) IN
  d \in recorded /\ \E t \in Since :
    file["plan"] = PlanOf(request.source, d, request.run, Born[d], t)
QuietReadiness(request) ==
  /\ Ready(file["readiness"])
  /\ \E fails \in SUBSET {"plan"}, t \in Since : file["readiness"] =
       ReadinessOf(file["plan"], file["plan"], killSwitch, Oldest, request.required,
                   AuditOf(runs, request.readinessLimit, "all"), fails, t)
QuietAudit(request) ==
  \E t \in Since :
    file["audit"] = AuditFileOf(AuditOf(runs, request.auditLimit, request.filter), t)
QuietDeployCheck(request) ==
  /\ Ready(file["deployCheck"])
  /\ \E t \in Since : file["deployCheck"] =
       DeployCheckOf(file["plan"], file["readiness"], file["audit"],
                     request.source, request.decision, t)
QuietOpsReport(request) ==
  /\ file["opsReport"].status = "CLEAR"
  /\ \E t \in Since : file["opsReport"] =
       OpsReportOf(killSwitch, Oldest, FALSE, FALSE,
                   AuditOf(runs, request.readinessLimit, "all"), NoFile, t)
QuietFiles(request, place) ==
  /\ place > 1 => QuietKillSwitch
  /\ place > 2 => QuietPlan(request)
  /\ place > 3 => QuietReadiness(request)
  /\ place > 4 => QuietAudit(request)
  /\ place > 5 => QuietDeployCheck(request)
  /\ place > 6 => QuietOpsReport(request)

\* It should pass so far, and its files are young enough.
Wanted == Fit(quiet.request) /\ clock - quiet.since <= MaxAge

\* What it has read so far, in the command at this place.
QuietSeen(seen, stage, place) ==
  /\ place = 3 =>
       /\ stage \in {"hash", "queue", "audit"} => seen.plan = file["plan"]
       /\ stage \in {"queue", "audit"} =>
            seen.hash = file["plan"] /\ seen.killSwitch = killSwitch
       /\ stage = "audit" => seen.next = Oldest /\ (Wanted => seen.fails = {})
  /\ place = 6 =>
       /\ stage \in {"queue", "audit"} =>
            /\ seen.review = NoFile /\ seen.at \in Since
            /\ seen.killSwitch = killSwitch
       /\ stage = "audit" => seen.next = Oldest

\* The commands that are left are the last ones of a first-order check.
Remaining(todo, place) ==
  /\ place \in 1..7 /\ Len(todo) = 8 - place
  /\ \A i \in 1..8 - place : todo[i] = FirstOrder[place - 1 + i]

QuietRuns ==
  LET mine == check[quiet.check] IN
  /\ mine.status = "running" /\ mine.request = quiet.request
  /\ \E place \in 1..7 :
       /\ Remaining(mine.todo, place)
       /\ QuietFiles(quiet.request, place)
       /\ QuietSeen(mine.seen, mine.stage, place)

QuietHolds ==
  quiet.check # NoCheck =>
    /\ quiet.request \in Flags /\ FirstOrderFlags(quiet.request)
    /\ quiet.status = "running" => QuietRuns
    /\ quiet.status # "running" => check[quiet.check].status # "running"
    /\ quiet.status = "passed" => Fit(quiet.request)
    /\ quiet.status = "failed" => ~Wanted

\* Every step keeps all of it, and the properties follow from it.
IInv ==
  /\ TypeOK
  /\ JournalsHold /\ RowsHold /\ LoopHolds /\ NoOrderAfterSmoke
  /\ ReviewsHold /\ FilesHold /\ HandoffHolds
  /\ \A c \in Checks : SeenHolds(c)
  /\ QuietHolds
===============================================================================
