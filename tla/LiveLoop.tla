------------------------------- MODULE LiveLoop -------------------------------
(***************************************************************************)
(* RunBoundedLiveLoop and its durable audit (live_loop_runs and            *)
(* live_loop_iterations), as live-loop and live-health use it.             *)
(*                                                                         *)
(* A run is recorded, passes the startup preflight, then executes          *)
(* iterations until it meets a bound, a stop request, an active Kill       *)
(* Switch or an error, and records how it ended.  What an iteration does   *)
(* is the business of LiveOrder; here it ends well, asks to stop, or       *)
(* fails.  Runs of several commands share the journal and the clock.       *)
(*                                                                         *)
(* Every journal write may be applied and confirmed, fail without effect,  *)
(* or be applied although the caller sees an error.  A cancelled context   *)
(* (SIGINT, or the -timeout of the command) makes every later database     *)
(* call of the run fail without effect.                                    *)
(***************************************************************************)
EXTENDS Integers, FiniteSets, Sequences

CONSTANTS Runs,
          MaxIterations,     \* RunBoundedLiveLoopRequest.MaxIterations
          MaxRuntime,        \* ... .MaxRuntime
          IterationTimeout,  \* ... .IterationTimeout
          Limit,             \* how many recent runs an audit review reads
          MaxClock           \* bound on the clock readings explored

\* validateRunBoundedLiveLoopRequest
ASSUME RequestAssumption ==
  /\ MaxIterations \in Nat \ {0}
  /\ MaxRuntime \in Nat \ {0}
  /\ IterationTimeout \in 1..MaxRuntime
ASSUME BoundsAssumption == MaxClock \in Nat /\ Limit \in Nat \ {0}

VARIABLES
  clock, killSwitch,
  pc, startedAt, iteration, attempted, succeeded, deadline, stopping, stop,
  cancelled,       \* runs whose context is done
  exit,            \* what the command reported: "none", "ok" or "error"
  inserted,        \* live_loop_runs in the order of their ids
  status,          \* live_loop_runs.status, "NONE" without a row
  rowStop, rowAttempted, rowSucceeded,    \* further columns of the row
  iterationRows,   \* live_loop_iterations: iteration numbers of each run
  exposed          \* history: runs past the Kill Switch check at activation

environment == <<clock, killSwitch, exposed>>
local == <<startedAt, iteration, attempted, succeeded, deadline, stopping>>
runRows == <<status, rowStop, rowAttempted, rowSucceeded>>
vars == <<environment, pc, local, stop, cancelled, exit, inserted, runRows,
          iterationRows>>

Completing == {"MAX_ITERATIONS", "MAX_RUNTIME", "ITERATION_REQUESTED"}
Failing == {"PREFLIGHT_FAILED", "SAFETY_CHECK_ERROR", "KILL_SWITCH_ACTIVE",
            "ITERATION_ERROR", "AUDIT_JOURNAL_ERROR"}
StopReasons == Completing \cup Failing \cup {""}
Active == {"start", "preflight", "top", "check", "launch", "iterating",
           "audit", "finish"}
Places == Active \cup {"idle", "returned", "crashed"}

TypeOK ==
  /\ clock \in 0..MaxClock
  /\ killSwitch \in BOOLEAN
  /\ exposed \subseteq Runs
  /\ pc \in [Runs -> Places]
  /\ startedAt \in [Runs -> Nat]
  /\ iteration \in [Runs -> 1..MaxIterations]
  /\ attempted \in [Runs -> 0..MaxIterations]
  /\ succeeded \in [Runs -> 0..MaxIterations]
  /\ deadline \in [Runs -> Nat]
  /\ stopping \in [Runs -> BOOLEAN]
  /\ stop \in [Runs -> StopReasons]
  /\ cancelled \subseteq Runs
  /\ exit \in [Runs -> {"none", "ok", "error"}]
  /\ inserted \in Seq(Runs)
  /\ status \in [Runs -> {"NONE", "RUNNING", "COMPLETED", "FAILED"}]
  /\ rowStop \in [Runs -> StopReasons]
  /\ rowAttempted \in [Runs -> 0..MaxIterations]
  /\ rowSucceeded \in [Runs -> 0..MaxIterations]
  /\ iterationRows \in [Runs -> SUBSET (1..MaxIterations)]

Init ==
  /\ clock = 0
  /\ killSwitch = FALSE
  /\ exposed = {}
  /\ pc = [r \in Runs |-> "idle"]
  /\ startedAt = [r \in Runs |-> 0]
  /\ iteration = [r \in Runs |-> 1]
  /\ attempted = [r \in Runs |-> 0]
  /\ succeeded = [r \in Runs |-> 0]
  /\ deadline = [r \in Runs |-> 0]
  /\ stopping = [r \in Runs |-> FALSE]
  /\ stop = [r \in Runs |-> ""]
  /\ cancelled = {}
  /\ exit = [r \in Runs |-> "none"]
  /\ inserted = <<>>
  /\ status = [r \in Runs |-> "NONE"]
  /\ rowStop = [r \in Runs |-> ""]
  /\ rowAttempted = [r \in Runs |-> 0]
  /\ rowSucceeded = [r \in Runs |-> 0]
  /\ iterationRows = [r \in Runs |-> {}]

-----------------------------------------------------------------------------
(* The surroundings of a run.                                               *)

Tick ==
  /\ clock < MaxClock
  /\ clock' = clock + 1
  /\ UNCHANGED <<killSwitch, exposed, pc, local, stop, cancelled, exit,
                 inserted, runRows, iterationRows>>

\* An operator or the drift guard toggles the Kill Switch.
ToggleKillSwitch ==
  /\ killSwitch' = ~killSwitch
  /\ exposed' = IF killSwitch THEN {} ELSE {r \in Runs : pc[r] = "launch"}
  /\ UNCHANGED <<clock, pc, local, stop, cancelled, exit, inserted, runRows,
                 iterationRows>>

\* SIGINT, or the timeout of the command.
Cancel(r) ==
  /\ pc[r] \in Active
  /\ cancelled' = cancelled \cup {r}
  /\ UNCHANGED <<environment, pc, local, stop, exit, inserted, runRows,
                 iterationRows>>

Crash(r) ==
  /\ pc[r] \in Active
  /\ pc' = [pc EXCEPT ![r] = "crashed"]
  /\ UNCHANGED <<environment, local, stop, cancelled, exit, inserted,
                 runRows, iterationRows>>

-----------------------------------------------------------------------------
(* RunBoundedLiveLoop.                                                      *)

RuntimeDeadline(r) == startedAt[r] + MaxRuntime

GoTo(r, next) ==
  /\ pc' = [pc EXCEPT ![r] = next]
  /\ UNCHANGED stop

\* finishBoundedLiveLoop follows with this StopReason.
Finish(r, reason) ==
  /\ pc' = [pc EXCEPT ![r] = "finish"]
  /\ stop' = [stop EXCEPT ![r] = reason]

Begin(r) ==
  /\ pc[r] = "idle"
  /\ startedAt' = [startedAt EXCEPT ![r] = clock]
  /\ GoTo(r, "start")
  /\ UNCHANGED <<environment, iteration, attempted, succeeded, deadline,
                 stopping, cancelled, exit, inserted, runRows, iterationRows>>

\* How a journal write of run r may end: in the table, and for the caller.
WriteEnds(r, applied, confirmed) ==
  /\ confirmed => applied
  /\ r \in cancelled => ~applied

\* Fault: the loop goes on when the start row could not be confirmed.
RecordStartBestEffort(r) ==
  /\ pc[r] = "start"
  /\ \E applied \in BOOLEAN :
       /\ r \in cancelled => ~applied
       /\ inserted' = IF applied THEN Append(inserted, r) ELSE inserted
       /\ status' = IF applied THEN [status EXCEPT ![r] = "RUNNING"] ELSE status
  /\ GoTo(r, "preflight")
  /\ UNCHANGED <<environment, local, cancelled, exit, rowStop, rowAttempted,
                 rowSucceeded, iterationRows>>

\* recordLiveLoopRunStarted: without its row the run returns at once.
RecordStart(r) ==
  /\ pc[r] = "start"
  /\ \E applied \in BOOLEAN, confirmed \in BOOLEAN :
       /\ WriteEnds(r, applied, confirmed)
       /\ inserted' = IF applied THEN Append(inserted, r) ELSE inserted
       /\ status' = IF applied THEN [status EXCEPT ![r] = "RUNNING"] ELSE status
       /\ GoTo(r, IF confirmed THEN "preflight" ELSE "returned")
       /\ exit' = IF confirmed THEN exit ELSE [exit EXCEPT ![r] = "error"]
  /\ UNCHANGED <<environment, local, cancelled, rowStop, rowAttempted,
                 rowSucceeded, iterationRows>>

\* PreflightLiveStartup, which reads the Kill Switch among other things.
Preflight(r) ==
  /\ pc[r] = "preflight"
  /\ \/ ~killSwitch /\ r \notin cancelled /\ GoTo(r, "top")
     \/ Finish(r, "PREFLIGHT_FAILED")
  /\ UNCHANGED <<environment, local, cancelled, exit, inserted, runRows,
                 iterationRows>>

\* The checks at the head of the loop body.
TopOfLoop(r) ==
  /\ pc[r] = "top"
  /\ IF r \in cancelled THEN Finish(r, "")
     ELSE IF clock >= RuntimeDeadline(r) THEN Finish(r, "MAX_RUNTIME")
     ELSE GoTo(r, "check")
  /\ UNCHANGED <<environment, local, cancelled, exit, inserted, runRows,
                 iterationRows>>

\* Fault: the Kill Switch is read before the first iteration only.
CheckKillSwitchOnce(r) ==
  /\ pc[r] = "check"
  /\ \/ /\ r \notin cancelled /\ (~killSwitch \/ iteration[r] > 1)
        /\ GoTo(r, "launch")
     \/ r \notin cancelled /\ killSwitch /\ Finish(r, "KILL_SWITCH_ACTIVE")
     \/ Finish(r, "SAFETY_CHECK_ERROR")
  /\ UNCHANGED <<environment, local, cancelled, exit, inserted, runRows,
                 iterationRows>>

CheckKillSwitch(r) ==
  /\ pc[r] = "check"
  /\ \/ r \notin cancelled /\ ~killSwitch /\ GoTo(r, "launch")
     \/ r \notin cancelled /\ killSwitch /\ Finish(r, "KILL_SWITCH_ACTIVE")
     \/ Finish(r, "SAFETY_CHECK_ERROR")
  /\ UNCHANGED <<environment, local, cancelled, exit, inserted, runRows,
                 iterationRows>>

\* boundedIterationTimeout
BoundedIterationTimeout(remaining) ==
  IF remaining > 0 /\ remaining < IterationTimeout THEN remaining
  ELSE IterationTimeout

\* Fault: the clock is not read again after the Kill Switch came back.
LaunchUnchecked(r) ==
  /\ pc[r] = "launch"
  /\ LET remaining == RuntimeDeadline(r) - clock IN
       /\ deadline' = [deadline EXCEPT ![r] =
            clock + BoundedIterationTimeout(remaining)]
       /\ GoTo(r, "iterating")
  /\ UNCHANGED <<environment, startedAt, iteration, attempted, succeeded,
                 stopping, cancelled, exit, inserted, runRows, iterationRows>>

\* The clock is read again: the Kill Switch read may have taken long.
Launch(r) ==
  /\ pc[r] = "launch"
  /\ LET remaining == RuntimeDeadline(r) - clock IN
       IF remaining <= 0
         THEN Finish(r, "MAX_RUNTIME") /\ UNCHANGED deadline
         ELSE /\ deadline' = [deadline EXCEPT ![r] =
                   clock + BoundedIterationTimeout(remaining)]
              /\ GoTo(r, "iterating")
  /\ UNCHANGED <<environment, startedAt, iteration, attempted, succeeded,
                 stopping, cancelled, exit, inserted, runRows, iterationRows>>

\* RunLiveLoopIteration returned and normalizeLiveLoopIterationResult took
\* the result, with or without a request to stop.
IterationSucceeds(r) ==
  /\ pc[r] = "iterating"
  /\ \E s \in BOOLEAN : stopping' = [stopping EXCEPT ![r] = s]
  /\ attempted' = [attempted EXCEPT ![r] = @ + 1]
  /\ succeeded' = [succeeded EXCEPT ![r] = @ + 1]
  /\ GoTo(r, "audit")
  /\ UNCHANGED <<environment, startedAt, iteration, deadline, cancelled,
                 exit, inserted, runRows, iterationRows>>

\* An error, an invalid result, or a context that ended.
IterationFails(r) ==
  /\ pc[r] = "iterating"
  /\ attempted' = [attempted EXCEPT ![r] = @ + 1]
  /\ Finish(r, "ITERATION_ERROR")
  /\ UNCHANGED <<environment, startedAt, iteration, succeeded, deadline,
                 stopping, cancelled, exit, inserted, runRows, iterationRows>>

\* After an audited iteration: stop as asked, stop at the bound, or go on.
GoOn(r) ==
  IF stopping[r]
    THEN Finish(r, "ITERATION_REQUESTED") /\ UNCHANGED iteration
  ELSE IF iteration[r] = MaxIterations
    THEN Finish(r, "MAX_ITERATIONS") /\ UNCHANGED iteration
  ELSE GoTo(r, "top") /\ iteration' = [iteration EXCEPT ![r] = @ + 1]

\* Fault: a failed iteration audit is logged and the loop goes on.
RecordIterationBestEffort(r) ==
  /\ pc[r] = "audit"
  /\ \E applied \in BOOLEAN :
       iterationRows' = IF applied
         THEN [iterationRows EXCEPT ![r] = @ \cup {iteration[r]}]
         ELSE iterationRows
  /\ GoOn(r)
  /\ UNCHANGED <<environment, startedAt, attempted, succeeded, deadline,
                 stopping, cancelled, exit, inserted, runRows>>

\* Fault: an iteration row is written again until the journal confirms it.
RecordIterationRetried(r) ==
  /\ pc[r] = "audit"
  /\ \E applied \in BOOLEAN, confirmed \in BOOLEAN :
       /\ WriteEnds(r, applied, confirmed)
       /\ iterationRows' = IF applied
            THEN [iterationRows EXCEPT ![r] = @ \cup {iteration[r]}]
            ELSE iterationRows
       /\ IF ~confirmed
            THEN GoTo(r, "audit")
            ELSE Finish(r, IF stopping[r] THEN "ITERATION_REQUESTED"
                           ELSE "MAX_ITERATIONS")
  /\ UNCHANGED <<environment, local, cancelled, exit, inserted, runRows>>

\* recordLiveLoopIterationAudit, then the decision whether to go on.
RecordIteration(r) ==
  /\ pc[r] = "audit"
  /\ \E applied \in BOOLEAN, confirmed \in BOOLEAN :
       /\ WriteEnds(r, applied, confirmed)
       /\ iterationRows' = IF applied
            THEN [iterationRows EXCEPT ![r] = @ \cup {iteration[r]}]
            ELSE iterationRows
       /\ IF ~confirmed
            THEN Finish(r, "AUDIT_JOURNAL_ERROR") /\ UNCHANGED iteration
            ELSE GoOn(r)
  /\ UNCHANGED <<environment, startedAt, attempted, succeeded, deadline,
                 stopping, cancelled, exit, inserted, runRows>>

\* Fault: the exit code does not wait for the finish audit.
ExitCodeOfStop(r, confirmed) ==
  IF stop[r] \in Completing THEN "ok" ELSE "error"

\* The error of the run joined with that of its finish audit.
ExitCode(r, confirmed) ==
  IF stop[r] \in Completing /\ confirmed THEN "ok" ELSE "error"

\* finishBoundedLiveLoop updates the row with the context of the run.
RecordFinish(r) ==
  /\ pc[r] = "finish"
  /\ \E applied \in BOOLEAN, confirmed \in BOOLEAN :
       /\ WriteEnds(r, applied, confirmed)
       /\ IF applied
            THEN /\ status' = [status EXCEPT ![r] =
                      IF stop[r] \in Completing THEN "COMPLETED" ELSE "FAILED"]
                 /\ rowStop' = [rowStop EXCEPT ![r] = stop[r]]
                 /\ rowAttempted' = [rowAttempted EXCEPT ![r] = attempted[r]]
                 /\ rowSucceeded' = [rowSucceeded EXCEPT ![r] = succeeded[r]]
            ELSE UNCHANGED runRows
       /\ exit' = [exit EXCEPT ![r] = ExitCode(r, confirmed)]
  /\ GoTo(r, "returned")
  /\ UNCHANGED <<environment, local, cancelled, inserted, iterationRows>>

RunStep(r) ==
  \/ RecordStart(r) \/ Preflight(r) \/ TopOfLoop(r) \/ CheckKillSwitch(r)
  \/ Launch(r) \/ IterationSucceeds(r) \/ IterationFails(r)
  \/ RecordIteration(r) \/ RecordFinish(r)

Next ==
  \/ Tick \/ ToggleKillSwitch
  \/ \E r \in Runs : Begin(r) \/ RunStep(r) \/ Cancel(r) \/ Crash(r)

Spec == Init /\ [][Next]_vars

\* A running process keeps executing.
FairSpec == Spec /\ \A r \in Runs : WF_vars(RunStep(r))

-----------------------------------------------------------------------------
(* The audit review of live-loop-audit, live-readiness and the ops report.  *)

\* ORDER BY started_at DESC, id DESC LIMIT Limit
NewerRows(i) ==
  {j \in 1..Len(inserted) :
     \/ startedAt[inserted[j]] > startedAt[inserted[i]]
     \/ startedAt[inserted[j]] = startedAt[inserted[i]] /\ j > i}

RecentRuns ==
  {inserted[i] :
     i \in {i \in 1..Len(inserted) : Cardinality(NewerRows(i)) < Limit}}

\* Fault: the newest run alone decides.
ReviewOfNewest ==
  LET newest == {inserted[i] :
                   i \in {i \in 1..Len(inserted) : NewerRows(i) = {}}} IN
  IF \E r \in newest : status[r] = "RUNNING" THEN "BLOCKED"
  ELSE IF \E r \in newest : status[r] = "FAILED" THEN "REVIEW"
  ELSE "CLEAR"

\* SummarizeLiveLoopAuditReview
Review ==
  IF \E r \in RecentRuns : status[r] = "RUNNING" THEN "BLOCKED"
  ELSE IF \E r \in RecentRuns : status[r] = "FAILED" THEN "REVIEW"
  ELSE "CLEAR"

-----------------------------------------------------------------------------
(* Properties.                                                              *)

\* An iteration starts only on a recorded run whose earlier iterations are
\* all in the journal: losing an audit write stops the loop before anything
\* else can be submitted.
AuditedBeforeGoingOn ==
  \A r \in Runs : pc[r] \in {"top", "check", "launch", "iterating"} =>
    /\ status[r] = "RUNNING"
    /\ iterationRows[r] = 1..(iteration[r] - 1)
    /\ attempted[r] = iteration[r] - 1
    /\ succeeded[r] = attempted[r]

\* A finished row agrees with the iteration rows of the run: they are all
\* there when it completed, the failed iteration alone has none, and only an
\* iteration whose audit write was not confirmed is in doubt.
FinishedRowAgrees ==
  \A r \in Runs : status[r] \in {"COMPLETED", "FAILED"} =>
    /\ status[r] = "COMPLETED" <=> rowStop[r] \in Completing
    /\ rowAttempted[r] = rowSucceeded[r] +
         (IF rowStop[r] = "ITERATION_ERROR" THEN 1 ELSE 0)
    /\ 1..(rowSucceeded[r] - 1) \subseteq iterationRows[r]
    /\ iterationRows[r] \subseteq 1..rowSucceeded[r]
    /\ rowStop[r] # "AUDIT_JOURNAL_ERROR" =>
         iterationRows[r] = 1..rowSucceeded[r]

\* A command that exits without error left a COMPLETED row, at least one
\* iteration unless time ran out, and an audit row for each iteration.
SuccessIsDurable ==
  \A r \in Runs : exit[r] = "ok" =>
    /\ pc[r] = "returned"
    /\ status[r] = "COMPLETED"
    /\ iterationRows[r] = 1..attempted[r]
    /\ attempted[r] > 0 \/ rowStop[r] = "MAX_RUNTIME"

\* No iteration is given a deadline beyond the runtime of its loop, however
\* long the Kill Switch read before it took.
DeadlineWithinRuntime ==
  \A r \in Runs : pc[r] = "iterating" =>
    startedAt[r] < deadline[r] /\ deadline[r] <= RuntimeDeadline(r)

\* While the Kill Switch is active, the only iterations that start are those
\* whose check had already passed when it was activated.
KillSwitchHonoured ==
  [][killSwitch => \A r \in Runs :
       pc[r] # "iterating" /\ pc'[r] = "iterating" => r \in exposed]_vars

\* A CLEAR review overlooks an executing run only behind Limit newer ones.
ClearMeansIdle ==
  Review = "CLEAR" => \A i \in 1..Len(inserted) :
    pc[inserted[i]] \in Active => Cardinality(NewerRows(i)) >= Limit

\* Every loop returns: the bounds end it, though the clock may stand still.
EveryLoopReturns ==
  \A r \in Runs : pc[r] \in Active ~> pc[r] \in {"returned", "crashed"}

-----------------------------------------------------------------------------
(* Strengthening that makes the invariants above inductive.                 *)

\* The row of a run before its start, during it, and after its end.
RowFollowsRun ==
  \A r \in Runs :
    /\ pc[r] \in {"idle", "start"} =>
         status[r] = "NONE" /\ iterationRows[r] = {}
    /\ pc[r] \in Active \ {"start"} => status[r] = "RUNNING"
    /\ pc[r] \in Active \cup {"idle", "crashed"} => exit[r] = "none"
    /\ pc[r] \in {"idle", "start", "preflight"} =>
         attempted[r] = 0 /\ succeeded[r] = 0 /\ iteration[r] = 1
    /\ pc[r] = "preflight" => iterationRows[r] = {}

\* The iteration that waits for its audit row is the only one without.
AuditPending ==
  \A r \in Runs : pc[r] = "audit" =>
    /\ iterationRows[r] = 1..(iteration[r] - 1)
    /\ attempted[r] = iteration[r]
    /\ succeeded[r] = iteration[r]

\* What a stop reason says of the counters and the iteration rows.
Accounted(reason, tried, done, rows) ==
  /\ tried = done + (IF reason = "ITERATION_ERROR" THEN 1 ELSE 0)
  /\ IF reason = "AUDIT_JOURNAL_ERROR"
       THEN 1..(done - 1) \subseteq rows /\ rows \subseteq 1..done
       ELSE rows = 1..done
  /\ reason \in {"MAX_ITERATIONS", "ITERATION_REQUESTED"} => tried > 0

StopAccounted ==
  \A r \in Runs : pc[r] = "finish" =>
    Accounted(stop[r], attempted[r], succeeded[r], iterationRows[r])

RowAccounted ==
  \A r \in Runs : status[r] \in {"COMPLETED", "FAILED"} =>
    /\ pc[r] = "returned"
    /\ status[r] = "COMPLETED" <=> rowStop[r] \in Completing
    /\ rowAttempted[r] = attempted[r]
    /\ Accounted(rowStop[r], rowAttempted[r], rowSucceeded[r], iterationRows[r])

ExitAccounted ==
  \A r \in Runs :
    exit[r] = "ok" => pc[r] = "returned" /\ status[r] = "COMPLETED"

\* Every row belongs to a run that has got past its start.
RowsStarted ==
  \A i \in 1..Len(inserted) : pc[inserted[i]] \notin {"idle", "start"}

StartsInThePast == \A r \in Runs : startedAt[r] <= clock

\* While the Kill Switch is active, every run about to launch was exposed.
ExposedKnown ==
  killSwitch => \A r \in Runs : pc[r] = "launch" => r \in exposed

IInv ==
  /\ TypeOK
  /\ AuditedBeforeGoingOn
  /\ DeadlineWithinRuntime
  /\ StartsInThePast
  /\ RowFollowsRun
  /\ AuditPending
  /\ StopAccounted
  /\ RowAccounted
  /\ ExitAccounted
  /\ ExposedKnown
  /\ RowsStarted
=============================================================================
