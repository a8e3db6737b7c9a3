-------------------------- MODULE LiveLoop_proofs --------------------------
(***************************************************************************)
(* The bounded live loop keeps an audit that can be trusted, for any       *)
(* number of runs, any bounds and any failures of the journal.             *)
(*                                                                         *)
(* IInv is inductive; one lemma per conjunct shows that every step keeps   *)
(* it.  The properties of the module then follow from IInv state by state. *)
(* The last part bounds the work of a loop: a measure that every step of   *)
(* the loop lowers and nothing raises.                                     *)
(***************************************************************************)
EXTENDS LiveLoop, FiniteSetTheorems, TLAPS

\* TypeOK in the parts the proofs below use one at a time.
EnvironmentType ==
  /\ clock \in 0..MaxClock /\ killSwitch \in BOOLEAN
  /\ exposed \subseteq Runs /\ cancelled \subseteq Runs
  /\ startedAt \in [Runs -> Nat] /\ deadline \in [Runs -> Nat]
  /\ stopping \in [Runs -> BOOLEAN]

PlaceType == pc \in [Runs -> Places] /\ stop \in [Runs -> StopReasons]

CounterType ==
  /\ iteration \in [Runs -> 1..MaxIterations]
  /\ attempted \in [Runs -> 0..MaxIterations]
  /\ succeeded \in [Runs -> 0..MaxIterations]
  /\ iterationRows \in [Runs -> SUBSET (1..MaxIterations)]

RowType ==
  /\ exit \in [Runs -> {"none", "ok", "error"}]
  /\ inserted \in Seq(Runs)
  /\ status \in [Runs -> {"NONE", "RUNNING", "COMPLETED", "FAILED"}]
  /\ rowStop \in [Runs -> StopReasons]
  /\ rowAttempted \in [Runs -> 0..MaxIterations]
  /\ rowSucceeded \in [Runs -> 0..MaxIterations]

LEMMA TypeParts ==
  TypeOK <=> EnvironmentType /\ PlaceType /\ CounterType /\ RowType
BY DEF TypeOK, EnvironmentType, PlaceType, CounterType, RowType

LEMMA TypePartsNext ==
  EnvironmentType' /\ PlaceType' /\ CounterType' /\ RowType' => TypeOK'
BY DEF TypeOK, EnvironmentType, PlaceType, CounterType, RowType

\* The stop reasons the loop gives.
LEMMA StopReasonFacts ==
  {"", "MAX_ITERATIONS", "MAX_RUNTIME", "ITERATION_REQUESTED",
   "PREFLIGHT_FAILED", "SAFETY_CHECK_ERROR", "KILL_SWITCH_ACTIVE",
   "ITERATION_ERROR", "AUDIT_JOURNAL_ERROR"} \subseteq StopReasons
BY DEF StopReasons, Completing, Failing

LEMMA NoIteration == 1..0 = {}
OBVIOUS

\* When every iteration succeeded, the iteration rows run without a gap.
LEMMA AllRecorded ==
  ASSUME NEW n \in Nat, NEW tried, NEW done, NEW rows, NEW reason,
         tried = n, done = n, rows = 1..n, reason # "ITERATION_ERROR",
         reason \in {"MAX_ITERATIONS", "ITERATION_REQUESTED"} => n > 0
  PROVE  Accounted(reason, tried, done, rows)
<1>1. n - 1 \in Int /\ 1..(n - 1) \subseteq 1..n
  OBVIOUS
<1> QED
  BY <1>1 DEF Accounted

LEMMA AttemptsAreNat == CounterType => \A r \in Runs : attempted[r] \in Nat
BY RequestAssumption DEF CounterType

\* Between two iterations the journal holds all that was attempted.
LEMMA BetweenIterations ==
  ASSUME IInv, NEW r \in Runs, pc[r] \in {"top", "check", "launch"},
         NEW reason \in {"", "MAX_RUNTIME"}
  PROVE  Accounted(reason, attempted[r], succeeded[r], iterationRows[r])
<1>1. CounterType
  BY TypeParts DEF IInv
<1>2. attempted[r] \in Nat
  BY <1>1, AttemptsAreNat
<1>3. /\ succeeded[r] = attempted[r] /\ attempted[r] = iteration[r] - 1
      /\ iterationRows[r] = 1..(iteration[r] - 1)
  BY DEF IInv, AuditedBeforeGoingOn
<1> QED
  BY <1>2, <1>3, AllRecorded

\* Before the first iteration nothing was attempted.
LEMMA BeforeIterations ==
  ASSUME IInv, NEW r \in Runs, pc[r] = "preflight"
  PROVE  Accounted("PREFLIGHT_FAILED", attempted[r], succeeded[r], iterationRows[r])
<1>1. attempted[r] = 0 /\ succeeded[r] = 0 /\ iterationRows[r] = 1..0
  BY NoIteration DEF IInv, RowFollowsRun
<1> QED
  BY <1>1, AllRecorded

LEMMA OneMore == \A n \in Nat \ {0} : 1..(n - 1) \cup {n} = 1..n
OBVIOUS

\* What RecordIteration does to the run that takes it.
LEMMA IterationTurn ==
  ASSUME IInv, NEW r \in Runs, RecordIteration(r)
  PROVE  /\ pc[r] = "audit"
         /\ \/ pc' = [pc EXCEPT ![r] = "finish"]
               /\ stop' = [stop EXCEPT ![r] = "AUDIT_JOURNAL_ERROR"]
               /\ iteration' = iteration
               /\ \/ iterationRows' = iterationRows
                  \/ iterationRows' = [iterationRows EXCEPT ![r] = 1..iteration[r]]
            \/ pc' = [pc EXCEPT ![r] = "finish"]
               /\ \/ stop' = [stop EXCEPT ![r] = "ITERATION_REQUESTED"]
                  \/ stop' = [stop EXCEPT ![r] = "MAX_ITERATIONS"]
               /\ iteration' = iteration
               /\ iterationRows' = [iterationRows EXCEPT ![r] = 1..iteration[r]]
            \/ pc' = [pc EXCEPT ![r] = "top"]
               /\ stop' = stop
               /\ iteration[r] < MaxIterations
               /\ iteration' = [iteration EXCEPT ![r] = @ + 1]
               /\ iterationRows' = [iterationRows EXCEPT ![r] = 1..iteration[r]]
<1>0. PlaceType /\ CounterType /\ pc[r] = "audit"
  BY TypeParts DEF IInv, RecordIteration
<1>1. iterationRows[r] = 1..(iteration[r] - 1) /\ iteration[r] \in Nat \ {0}
  BY <1>0, RequestAssumption DEF IInv, AuditPending, CounterType
<1>2. iterationRows[r] \cup {iteration[r]} = 1..iteration[r]
  BY <1>1, OneMore
<1>3. iteration[r] # MaxIterations => iteration[r] < MaxIterations
  BY <1>0, RequestAssumption DEF CounterType
<1>4. PICK applied \in BOOLEAN, confirmed \in BOOLEAN :
        /\ confirmed => applied
        /\ iterationRows' = IF applied
             THEN [iterationRows EXCEPT ![r] = @ \cup {iteration[r]}]
             ELSE iterationRows
        /\ IF ~confirmed
             THEN Finish(r, "AUDIT_JOURNAL_ERROR") /\ UNCHANGED iteration
           ELSE IF stopping[r]
             THEN Finish(r, "ITERATION_REQUESTED") /\ UNCHANGED iteration
           ELSE IF iteration[r] = MaxIterations
             THEN Finish(r, "MAX_ITERATIONS") /\ UNCHANGED iteration
           ELSE GoTo(r, "top") /\ iteration' = [iteration EXCEPT ![r] = @ + 1]
  BY DEF RecordIteration, WriteEnds, GoOn
<1>5. iterationRows' = IF applied
        THEN [iterationRows EXCEPT ![r] = 1..iteration[r]] ELSE iterationRows
  BY <1>2, <1>4
<1> QED
  BY <1>0, <1>3, <1>4, <1>5 DEF Finish, GoTo

\* Every step keeps the types of clock, Kill Switch, contexts and deadlines.
LEMMA EnvironmentTypeStep == IInv /\ [Next]_vars => EnvironmentType'
<1> SUFFICES ASSUME IInv, [Next]_vars PROVE EnvironmentType'
  OBVIOUS
<1>0. EnvironmentType
  BY TypeParts DEF IInv
<1> USE <1>0 DEF IInv, TypeOK, EnvironmentType
<1>1. CASE UNCHANGED <<clock, killSwitch, exposed, cancelled, startedAt,
                   deadline, stopping>>
  BY <1>1
<1>2. CASE Tick
  BY <1>2, BoundsAssumption DEF Tick, environment, local, runRows
<1>3. CASE ToggleKillSwitch
  BY <1>3 DEF ToggleKillSwitch, environment, local, runRows
<1>4. ASSUME NEW r \in Runs, Cancel(r) PROVE EnvironmentType'
  BY <1>4 DEF Cancel, environment, local, runRows
<1>5. ASSUME NEW r \in Runs, Begin(r) PROVE EnvironmentType'
  BY <1>5 DEF Begin, GoTo, environment, local, runRows
<1>6. ASSUME NEW r \in Runs, Launch(r) PROVE EnvironmentType'
  <2>1. clock \in Nat /\ RuntimeDeadline(r) \in Nat /\ IterationTimeout \in Nat
    BY RequestAssumption, BoundsAssumption DEF RuntimeDeadline
  <2>2. DEFINE remaining == RuntimeDeadline(r) - clock
  <2>3. remaining > 0 => clock + BoundedIterationTimeout(remaining) \in Nat
    BY <2>1 DEF BoundedIterationTimeout
  <2>4. \/ deadline' = deadline
        \/ deadline' = [deadline EXCEPT ![r] =
             clock + BoundedIterationTimeout(remaining)] /\ remaining > 0
    <3>1. remaining \in Int
      BY <2>1
    <3> HIDE DEF remaining
    <3>2. IF remaining <= 0
         THEN Finish(r, "MAX_RUNTIME") /\ UNCHANGED deadline
         ELSE /\ deadline' = [deadline EXCEPT ![r] =
                   clock + BoundedIterationTimeout(remaining)]
              /\ GoTo(r, "iterating")
      BY <1>6 DEF Launch, remaining
    <3> QED
      BY <3>1, <3>2
  <2>5. deadline' \in [Runs -> Nat]
    BY <2>3, <2>4
  <2> QED
    BY <1>6, <2>5 DEF Launch, environment
<1>7. ASSUME NEW r \in Runs, IterationSucceeds(r) PROVE EnvironmentType'
  BY <1>7 DEF IterationSucceeds, GoTo, environment, local, runRows
<1> QED BY <1>1, <1>2, <1>3, <1>4, <1>5, <1>6, <1>7 DEF Next, RunStep, Crash,
           RecordStart, Preflight, TopOfLoop, CheckKillSwitch, IterationFails,
           RecordIteration, RecordFinish, Finish, GoTo, vars, environment,
           local, runRows

\* Every step keeps runs at known places with known stop reasons.
LEMMA PlaceTypeStep == IInv /\ [Next]_vars => PlaceType'
<1> SUFFICES ASSUME IInv, [Next]_vars PROVE PlaceType'
  OBVIOUS
<1>0. PlaceType
  BY TypeParts DEF IInv
<1> USE <1>0 DEF IInv, Places, Active, PlaceType
<1>1. CASE UNCHANGED <<pc, stop>>
  BY <1>1
<1>2. ASSUME NEW r \in Runs, Crash(r) PROVE PlaceType'
  BY <1>2 DEF Crash, environment, local, runRows
<1>3. ASSUME NEW r \in Runs, Begin(r) PROVE PlaceType'
  BY <1>3 DEF Begin, GoTo, environment, local, runRows
<1>4. ASSUME NEW r \in Runs, RecordStart(r) PROVE PlaceType'
  BY <1>4 DEF RecordStart, GoTo, WriteEnds, environment, local, runRows
<1>5. ASSUME NEW r \in Runs, Preflight(r) PROVE PlaceType'
  BY <1>5, StopReasonFacts DEF Preflight, GoTo, Finish, environment, local,
     runRows
<1>6. ASSUME NEW r \in Runs, TopOfLoop(r) PROVE PlaceType'
  BY <1>6, StopReasonFacts DEF TopOfLoop, GoTo, Finish, environment, local,
     runRows
<1>7. ASSUME NEW r \in Runs, CheckKillSwitch(r) PROVE PlaceType'
  BY <1>7, StopReasonFacts DEF CheckKillSwitch, GoTo, Finish, environment,
     local, runRows
<1>8. ASSUME NEW r \in Runs, Launch(r) PROVE PlaceType'
  BY <1>8, StopReasonFacts DEF Launch, GoTo, Finish, BoundedIterationTimeout,
     RuntimeDeadline, environment, local, runRows
<1>9. ASSUME NEW r \in Runs, IterationSucceeds(r) PROVE PlaceType'
  BY <1>9 DEF IterationSucceeds, GoTo, environment, local, runRows
<1>10. ASSUME NEW r \in Runs, IterationFails(r) PROVE PlaceType'
  BY <1>10, StopReasonFacts DEF IterationFails, Finish, environment, local,
     runRows
<1>11. ASSUME NEW r \in Runs, RecordIteration(r) PROVE PlaceType'
  BY <1>11, StopReasonFacts, IterationTurn, ZenonT(60)
<1>12. ASSUME NEW r \in Runs, RecordFinish(r) PROVE PlaceType'
  BY <1>12 DEF RecordFinish, GoTo, ExitCode, WriteEnds, environment, local,
     runRows
<1> QED BY <1>1, <1>2, <1>3, <1>4, <1>5, <1>6, <1>7, <1>8, <1>9, <1>10, <1>11,
           <1>12 DEF Next, RunStep, Tick, ToggleKillSwitch, Cancel, vars,
           environment, local, runRows

\* Every step keeps the counters of a run within its bounds.
LEMMA CounterTypeStep == IInv /\ [Next]_vars => CounterType'
<1> SUFFICES ASSUME IInv, [Next]_vars PROVE CounterType'
  OBVIOUS
<1>0. CounterType
  BY TypeParts DEF IInv
<1> USE <1>0, RequestAssumption DEF IInv, AuditedBeforeGoingOn, AuditPending,
      CounterType
<1>1. CASE UNCHANGED <<iteration, attempted, succeeded, iterationRows>>
  BY <1>1
<1>2. ASSUME NEW r \in Runs, IterationSucceeds(r) PROVE CounterType'
  BY <1>2 DEF IterationSucceeds, GoTo, environment, local, runRows
<1>3. ASSUME NEW r \in Runs, IterationFails(r) PROVE CounterType'
  BY <1>3 DEF IterationFails, Finish, environment, local, runRows
<1>4. ASSUME NEW r \in Runs, RecordIteration(r) PROVE CounterType'
  <2>1. attempted' = attempted /\ succeeded' = succeeded
    BY <1>4 DEF RecordIteration, local
  <2>2. iteration[r] \in 1..MaxIterations
    OBVIOUS
  <2>3. 1..iteration[r] \in SUBSET (1..MaxIterations)
    BY <2>2
  <2>4. iterationRows' \in [Runs -> SUBSET (1..MaxIterations)]
    BY <1>4, <2>3, IterationTurn DEF IInv
  <2>5. iteration[r] < MaxIterations => iteration[r] + 1 \in 1..MaxIterations
    BY <2>2
  <2>6. iteration' \in [Runs -> 1..MaxIterations]
    BY <1>4, <2>5, IterationTurn, ZenonT(60) DEF IInv
  <2> QED
    BY <2>1, <2>4, <2>6
<1> QED BY <1>1, <1>2, <1>3, <1>4 DEF Next, RunStep, Tick, ToggleKillSwitch,
           Cancel, Crash, Begin, RecordStart, Preflight, TopOfLoop,
           CheckKillSwitch, Launch, RecordFinish, Finish, GoTo, vars,
           environment, local, runRows

\* Every step keeps the types of the run rows.
LEMMA RowTypeStep == IInv /\ [Next]_vars => RowType'
<1> SUFFICES ASSUME IInv, [Next]_vars PROVE RowType'
  OBVIOUS
<1>0. RowType /\ PlaceType /\ CounterType
  BY TypeParts DEF IInv
<1> USE <1>0 DEF IInv, RowType, PlaceType, CounterType
<1>1. CASE UNCHANGED <<exit, inserted, status, rowStop, rowAttempted,
                   rowSucceeded>>
  BY <1>1
<1>2. ASSUME NEW r \in Runs, RecordStart(r) PROVE RowType'
  BY <1>2 DEF RecordStart, GoTo, WriteEnds, environment, local, runRows
<1>3. ASSUME NEW r \in Runs, RecordFinish(r) PROVE RowType'
  <2> DEFINE kind == IF stop[r] \in Completing THEN "COMPLETED" ELSE "FAILED"
  <2>1. stop[r] \in StopReasons /\ kind \in {"NONE", "RUNNING", "COMPLETED", "FAILED"}
    OBVIOUS
  <2> HIDE DEF kind
  <2>2. \/ UNCHANGED <<status, rowStop, rowAttempted, rowSucceeded>>
        \/ /\ status' = [status EXCEPT ![r] = kind]
           /\ rowStop' = [rowStop EXCEPT ![r] = stop[r]]
           /\ rowAttempted' = [rowAttempted EXCEPT ![r] = attempted[r]]
           /\ rowSucceeded' = [rowSucceeded EXCEPT ![r] = succeeded[r]]
    BY <1>3 DEF RecordFinish, runRows, kind
  <2>3. status' \in [Runs -> {"NONE", "RUNNING", "COMPLETED", "FAILED"}]
        /\ rowStop' \in [Runs -> StopReasons]
    BY <2>1, <2>2
  <2>4. rowAttempted' \in [Runs -> 0..MaxIterations]
        /\ rowSucceeded' \in [Runs -> 0..MaxIterations]
    BY <2>2, ZenonT(60)
  <2>5. inserted' = inserted
    BY <1>3 DEF RecordFinish
  <2>6. PICK code \in {"ok", "error"} : exit' = [exit EXCEPT ![r] = code]
    BY <1>3 DEF RecordFinish, ExitCode
  <2>7. exit' \in [Runs -> {"none", "ok", "error"}]
    BY <2>6
  <2> QED
    BY <2>3, <2>4, <2>5, <2>7
<1> QED BY <1>1, <1>2, <1>3 DEF Next, RunStep, Tick, ToggleKillSwitch, Cancel,
           Crash, Begin, Preflight, TopOfLoop, CheckKillSwitch, Launch,
           IterationSucceeds, IterationFails, RecordIteration, Finish, GoTo,
           vars, environment, local, runRows

\* No run reaches its next iteration before the last one is in the journal.
LEMMA AuditedBeforeGoingOnStep == IInv /\ [Next]_vars => AuditedBeforeGoingOn'
<1> SUFFICES ASSUME IInv, [Next]_vars PROVE AuditedBeforeGoingOn'
  OBVIOUS
<1>0. PlaceType /\ CounterType /\ RowType
  BY TypeParts DEF IInv
<1> USE <1>0 DEF IInv, AuditedBeforeGoingOn, RowFollowsRun, AuditPending,
      Active, PlaceType, CounterType, RowType
<1>1. CASE UNCHANGED <<pc, status, iterationRows, iteration, attempted,
                   succeeded>>
  BY <1>1
<1>2. ASSUME NEW r \in Runs, Crash(r) PROVE AuditedBeforeGoingOn'
  BY <1>2 DEF Crash, environment, local, runRows
<1>3. ASSUME NEW r \in Runs, Begin(r) PROVE AuditedBeforeGoingOn'
  BY <1>3 DEF Begin, GoTo, environment, local, runRows
<1>4. ASSUME NEW r \in Runs, RecordStart(r) PROVE AuditedBeforeGoingOn'
  BY <1>4 DEF RecordStart, GoTo, WriteEnds, environment, local, runRows
<1>5. ASSUME NEW r \in Runs, Preflight(r) PROVE AuditedBeforeGoingOn'
  <2>1. /\ pc[r] = "preflight"
        /\ pc' = [pc EXCEPT ![r] = "top"] \/ pc' = [pc EXCEPT ![r] = "finish"]
        /\ UNCHANGED <<status, iterationRows, iteration, attempted, succeeded>>
    BY <1>5 DEF Preflight, GoTo, Finish, local, runRows
  <2>0. status[r] = "RUNNING" /\ iterationRows[r] = {} /\ iteration[r] = 1
        /\ attempted[r] = 0 /\ succeeded[r] = 0
    BY <2>1
  <2>2. status[r] = "RUNNING" /\ iterationRows[r] = 1..(iteration[r] - 1)
        /\ attempted[r] = iteration[r] - 1 /\ succeeded[r] = attempted[r]
    BY <2>0, NoIteration
  <2> QED
    BY <2>1, <2>2
<1>6. ASSUME NEW r \in Runs, TopOfLoop(r) PROVE AuditedBeforeGoingOn'
  BY <1>6, ZenonT(60) DEF TopOfLoop, GoTo, Finish, environment, local, runRows
<1>7. ASSUME NEW r \in Runs, CheckKillSwitch(r) PROVE AuditedBeforeGoingOn'
  BY <1>7 DEF CheckKillSwitch, GoTo, Finish, environment, local, runRows
<1>8. ASSUME NEW r \in Runs, Launch(r) PROVE AuditedBeforeGoingOn'
  BY <1>8 DEF Launch, GoTo, Finish, BoundedIterationTimeout, RuntimeDeadline,
     environment, local, runRows
<1>9. ASSUME NEW r \in Runs, IterationSucceeds(r) PROVE AuditedBeforeGoingOn'
  BY <1>9 DEF IterationSucceeds, GoTo, environment, local, runRows
<1>10. ASSUME NEW r \in Runs, IterationFails(r) PROVE AuditedBeforeGoingOn'
  BY <1>10 DEF IterationFails, Finish, environment, local, runRows
<1>11. ASSUME NEW r \in Runs, RecordIteration(r) PROVE AuditedBeforeGoingOn'
  <2>1. UNCHANGED <<attempted, succeeded, status>>
    BY <1>11 DEF RecordIteration, local, runRows
  <2>2. pc[r] = "audit" /\ status[r] = "RUNNING" /\ attempted[r] = iteration[r]
        /\ succeeded[r] = iteration[r] /\ iteration[r] \in Nat
    BY <1>11, IterationTurn, RequestAssumption
  <2>3. (iteration[r] + 1) - 1 = iteration[r]
    BY <2>2
  <2>4. \/ /\ pc' = [pc EXCEPT ![r] = "finish"] /\ iteration' = iteration
           /\ \A q \in Runs \ {r} : iterationRows'[q] = iterationRows[q]
        \/ /\ pc' = [pc EXCEPT ![r] = "top"]
           /\ iteration' = [iteration EXCEPT ![r] = @ + 1]
           /\ iterationRows' = [iterationRows EXCEPT ![r] = 1..iteration[r]]
    BY <1>11, IterationTurn
  <2> QED
    BY <2>1, <2>2, <2>3, <2>4
<1>12. ASSUME NEW r \in Runs, RecordFinish(r) PROVE AuditedBeforeGoingOn'
  BY <1>12 DEF RecordFinish, GoTo, ExitCode, WriteEnds, environment, local,
     runRows
<1> QED BY <1>1, <1>2, <1>3, <1>4, <1>5, <1>6, <1>7, <1>8, <1>9, <1>10, <1>11,
           <1>12 DEF Next, RunStep, Tick, ToggleKillSwitch, Cancel, vars,
           environment, local, runRows

\* An iteration's deadline lies within the runtime of its loop.
LEMMA DeadlineWithinRuntimeStep == IInv /\ [Next]_vars => DeadlineWithinRuntime'
<1> SUFFICES ASSUME IInv, [Next]_vars PROVE DeadlineWithinRuntime'
  OBVIOUS
<1>0. PlaceType /\ EnvironmentType
  BY TypeParts DEF IInv
<1> USE <1>0, RequestAssumption DEF IInv, DeadlineWithinRuntime,
      StartsInThePast, RuntimeDeadline, PlaceType, EnvironmentType
<1>1. CASE UNCHANGED <<pc, startedAt, deadline, clock>>
  BY <1>1
<1>2. CASE Tick
  BY <1>2 DEF Tick, environment, local, runRows
<1>3. ASSUME NEW r \in Runs, Crash(r) PROVE DeadlineWithinRuntime'
  BY <1>3 DEF Crash, environment, local, runRows
<1>4. ASSUME NEW r \in Runs, Begin(r) PROVE DeadlineWithinRuntime'
  BY <1>4 DEF Begin, GoTo, environment, local, runRows
<1>5. ASSUME NEW r \in Runs, RecordStart(r) PROVE DeadlineWithinRuntime'
  BY <1>5 DEF RecordStart, GoTo, WriteEnds, environment, local, runRows
<1>6. ASSUME NEW r \in Runs, Preflight(r) PROVE DeadlineWithinRuntime'
  BY <1>6 DEF Preflight, GoTo, Finish, environment, local, runRows
<1>7. ASSUME NEW r \in Runs, TopOfLoop(r) PROVE DeadlineWithinRuntime'
  BY <1>7 DEF TopOfLoop, GoTo, Finish, environment, local, runRows
<1>8. ASSUME NEW r \in Runs, CheckKillSwitch(r) PROVE DeadlineWithinRuntime'
  BY <1>8 DEF CheckKillSwitch, GoTo, Finish, environment, local, runRows
<1>9. ASSUME NEW r \in Runs, Launch(r) PROVE DeadlineWithinRuntime'
  <2>1. clock \in Nat /\ startedAt[r] \in Nat /\ MaxRuntime \in Nat \ {0}
        /\ IterationTimeout \in 1..MaxRuntime
    BY BoundsAssumption
  <2>2. /\ UNCHANGED startedAt /\ pc[r] = "launch"
        /\ \/ pc' = [pc EXCEPT ![r] = "finish"] /\ deadline' = deadline
           \/ /\ RuntimeDeadline(r) - clock > 0
              /\ pc' = [pc EXCEPT ![r] = "iterating"]
              /\ deadline' = [deadline EXCEPT ![r] =
                   clock + BoundedIterationTimeout(RuntimeDeadline(r) - clock)]
    BY <1>9, <2>1 DEF Launch, GoTo, Finish, RuntimeDeadline
  <2>3. startedAt[r] <= clock
    BY DEF StartsInThePast
  <2>4. DEFINE given == clock + BoundedIterationTimeout(RuntimeDeadline(r) - clock)
  <2>5. RuntimeDeadline(r) - clock > 0 => startedAt[r] < given /\ given <= RuntimeDeadline(r)
    BY <2>1, <2>3 DEF BoundedIterationTimeout, RuntimeDeadline
  <2> HIDE DEF given
  <2> QED
    BY <2>2, <2>5 DEF given, RuntimeDeadline
<1>10. ASSUME NEW r \in Runs, IterationSucceeds(r) PROVE DeadlineWithinRuntime'
  BY <1>10 DEF IterationSucceeds, GoTo, environment, local, runRows
<1>11. ASSUME NEW r \in Runs, IterationFails(r) PROVE DeadlineWithinRuntime'
  BY <1>11 DEF IterationFails, Finish, environment, local, runRows
<1>12. ASSUME NEW r \in Runs, RecordIteration(r) PROVE DeadlineWithinRuntime'
  BY <1>12 DEF RecordIteration, GoOn, GoTo, Finish, WriteEnds, environment,
     local, runRows
<1>13. ASSUME NEW r \in Runs, RecordFinish(r) PROVE DeadlineWithinRuntime'
  BY <1>13 DEF RecordFinish, GoTo, ExitCode, WriteEnds, environment, local,
     runRows
<1> QED BY <1>1, <1>2, <1>3, <1>4, <1>5, <1>6, <1>7, <1>8, <1>9, <1>10, <1>11,
           <1>12, <1>13 DEF Next, RunStep, ToggleKillSwitch, Cancel, vars,
           environment, local, runRows

\* No run has started later than now.
LEMMA StartsInThePastStep == IInv /\ [Next]_vars => StartsInThePast'
<1> SUFFICES ASSUME IInv, [Next]_vars PROVE StartsInThePast'
  OBVIOUS
<1>0. EnvironmentType
  BY TypeParts DEF IInv
<1> USE <1>0 DEF IInv, StartsInThePast, EnvironmentType
<1>1. CASE UNCHANGED <<clock, startedAt>>
  BY <1>1
<1>2. CASE Tick
  BY <1>2 DEF Tick, environment, local, runRows
<1>3. ASSUME NEW r \in Runs, Begin(r) PROVE StartsInThePast'
  BY <1>3 DEF Begin, GoTo, environment, local, runRows
<1> QED BY <1>1, <1>2, <1>3 DEF Next, RunStep, ToggleKillSwitch, Cancel, Crash,
           RecordStart, Preflight, TopOfLoop, CheckKillSwitch, Launch,
           IterationSucceeds, IterationFails, RecordIteration, RecordFinish,
           Finish, GoTo, vars, environment, local, runRows

\* The row of a run is RUNNING from its start audit to its finish audit.
LEMMA RowFollowsRunStep == IInv /\ [Next]_vars => RowFollowsRun'
<1> SUFFICES ASSUME IInv, [Next]_vars PROVE RowFollowsRun'
  OBVIOUS
<1>0. PlaceType /\ CounterType /\ RowType
  BY TypeParts DEF IInv
<1> USE <1>0 DEF IInv, RowFollowsRun, Active, PlaceType, CounterType, RowType
<1>1. CASE UNCHANGED <<pc, status, iterationRows, exit, attempted, succeeded,
                   iteration>>
  BY <1>1
<1>2. ASSUME NEW r \in Runs, Crash(r) PROVE RowFollowsRun'
  BY <1>2 DEF Crash, environment, local, runRows
<1>3. ASSUME NEW r \in Runs, Begin(r) PROVE RowFollowsRun'
  BY <1>3 DEF Begin, GoTo, environment, local, runRows
<1>4. ASSUME NEW r \in Runs, RecordStart(r) PROVE RowFollowsRun'
  BY <1>4 DEF RecordStart, GoTo, WriteEnds, environment, local, runRows
<1>5. ASSUME NEW r \in Runs, Preflight(r) PROVE RowFollowsRun'
  BY <1>5 DEF Preflight, GoTo, Finish, environment, local, runRows
<1>6. ASSUME NEW r \in Runs, TopOfLoop(r) PROVE RowFollowsRun'
  <2>1. /\ pc[r] = "top"
        /\ \/ pc' = [pc EXCEPT ![r] = "finish"]
           \/ pc' = [pc EXCEPT ![r] = "check"]
        /\ UNCHANGED <<status, iterationRows, exit, attempted, succeeded,
                      iteration>>
    BY <1>6, Zenon DEF TopOfLoop, GoTo, Finish, local, runRows
  <2> QED BY <2>1, SMTT(60)
<1>7. ASSUME NEW r \in Runs, CheckKillSwitch(r) PROVE RowFollowsRun'
  BY <1>7 DEF CheckKillSwitch, GoTo, Finish, environment, local, runRows
<1>8. ASSUME NEW r \in Runs, Launch(r) PROVE RowFollowsRun'
  BY <1>8 DEF Launch, GoTo, Finish, BoundedIterationTimeout, RuntimeDeadline,
     environment, local, runRows
<1>9. ASSUME NEW r \in Runs, IterationSucceeds(r) PROVE RowFollowsRun'
  BY <1>9 DEF IterationSucceeds, GoTo, environment, local, runRows
<1>10. ASSUME NEW r \in Runs, IterationFails(r) PROVE RowFollowsRun'
  BY <1>10 DEF IterationFails, Finish, environment, local, runRows
<1>11. ASSUME NEW r \in Runs, RecordIteration(r) PROVE RowFollowsRun'
  BY <1>11, SMTT(60) DEF RecordIteration, GoOn, GoTo, Finish, WriteEnds, environment,
     local, runRows
<1>12. ASSUME NEW r \in Runs, RecordFinish(r) PROVE RowFollowsRun'
  BY <1>12 DEF RecordFinish, GoTo, ExitCode, WriteEnds, environment, local,
     runRows
<1> QED BY <1>1, <1>2, <1>3, <1>4, <1>5, <1>6, <1>7, <1>8, <1>9, <1>10, <1>11,
           <1>12 DEF Next, RunStep, Tick, ToggleKillSwitch, Cancel, vars,
           environment, local, runRows

\* A run about to write an iteration row lacks that row alone.
LEMMA AuditPendingStep == IInv /\ [Next]_vars => AuditPending'
<1> SUFFICES ASSUME IInv, [Next]_vars PROVE AuditPending'
  OBVIOUS
<1>0. PlaceType /\ CounterType
  BY TypeParts DEF IInv
<1> USE <1>0 DEF IInv, AuditedBeforeGoingOn, AuditPending, PlaceType,
      CounterType
<1>1. CASE UNCHANGED <<pc, iterationRows, iteration, attempted, succeeded>>
  BY <1>1
<1>2. ASSUME NEW r \in Runs, Crash(r) PROVE AuditPending'
  BY <1>2 DEF Crash, environment, local, runRows
<1>3. ASSUME NEW r \in Runs, Begin(r) PROVE AuditPending'
  BY <1>3 DEF Begin, GoTo, environment, local, runRows
<1>4. ASSUME NEW r \in Runs, RecordStart(r) PROVE AuditPending'
  BY <1>4 DEF RecordStart, GoTo, WriteEnds, environment, local, runRows
<1>5. ASSUME NEW r \in Runs, Preflight(r) PROVE AuditPending'
  BY <1>5 DEF Preflight, GoTo, Finish, environment, local, runRows
<1>6. ASSUME NEW r \in Runs, TopOfLoop(r) PROVE AuditPending'
  BY <1>6 DEF TopOfLoop, GoTo, Finish, environment, local, runRows
<1>7. ASSUME NEW r \in Runs, CheckKillSwitch(r) PROVE AuditPending'
  BY <1>7 DEF CheckKillSwitch, GoTo, Finish, environment, local, runRows
<1>8. ASSUME NEW r \in Runs, Launch(r) PROVE AuditPending'
  BY <1>8 DEF Launch, GoTo, Finish, BoundedIterationTimeout, RuntimeDeadline,
     environment, local, runRows
<1>9. ASSUME NEW r \in Runs, IterationSucceeds(r) PROVE AuditPending'
  BY <1>9 DEF IterationSucceeds, GoTo, environment, local, runRows
<1>10. ASSUME NEW r \in Runs, IterationFails(r) PROVE AuditPending'
  BY <1>10 DEF IterationFails, Finish, environment, local, runRows
<1>11. ASSUME NEW r \in Runs, RecordIteration(r) PROVE AuditPending'
  BY <1>11 DEF RecordIteration, GoOn, GoTo, Finish, WriteEnds, environment,
     local, runRows
<1>12. ASSUME NEW r \in Runs, RecordFinish(r) PROVE AuditPending'
  BY <1>12 DEF RecordFinish, GoTo, ExitCode, WriteEnds, environment, local,
     runRows
<1> QED BY <1>1, <1>2, <1>3, <1>4, <1>5, <1>6, <1>7, <1>8, <1>9, <1>10, <1>11,
           <1>12 DEF Next, RunStep, Tick, ToggleKillSwitch, Cancel, vars,
           environment, local, runRows

\* A run about to write its finish audit has counters that its iteration rows
\* bear out.
LEMMA StopAccountedStep == IInv /\ [Next]_vars => StopAccounted'
<1> SUFFICES ASSUME IInv, [Next]_vars PROVE StopAccounted'
  OBVIOUS
<1>0. PlaceType /\ CounterType
  BY TypeParts DEF IInv
<1> USE <1>0 DEF IInv, AuditedBeforeGoingOn, AuditPending, RowFollowsRun,
      StopAccounted, Accounted, PlaceType, CounterType
<1>1. CASE UNCHANGED <<pc, stop, attempted, succeeded, iterationRows>>
  BY <1>1
<1>2. ASSUME NEW r \in Runs, Crash(r) PROVE StopAccounted'
  BY <1>2 DEF Crash, environment, local, runRows
<1>3. ASSUME NEW r \in Runs, Begin(r) PROVE StopAccounted'
  BY <1>3 DEF Begin, GoTo, environment, local, runRows
<1>4. ASSUME NEW r \in Runs, RecordStart(r) PROVE StopAccounted'
  BY <1>4 DEF RecordStart, GoTo, WriteEnds, environment, local, runRows
<1>5. ASSUME NEW r \in Runs, Preflight(r) PROVE StopAccounted'
  <2>1. /\ UNCHANGED <<attempted, succeeded, iterationRows>>
        /\ pc[r] = "preflight"
        /\ \/ pc' = [pc EXCEPT ![r] = "top"] /\ stop' = stop
           \/ /\ pc' = [pc EXCEPT ![r] = "finish"]
              /\ stop' = [stop EXCEPT ![r] = "PREFLIGHT_FAILED"]
    BY <1>5 DEF Preflight, GoTo, Finish, local
  <2>2. pc[r] = "preflight" => Accounted("PREFLIGHT_FAILED",
          attempted[r], succeeded[r], iterationRows[r])
    BY BeforeIterations
  <2> HIDE DEF Accounted, IInv, AuditedBeforeGoingOn, AuditPending, RowFollowsRun
  <2>3. StopAccounted
    BY DEF IInv
  <2> QED
    BY <2>1, <2>2, <2>3
<1>6. ASSUME NEW r \in Runs, TopOfLoop(r) PROVE StopAccounted'
  <2>1. /\ UNCHANGED <<attempted, succeeded, iterationRows>>
        /\ pc[r] = "top"
        /\ \/ pc' = [pc EXCEPT ![r] = "check"] /\ stop' = stop
           \/ /\ pc' = [pc EXCEPT ![r] = "finish"]
              /\ stop' = [stop EXCEPT ![r] = ""]
           \/ /\ pc' = [pc EXCEPT ![r] = "finish"]
              /\ stop' = [stop EXCEPT ![r] = "MAX_RUNTIME"]
    BY <1>6 DEF TopOfLoop, GoTo, Finish, local
  <2>2. \A reason \in {"", "MAX_RUNTIME"} :
          Accounted(reason, attempted[r], succeeded[r], iterationRows[r])
    BY <2>1, BetweenIterations
  <2> HIDE DEF Accounted, IInv, AuditedBeforeGoingOn, AuditPending, RowFollowsRun
  <2>3. StopAccounted
    BY DEF IInv
  <2> QED
    BY <2>1, <2>2, <2>3
<1>7. ASSUME NEW r \in Runs, CheckKillSwitch(r) PROVE StopAccounted'
  BY <1>7 DEF CheckKillSwitch, GoTo, Finish, environment, local, runRows
<1>8. ASSUME NEW r \in Runs, Launch(r) PROVE StopAccounted'
  <2>1. /\ UNCHANGED <<attempted, succeeded, iterationRows>>
        /\ pc[r] = "launch"
        /\ \/ pc' = [pc EXCEPT ![r] = "iterating"] /\ stop' = stop
           \/ /\ pc' = [pc EXCEPT ![r] = "finish"]
              /\ stop' = [stop EXCEPT ![r] = "MAX_RUNTIME"]
    BY <1>8 DEF Launch, GoTo, Finish, local
  <2>2. \A reason \in {"", "MAX_RUNTIME"} :
          Accounted(reason, attempted[r], succeeded[r], iterationRows[r])
    BY <2>1, BetweenIterations
  <2> HIDE DEF Accounted, IInv, AuditedBeforeGoingOn, AuditPending, RowFollowsRun
  <2>3. StopAccounted
    BY DEF IInv
  <2> QED
    BY <2>1, <2>2, <2>3
<1>9. ASSUME NEW r \in Runs, IterationSucceeds(r) PROVE StopAccounted'
  BY <1>9 DEF IterationSucceeds, GoTo, environment, local, runRows
<1>10. ASSUME NEW r \in Runs, IterationFails(r) PROVE StopAccounted'
  BY <1>10 DEF IterationFails, Finish, environment, local, runRows
<1>11. ASSUME NEW r \in Runs, RecordIteration(r) PROVE StopAccounted'
  <2>1. UNCHANGED <<attempted, succeeded>>
    BY <1>11 DEF RecordIteration, local
  <2>2. pc[r] = "audit" /\ attempted[r] = iteration[r] /\ succeeded[r] = iteration[r]
        /\ iterationRows[r] = 1..(iteration[r] - 1) /\ iteration[r] \in Nat \ {0}
    BY <1>11, IterationTurn, RequestAssumption
  <2>3. 1..(iteration[r] - 1) \subseteq 1..iteration[r]
    BY <2>2
  <2>4. Accounted("AUDIT_JOURNAL_ERROR", iteration[r], iteration[r],
                  1..(iteration[r] - 1))
        /\ \A reason \in {"AUDIT_JOURNAL_ERROR", "ITERATION_REQUESTED", "MAX_ITERATIONS"} :
             Accounted(reason, iteration[r], iteration[r], 1..iteration[r])
    BY <2>2, <2>3
  <2>5. \/ pc' = [pc EXCEPT ![r] = "top"] /\ stop' = stop
           /\ \A q \in Runs \ {r} : iterationRows'[q] = iterationRows[q]
        \/ /\ pc' = [pc EXCEPT ![r] = "finish"]
           /\ \/ stop' = [stop EXCEPT ![r] = "AUDIT_JOURNAL_ERROR"]
                 /\ iterationRows' = iterationRows
              \/ /\ iterationRows' = [iterationRows EXCEPT ![r] = 1..iteration[r]]
                 /\ \E reason \in {"AUDIT_JOURNAL_ERROR", "ITERATION_REQUESTED", "MAX_ITERATIONS"} :
                      stop' = [stop EXCEPT ![r] = reason]
    BY <1>11, IterationTurn
  <2>6. StopAccounted
    BY DEF IInv
  <2> HIDE DEF Accounted, IInv, AuditedBeforeGoingOn, AuditPending, RowFollowsRun
  <2> QED
    BY <2>1, <2>2, <2>4, <2>5, <2>6, ZenonT(60)
<1>12. ASSUME NEW r \in Runs, RecordFinish(r) PROVE StopAccounted'
  BY <1>12 DEF RecordFinish, GoTo, ExitCode, WriteEnds, environment, local,
     runRows
<1> QED BY <1>1, <1>2, <1>3, <1>4, <1>5, <1>6, <1>7, <1>8, <1>9, <1>10, <1>11,
           <1>12 DEF Next, RunStep, Tick, ToggleKillSwitch, Cancel, vars,
           environment, local, runRows

\* A finished row keeps what the run counted, and is never written again.
LEMMA RowAccountedStep == IInv /\ [Next]_vars => RowAccounted'
<1> SUFFICES ASSUME IInv, [Next]_vars PROVE RowAccounted'
  OBVIOUS
<1>0. PlaceType /\ CounterType /\ RowType
  BY TypeParts DEF IInv
<1> USE <1>0 DEF IInv, RowFollowsRun, StopAccounted, RowAccounted, Active,
      PlaceType, CounterType, RowType
<1>1. CASE UNCHANGED <<status, pc, rowStop, rowAttempted, attempted,
                   rowSucceeded, iterationRows>>
  BY <1>1
<1>2. ASSUME NEW r \in Runs, Crash(r) PROVE RowAccounted'
  BY <1>2 DEF Crash, environment, local, runRows
<1>3. ASSUME NEW r \in Runs, Begin(r) PROVE RowAccounted'
  BY <1>3 DEF Begin, GoTo, environment, local, runRows
<1>4. ASSUME NEW r \in Runs, RecordStart(r) PROVE RowAccounted'
  BY <1>4 DEF RecordStart, GoTo, WriteEnds, environment, local, runRows
<1>5. ASSUME NEW r \in Runs, Preflight(r) PROVE RowAccounted'
  BY <1>5 DEF Preflight, GoTo, Finish, environment, local, runRows
<1>6. ASSUME NEW r \in Runs, TopOfLoop(r) PROVE RowAccounted'
  BY <1>6, ZenonT(60) DEF TopOfLoop, GoTo, Finish, environment, local, runRows
<1>7. ASSUME NEW r \in Runs, CheckKillSwitch(r) PROVE RowAccounted'
  BY <1>7 DEF CheckKillSwitch, GoTo, Finish, environment, local, runRows
<1>8. ASSUME NEW r \in Runs, Launch(r) PROVE RowAccounted'
  BY <1>8 DEF Launch, GoTo, Finish, BoundedIterationTimeout, RuntimeDeadline,
     environment, local, runRows
<1>9. ASSUME NEW r \in Runs, IterationSucceeds(r) PROVE RowAccounted'
  BY <1>9 DEF IterationSucceeds, GoTo, environment, local, runRows
<1>10. ASSUME NEW r \in Runs, IterationFails(r) PROVE RowAccounted'
  BY <1>10 DEF IterationFails, Finish, environment, local, runRows
<1>11. ASSUME NEW r \in Runs, RecordIteration(r) PROVE RowAccounted'
  BY <1>11 DEF RecordIteration, GoOn, GoTo, Finish, WriteEnds, environment,
     local, runRows
<1>12. ASSUME NEW r \in Runs, RecordFinish(r) PROVE RowAccounted'
  BY <1>12 DEF RecordFinish, GoTo, ExitCode, WriteEnds, environment, local,
     runRows
<1> QED BY <1>1, <1>2, <1>3, <1>4, <1>5, <1>6, <1>7, <1>8, <1>9, <1>10, <1>11,
           <1>12 DEF Next, RunStep, Tick, ToggleKillSwitch, Cancel, vars,
           environment, local, runRows

\* No run exits without error unless its finish audit was confirmed.
LEMMA ExitAccountedStep == IInv /\ [Next]_vars => ExitAccounted'
<1> SUFFICES ASSUME IInv, [Next]_vars PROVE ExitAccounted'
  OBVIOUS
<1>0. PlaceType /\ RowType
  BY TypeParts DEF IInv
<1> USE <1>0 DEF IInv, RowFollowsRun, ExitAccounted, Active, PlaceType, RowType
<1>1. CASE UNCHANGED <<exit, pc, status>>
  BY <1>1
<1>2. ASSUME NEW r \in Runs, Crash(r) PROVE ExitAccounted'
  BY <1>2 DEF Crash, environment, local, runRows
<1>3. ASSUME NEW r \in Runs, Begin(r) PROVE ExitAccounted'
  BY <1>3 DEF Begin, GoTo, environment, local, runRows
<1>4. ASSUME NEW r \in Runs, RecordStart(r) PROVE ExitAccounted'
  BY <1>4 DEF RecordStart, GoTo, WriteEnds, environment, local, runRows
<1>5. ASSUME NEW r \in Runs, Preflight(r) PROVE ExitAccounted'
  BY <1>5 DEF Preflight, GoTo, Finish, environment, local, runRows
<1>6. ASSUME NEW r \in Runs, TopOfLoop(r) PROVE ExitAccounted'
  BY <1>6, ZenonT(60) DEF TopOfLoop, GoTo, Finish, environment, local, runRows
<1>7. ASSUME NEW r \in Runs, CheckKillSwitch(r) PROVE ExitAccounted'
  BY <1>7 DEF CheckKillSwitch, GoTo, Finish, environment, local, runRows
<1>8. ASSUME NEW r \in Runs, Launch(r) PROVE ExitAccounted'
  BY <1>8 DEF Launch, GoTo, Finish, BoundedIterationTimeout, RuntimeDeadline,
     environment, local, runRows
<1>9. ASSUME NEW r \in Runs, IterationSucceeds(r) PROVE ExitAccounted'
  BY <1>9 DEF IterationSucceeds, GoTo, environment, local, runRows
<1>10. ASSUME NEW r \in Runs, IterationFails(r) PROVE ExitAccounted'
  BY <1>10 DEF IterationFails, Finish, environment, local, runRows
<1>11. ASSUME NEW r \in Runs, RecordIteration(r) PROVE ExitAccounted'
  BY <1>11 DEF RecordIteration, GoOn, GoTo, Finish, WriteEnds, environment,
     local, runRows
<1>12. ASSUME NEW r \in Runs, RecordFinish(r) PROVE ExitAccounted'
  BY <1>12 DEF RecordFinish, GoTo, ExitCode, WriteEnds, environment, local,
     runRows
<1> QED BY <1>1, <1>2, <1>3, <1>4, <1>5, <1>6, <1>7, <1>8, <1>9, <1>10, <1>11,
           <1>12 DEF Next, RunStep, Tick, ToggleKillSwitch, Cancel, vars,
           environment, local, runRows

\* A row is written by a run that goes past its start.
LEMMA RowsStartedStep == IInv /\ [Next]_vars => RowsStarted'
<1> SUFFICES ASSUME IInv, [Next]_vars PROVE RowsStarted'
  OBVIOUS
<1>0. PlaceType /\ RowType
  BY TypeParts DEF IInv
<1> USE <1>0 DEF IInv, RowsStarted, Active, PlaceType, RowType
<1>1. CASE UNCHANGED <<inserted, pc>>
  BY <1>1
<1>2. ASSUME NEW r \in Runs, Crash(r) PROVE RowsStarted'
  BY <1>2 DEF Crash, environment, local, runRows
<1>3. ASSUME NEW r \in Runs, Begin(r) PROVE RowsStarted'
  BY <1>3 DEF Begin, GoTo, environment, local, runRows
<1>4. ASSUME NEW r \in Runs, RecordStart(r) PROVE RowsStarted'
  BY <1>4 DEF RecordStart, GoTo, WriteEnds, environment, local, runRows
<1>5. ASSUME NEW r \in Runs, Preflight(r) PROVE RowsStarted'
  BY <1>5 DEF Preflight, GoTo, Finish, environment, local, runRows
<1>6. ASSUME NEW r \in Runs, TopOfLoop(r) PROVE RowsStarted'
  <2>1. pc' = [pc EXCEPT ![r] = "check"] \/ pc' = [pc EXCEPT ![r] = "finish"]
    BY <1>6 DEF TopOfLoop, GoTo, Finish
  <2>2. inserted' = inserted
    BY <1>6 DEF TopOfLoop
  <2> QED
    BY <2>1, <2>2
<1>7. ASSUME NEW r \in Runs, CheckKillSwitch(r) PROVE RowsStarted'
  BY <1>7 DEF CheckKillSwitch, GoTo, Finish, environment, local, runRows
<1>8. ASSUME NEW r \in Runs, Launch(r) PROVE RowsStarted'
  BY <1>8 DEF Launch, GoTo, Finish, BoundedIterationTimeout, RuntimeDeadline,
     environment, local, runRows
<1>9. ASSUME NEW r \in Runs, IterationSucceeds(r) PROVE RowsStarted'
  BY <1>9 DEF IterationSucceeds, GoTo, environment, local, runRows
<1>10. ASSUME NEW r \in Runs, IterationFails(r) PROVE RowsStarted'
  BY <1>10 DEF IterationFails, Finish, environment, local, runRows
<1>11. ASSUME NEW r \in Runs, RecordIteration(r) PROVE RowsStarted'
  BY <1>11 DEF RecordIteration, GoOn, GoTo, Finish, WriteEnds, environment,
     local, runRows
<1>12. ASSUME NEW r \in Runs, RecordFinish(r) PROVE RowsStarted'
  BY <1>12 DEF RecordFinish, GoTo, ExitCode, WriteEnds, environment, local,
     runRows
<1> QED BY <1>1, <1>2, <1>3, <1>4, <1>5, <1>6, <1>7, <1>8, <1>9, <1>10, <1>11,
           <1>12 DEF Next, RunStep, Tick, ToggleKillSwitch, Cancel, vars,
           environment, local, runRows

\* No run passes the Kill Switch check while the Kill Switch is active.
LEMMA ExposedKnownStep == IInv /\ [Next]_vars => ExposedKnown'
<1> SUFFICES ASSUME IInv, [Next]_vars PROVE ExposedKnown'
  OBVIOUS
<1>0. PlaceType /\ EnvironmentType
  BY TypeParts DEF IInv
<1> USE <1>0 DEF IInv, ExposedKnown, PlaceType, EnvironmentType
<1>1. CASE UNCHANGED <<killSwitch, pc, exposed>>
  BY <1>1
<1>2. CASE ToggleKillSwitch
  BY <1>2 DEF ToggleKillSwitch, environment, local, runRows
<1>3. ASSUME NEW r \in Runs, Crash(r) PROVE ExposedKnown'
  BY <1>3 DEF Crash, environment, local, runRows
<1>4. ASSUME NEW r \in Runs, Begin(r) PROVE ExposedKnown'
  BY <1>4 DEF Begin, GoTo, environment, local, runRows
<1>5. ASSUME NEW r \in Runs, RecordStart(r) PROVE ExposedKnown'
  BY <1>5 DEF RecordStart, GoTo, WriteEnds, environment, local, runRows
<1>6. ASSUME NEW r \in Runs, Preflight(r) PROVE ExposedKnown'
  BY <1>6 DEF Preflight, GoTo, Finish, environment, local, runRows
<1>7. ASSUME NEW r \in Runs, TopOfLoop(r) PROVE ExposedKnown'
  BY <1>7 DEF TopOfLoop, GoTo, Finish, environment, local, runRows
<1>8. ASSUME NEW r \in Runs, CheckKillSwitch(r) PROVE ExposedKnown'
  BY <1>8 DEF CheckKillSwitch, GoTo, Finish, environment, local, runRows
<1>9. ASSUME NEW r \in Runs, Launch(r) PROVE ExposedKnown'
  BY <1>9 DEF Launch, GoTo, Finish, BoundedIterationTimeout, RuntimeDeadline,
     environment, local, runRows
<1>10. ASSUME NEW r \in Runs, IterationSucceeds(r) PROVE ExposedKnown'
  BY <1>10 DEF IterationSucceeds, GoTo, environment, local, runRows
<1>11. ASSUME NEW r \in Runs, IterationFails(r) PROVE ExposedKnown'
  BY <1>11 DEF IterationFails, Finish, environment, local, runRows
<1>12. ASSUME NEW r \in Runs, RecordIteration(r) PROVE ExposedKnown'
  BY <1>12 DEF RecordIteration, GoOn, GoTo, Finish, WriteEnds, environment,
     local, runRows
<1>13. ASSUME NEW r \in Runs, RecordFinish(r) PROVE ExposedKnown'
  BY <1>13 DEF RecordFinish, GoTo, ExitCode, WriteEnds, environment, local,
     runRows
<1> QED BY <1>1, <1>2, <1>3, <1>4, <1>5, <1>6, <1>7, <1>8, <1>9, <1>10, <1>11,
           <1>12, <1>13 DEF Next, RunStep, Tick, Cancel, vars, environment,
           local, runRows

\* The initial states satisfy the invariant.
LEMMA IInvInit == Init => IInv
<1> SUFFICES ASSUME Init PROVE IInv
  OBVIOUS
<1>0. clock = 0 /\ exposed = {} /\ cancelled = {} /\ inserted = <<>>
  BY DEF Init
<1>k. ~killSwitch /\ killSwitch \in BOOLEAN
  BY DEF Init
<1>1. /\ startedAt = [r \in Runs |-> 0] /\ deadline = [r \in Runs |-> 0]
      /\ stopping \in [Runs -> BOOLEAN]
      /\ pc = [r \in Runs |-> "idle"] /\ stop = [r \in Runs |-> ""]
  BY DEF Init
<1>2. /\ iteration = [r \in Runs |-> 1] /\ attempted = [r \in Runs |-> 0]
      /\ succeeded = [r \in Runs |-> 0] /\ iterationRows = [r \in Runs |-> {}]
  BY DEF Init
<1>3. /\ exit = [r \in Runs |-> "none"] /\ status = [r \in Runs |-> "NONE"]
      /\ rowStop = [r \in Runs |-> ""]
      /\ rowAttempted = [r \in Runs |-> 0] /\ rowSucceeded = [r \in Runs |-> 0]
  BY DEF Init
<1>4. EnvironmentType
  <2>1. clock \in 0..MaxClock /\ exposed \subseteq Runs /\ cancelled \subseteq Runs
    BY <1>0, BoundsAssumption
  <2>2. startedAt \in [Runs -> Nat] /\ deadline \in [Runs -> Nat]
    <3>1. startedAt = [r \in Runs |-> 0] /\ deadline = [r \in Runs |-> 0]
      BY <1>1
    <3> QED
      BY <3>1
  <2> QED
    BY <1>k, <1>1, <2>1, <2>2, Zenon DEF EnvironmentType
<1>5. PlaceType
  BY <1>1, StopReasonFacts DEF PlaceType, Places
<1>6. CounterType
  BY <1>2, RequestAssumption DEF CounterType
<1>7. RowType
  <2>1. inserted \in Seq(Runs)
    BY <1>0
  <2>2. rowAttempted \in [Runs -> 0..MaxIterations]
        /\ rowSucceeded \in [Runs -> 0..MaxIterations]
    <3>1. rowAttempted = [r \in Runs |-> 0] /\ rowSucceeded = [r \in Runs |-> 0]
      BY <1>3
    <3> QED
      BY <3>1, RequestAssumption
  <2> QED
    BY <1>3, <2>1, <2>2, StopReasonFacts DEF RowType
<1>8. TypeOK
  BY <1>4, <1>5, <1>6, <1>7, TypeParts
<1>9. AuditedBeforeGoingOn /\ DeadlineWithinRuntime /\ AuditPending /\ StopAccounted
  BY <1>1 DEF AuditedBeforeGoingOn, DeadlineWithinRuntime, AuditPending, StopAccounted
<1>10. RowFollowsRun
  BY <1>1, <1>2, <1>3 DEF RowFollowsRun, Active
<1>11. RowAccounted /\ ExitAccounted
  BY <1>3 DEF RowAccounted, ExitAccounted
<1>12. RowsStarted
  <2>1. Len(inserted) = 0
    BY <1>0
  <2> QED
    BY <2>1 DEF RowsStarted
<1>13. StartsInThePast
  <2>1. clock = 0 /\ startedAt = [r \in Runs |-> 0]
    BY <1>0, <1>1
  <2> QED
    BY <2>1 DEF StartsInThePast
<1>14. ExposedKnown
  BY <1>k DEF ExposedKnown
<1> QED
  BY <1>8, <1>9, <1>10, <1>11, <1>12, <1>13, <1>14 DEF IInv


\* IInv is an invariant of the specification.
THEOREM Invariance == Spec => []IInv
<1>1. IInv /\ [Next]_vars => IInv'
  BY EnvironmentTypeStep, PlaceTypeStep, CounterTypeStep, RowTypeStep,
     AuditedBeforeGoingOnStep, DeadlineWithinRuntimeStep, StartsInThePastStep,
     RowFollowsRunStep, AuditPendingStep, StopAccountedStep, RowAccountedStep,
     ExitAccountedStep, RowsStartedStep, ExposedKnownStep, TypePartsNext DEF
     IInv
<1> QED BY IInvInit, <1>1, PTL DEF Spec

\* Types.
THEOREM TypeCorrect == Spec => []TypeOK
<1>1. IInv => TypeOK
  BY DEF IInv
<1> QED BY Invariance, <1>1, PTL

\* No iteration starts before the run and its earlier iterations are recorded.
THEOREM AuditFirst == Spec => []AuditedBeforeGoingOn
<1>1. IInv => AuditedBeforeGoingOn
  BY DEF IInv
<1> QED BY Invariance, <1>1, PTL

\* No iteration is given more time than its loop has left.
THEOREM RuntimeBound == Spec => []DeadlineWithinRuntime
<1>1. IInv => DeadlineWithinRuntime
  BY DEF IInv
<1> QED BY Invariance, <1>1, PTL

\* Finished rows agree with the iteration rows of their runs.
THEOREM AuditAgrees == Spec => []FinishedRowAgrees
<1>1. IInv => FinishedRowAgrees
  <2> SUFFICES ASSUME IInv, NEW r \in Runs, status[r] \in {"COMPLETED", "FAILED"}
               PROVE  /\ status[r] = "COMPLETED" <=> rowStop[r] \in Completing
                      /\ rowAttempted[r] = rowSucceeded[r] +
                           (IF rowStop[r] = "ITERATION_ERROR" THEN 1 ELSE 0)
                      /\ 1..(rowSucceeded[r] - 1) \subseteq iterationRows[r]
                      /\ iterationRows[r] \subseteq 1..rowSucceeded[r]
                      /\ rowStop[r] # "AUDIT_JOURNAL_ERROR" =>
                           iterationRows[r] = 1..rowSucceeded[r]
    BY DEF FinishedRowAgrees
  <2>1. Accounted(rowStop[r], rowAttempted[r], rowSucceeded[r], iterationRows[r])
        /\ (status[r] = "COMPLETED" <=> rowStop[r] \in Completing)
    BY DEF IInv, RowAccounted
  <2>2. rowSucceeded[r] \in Nat
    BY RequestAssumption DEF IInv, TypeOK
  <2> QED
    BY <2>1, <2>2 DEF Accounted
<1> QED BY Invariance, <1>1, PTL

\* A command that exits without error left a COMPLETED, complete audit.
THEOREM ExitIsDurable == Spec => []SuccessIsDurable
<1>1. IInv => SuccessIsDurable
  <2> SUFFICES ASSUME IInv, NEW r \in Runs, exit[r] = "ok"
               PROVE  /\ pc[r] = "returned"
                      /\ status[r] = "COMPLETED"
                      /\ iterationRows[r] = 1..attempted[r]
                      /\ attempted[r] > 0 \/ rowStop[r] = "MAX_RUNTIME"
    BY DEF SuccessIsDurable
  <2>1. pc[r] = "returned" /\ status[r] = "COMPLETED"
    BY DEF IInv, ExitAccounted
  <2>2. /\ rowStop[r] \in Completing /\ rowAttempted[r] = attempted[r]
        /\ Accounted(rowStop[r], rowAttempted[r], rowSucceeded[r], iterationRows[r])
    BY <2>1 DEF IInv, RowAccounted
  <2>3. attempted[r] \in Nat /\ rowSucceeded[r] \in Nat
    BY RequestAssumption DEF IInv, TypeOK
  <2> QED
    BY <2>1, <2>2, <2>3 DEF Accounted, Completing
<1> QED BY Invariance, <1>1, PTL

\* An iteration that starts while the Kill Switch is active had passed its
\* check before the activation.
THEOREM KillSwitchBound == Spec => KillSwitchHonoured
<1> DEFINE Honoured == killSwitch => \A r \in Runs :
             pc[r] # "iterating" /\ pc'[r] = "iterating" => r \in exposed
<1>1. IInv /\ [Next]_vars => [Honoured]_vars
  <2> SUFFICES ASSUME IInv, Next, killSwitch, NEW q \in Runs,
                      pc[q] # "iterating", pc'[q] = "iterating"
               PROVE  q \in exposed
    BY DEF Honoured
  <2>1. PlaceType
    BY TypeParts DEF IInv
  <2>2. ASSUME NEW r \in Runs, NEW next \in Places \ {"iterating"},
               pc' = [pc EXCEPT ![r] = next]
        PROVE  FALSE
    BY <2>1, <2>2 DEF PlaceType
  <2>3. ASSUME NEW r \in Runs, Launch(r) PROVE pc[q] = "launch"
    BY <2>1, <2>3 DEF Launch, GoTo, Finish, PlaceType
  <2>4. ASSUME NEW r \in Runs, RecordIteration(r) PROVE FALSE
    BY <2>2, <2>4, IterationTurn DEF Places, Active
  <2>5. ASSUME NEW r \in Runs, TopOfLoop(r) \/ CheckKillSwitch(r) \/ Preflight(r)
        PROVE  FALSE
    BY <2>2, <2>5 DEF TopOfLoop, CheckKillSwitch, Preflight, GoTo, Finish,
       Places, Active
  <2>6. ASSUME NEW r \in Runs, Begin(r) \/ RecordStart(r) \/ RecordFinish(r)
        PROVE  FALSE
    BY <2>2, <2>6 DEF Begin, RecordStart, RecordFinish, GoTo, Places, Active
  <2>7. ASSUME NEW r \in Runs, IterationSucceeds(r) \/ IterationFails(r) \/ Crash(r)
        PROVE  FALSE
    BY <2>2, <2>7 DEF IterationSucceeds, IterationFails, Crash, GoTo, Finish,
       Places, Active
  <2>8. pc[q] = "launch"
    BY <2>3, <2>4, <2>5, <2>6, <2>7
       DEF Next, RunStep, Tick, ToggleKillSwitch, Cancel
  <2> QED
    BY <2>8 DEF IInv, ExposedKnown
<1> QED BY Invariance, <1>1, PTL DEF Spec, KillSwitchHonoured

\* A CLEAR review overlooks an executing run only behind Limit newer rows.
THEOREM ReviewIsSound == Spec => []ClearMeansIdle
<1>1. IInv => ClearMeansIdle
  <2> SUFFICES ASSUME IInv, Review = "CLEAR", NEW i \in 1..Len(inserted),
                      pc[inserted[i]] \in Active
               PROVE  Cardinality(NewerRows(i)) >= Limit
    BY DEF ClearMeansIdle
  <2>1. inserted[i] \in Runs
    BY DEF IInv, TypeOK
  <2>2. inserted[i] \notin RecentRuns
    <3>1. \A r \in RecentRuns : status[r] # "RUNNING"
      BY DEF Review
    <3> QED
      BY <2>1, <3>1 DEF IInv, RowFollowsRun, RowsStarted
  <2>3. ~(Cardinality(NewerRows(i)) < Limit)
    BY <2>2 DEF RecentRuns
  <2>4. Cardinality(NewerRows(i)) \in Nat
    <3>1. IsFiniteSet(1..Len(inserted)) /\ NewerRows(i) \subseteq 1..Len(inserted)
      BY FS_Interval DEF IInv, TypeOK, NewerRows
    <3> QED
      BY <3>1, FS_Subset, FS_CardinalityType
  <2> QED
    BY <2>3, <2>4, BoundsAssumption
<1> QED BY Invariance, <1>1, PTL


-----------------------------------------------------------------------------
(***************************************************************************)
(* Bounded work.  That a loop returns (EveryLoopReturns) takes fairness,   *)
(* and TLC checks it; what it rests on holds for any constants: a measure  *)
(* that every step of a loop lowers and no other step raises.              *)
(***************************************************************************)
Stage(place) ==
  CASE place = "start" -> 8 [] place = "preflight" -> 7 [] place = "top" -> 6
    [] place = "check" -> 5 [] place = "launch" -> 4 [] place = "iterating" -> 3
    [] place = "audit" -> 2 [] OTHER -> 0

\* The most steps loop r can still take, once it has begun.
Remaining(r) ==
  IF pc[r] = "finish" THEN 1
  ELSE IF pc[r] \in Active THEN 6 * (MaxIterations - iteration[r]) + Stage(pc[r])
  ELSE 0

LoopsAreBounded ==
  [][\A r \in Runs :
       /\ RunStep(r) \/ Crash(r) => Remaining(r)' < Remaining(r)
       /\ ~Begin(r) => Remaining(r)' <= Remaining(r)]_vars

\* A loop has at least the step of finishing left while it is active.
LEMMA RemainingType ==
  ASSUME TypeOK, NEW r \in Runs
  PROVE  /\ Remaining(r) \in 0..(6 * MaxIterations + 2)
         /\ pc[r] \in Active => Remaining(r) > 0
         /\ pc[r] \in Active \ {"finish"} =>
              /\ Remaining(r) = 6 * (MaxIterations - iteration[r]) + Stage(pc[r])
              /\ Remaining(r) > 1
<1>1. MaxIterations \in Nat \ {0} /\ iteration[r] \in 1..MaxIterations
  BY RequestAssumption DEF TypeOK
<1>2. 6 * (MaxIterations - iteration[r]) \in 0..(6 * MaxIterations - 6)
  BY <1>1
<1>3. Stage(pc[r]) \in 0..8
  BY DEF Stage
<1>4. pc[r] \in Active \ {"finish"} => Stage(pc[r]) \in 2..8
  BY DEF Stage, Active
<1> QED BY <1>1, <1>2, <1>3, <1>4 DEF Remaining

\* A place is changed for one loop only.
LEMMA OnePlace ==
  ASSUME TypeOK, NEW r \in Runs
  PROVE  /\ \A to : GoTo(r, to) =>
              pc'[r] = to /\ \A s \in Runs \ {r} : pc'[s] = pc[s]
         /\ \A reason : Finish(r, reason) =>
              pc'[r] = "finish" /\ \A s \in Runs \ {r} : pc'[s] = pc[s]
<1>1. pc \in [Runs -> Places]
  BY DEF TypeOK
<1> QED BY <1>1 DEF GoTo, Finish

\* Where a step of the loop can lead, and what it does to the iteration.
LEMMA LoopPlaces ==
  ASSUME TypeOK, NEW r \in Runs, RunStep(r) \/ Crash(r)
  PROVE  \/ /\ pc[r] = "start" /\ pc'[r] \in {"preflight", "returned"}
            /\ iteration' = iteration
         \/ pc[r] = "preflight" /\ pc'[r] \in {"top", "finish"} /\ iteration' = iteration
         \/ pc[r] = "top" /\ pc'[r] \in {"check", "finish"} /\ iteration' = iteration
         \/ pc[r] = "check" /\ pc'[r] \in {"launch", "finish"} /\ iteration' = iteration
         \/ pc[r] = "launch" /\ pc'[r] \in {"iterating", "finish"} /\ iteration' = iteration
         \/ pc[r] = "iterating" /\ pc'[r] \in {"audit", "finish"} /\ iteration' = iteration
         \/ pc[r] = "audit" /\ pc'[r] = "finish" /\ iteration' = iteration
         \/ /\ pc[r] = "audit" /\ pc'[r] = "top"
            /\ iteration' = [iteration EXCEPT ![r] = iteration[r] + 1]
         \/ pc[r] = "finish" /\ pc'[r] = "returned" /\ iteration' = iteration
         \/ pc[r] \in Active /\ pc'[r] = "crashed" /\ iteration' = iteration
<1>1. CASE RecordStart(r)
  <2>1. pc[r] = "start" /\ iteration' = iteration
        /\ (GoTo(r, "preflight") \/ GoTo(r, "returned"))
    BY <1>1, Zenon DEF RecordStart, local
  <2> QED BY <2>1, OnePlace, Zenon
<1>2. CASE Preflight(r)
  <2>1. pc[r] = "preflight" /\ iteration' = iteration
        /\ (GoTo(r, "top") \/ \E reason : Finish(r, reason))
    BY <1>2, Zenon DEF Preflight, local
  <2> QED BY <2>1, OnePlace, Zenon
<1>3. CASE TopOfLoop(r)
  <2>1. pc[r] = "top" /\ iteration' = iteration
        /\ (GoTo(r, "check") \/ \E reason : Finish(r, reason))
    BY <1>3, Zenon DEF TopOfLoop, local
  <2> QED BY <2>1, OnePlace, Zenon
<1>4. CASE CheckKillSwitch(r)
  <2>1. pc[r] = "check" /\ iteration' = iteration
        /\ (GoTo(r, "launch") \/ \E reason : Finish(r, reason))
    BY <1>4, Zenon DEF CheckKillSwitch, local
  <2> QED BY <2>1, OnePlace, Zenon
<1>5. CASE Launch(r)
  <2>1. pc[r] = "launch" /\ iteration' = iteration
        /\ (GoTo(r, "iterating") \/ \E reason : Finish(r, reason))
    BY <1>5, Zenon DEF Launch
  <2> QED BY <2>1, OnePlace, Zenon
<1>6. CASE IterationSucceeds(r) \/ IterationFails(r)
  <2>1. pc[r] = "iterating" /\ iteration' = iteration
        /\ (GoTo(r, "audit") \/ \E reason : Finish(r, reason))
    BY <1>6, Zenon DEF IterationSucceeds, IterationFails
  <2> QED BY <2>1, OnePlace, Zenon
<1>7. CASE RecordIteration(r)
  <2>1. /\ pc[r] = "audit"
        /\ \/ iteration' = iteration /\ \E reason : Finish(r, reason)
           \/ /\ iteration' = [iteration EXCEPT ![r] = iteration[r] + 1]
              /\ GoTo(r, "top")
    BY <1>7, Zenon DEF RecordIteration, GoOn
  <2> QED BY <2>1, OnePlace, Zenon
<1>8. CASE RecordFinish(r)
  <2>1. pc[r] = "finish" /\ iteration' = iteration /\ GoTo(r, "returned")
    BY <1>8, Zenon DEF RecordFinish, local
  <2> QED BY <2>1, OnePlace, Zenon
<1>9. CASE Crash(r)
  <2>1. pc[r] \in Active /\ iteration' = iteration /\ pc' = [pc EXCEPT ![r] = "crashed"]
    BY <1>9, Zenon DEF Crash, local
  <2>2. pc'[r] = "crashed"
    BY <2>1 DEF TypeOK
  <2> QED BY <2>1, <2>2, Zenon
<1> QED BY <1>1, <1>2, <1>3, <1>4, <1>5, <1>6, <1>7, <1>8, <1>9, Zenon DEF RunStep

\* A loop does not move another.
LEMMA OthersStay ==
  ASSUME TypeOK, NEW s \in Runs, Begin(s) \/ RunStep(s) \/ Crash(s), NEW r \in Runs \ {s}
  PROVE  pc'[r] = pc[r] /\ iteration'[r] = iteration[r]
<1>1. pc \in [Runs -> Places] /\ iteration \in [Runs -> 1..MaxIterations]
  BY DEF TypeOK
<1>2. \/ iteration' = iteration
      \/ iteration' = [iteration EXCEPT ![s] = iteration[s] + 1]
  <2>1. CASE Begin(s)
    BY <2>1, Zenon DEF Begin
  <2> QED BY <2>1, LoopPlaces, Zenon
<1>3. iteration'[r] = iteration[r]
  BY <1>1, <1>2
<1>4. \/ \E to : GoTo(s, to)
      \/ \E reason : Finish(s, reason)
      \/ pc' = [pc EXCEPT ![s] = "crashed"]
  <2>1. CASE Begin(s) \/ RecordStart(s) \/ RecordFinish(s) \/ Crash(s)
    BY <2>1, Zenon DEF Begin, RecordStart, RecordFinish, Crash
  <2>2. CASE Preflight(s) \/ TopOfLoop(s) \/ CheckKillSwitch(s)
    BY <2>2, Zenon DEF Preflight, TopOfLoop, CheckKillSwitch
  <2>3. CASE Launch(s) \/ IterationSucceeds(s) \/ IterationFails(s)
    BY <2>3, Zenon DEF Launch, IterationSucceeds, IterationFails
  <2>4. CASE RecordIteration(s)
    BY <2>4, Zenon DEF RecordIteration, GoOn
  <2> QED BY <2>1, <2>2, <2>3, <2>4, Zenon DEF RunStep
<1>5. pc'[r] = pc[r]
  <2>1. pc' = [pc EXCEPT ![s] = "crashed"] => pc'[r] = pc[r]
    BY <1>1
  <2> QED BY <1>4, <2>1, OnePlace, Zenon
<1> QED BY <1>3, <1>5

\* The places of a loop and how far they are from its end.
LEMMA LaterStages ==
  /\ Stage("start") = 8 /\ Stage("preflight") = 7 /\ Stage("top") = 6
  /\ Stage("check") = 5 /\ Stage("launch") = 4 /\ Stage("iterating") = 3
  /\ Stage("audit") = 2
BY DEF Stage

\* What a step of the loop does to its place and its iteration.
LEMMA LoopTurns ==
  ASSUME TypeOK, NEW r \in Runs, RunStep(r) \/ Crash(r)
  PROVE  /\ pc[r] \in Active
         /\ \/ pc'[r] \in {"returned", "crashed"}
            \/ pc[r] # "finish" /\ pc'[r] = "finish"
            \/ /\ pc[r] # "finish" /\ pc'[r] \in Active \ {"finish"}
               /\ iteration'[r] = iteration[r] /\ Stage(pc'[r]) < Stage(pc[r])
            \/ /\ pc[r] = "audit" /\ pc'[r] = "top"
               /\ iteration'[r] = iteration[r] + 1
<1>1. iteration \in [Runs -> 1..MaxIterations]
  BY DEF TypeOK
<1>2. \/ iteration'[r] = iteration[r]
      \/ iteration' = [iteration EXCEPT ![r] = iteration[r] + 1]
  BY LoopPlaces
<1>3. iteration' = [iteration EXCEPT ![r] = iteration[r] + 1]
        => iteration'[r] = iteration[r] + 1
  BY <1>1
<1>4. PICK from, to, old, new :
        /\ from = pc[r] /\ to = pc'[r]
        /\ old = iteration[r] /\ new = iteration'[r]
  OBVIOUS
<1>5. \/ from = "start" /\ to \in {"preflight", "returned"} /\ new = old
      \/ from = "preflight" /\ to \in {"top", "finish"} /\ new = old
      \/ from = "top" /\ to \in {"check", "finish"} /\ new = old
      \/ from = "check" /\ to \in {"launch", "finish"} /\ new = old
      \/ from = "launch" /\ to \in {"iterating", "finish"} /\ new = old
      \/ from = "iterating" /\ to \in {"audit", "finish"} /\ new = old
      \/ from = "audit" /\ to = "finish" /\ new = old
      \/ from = "audit" /\ to = "top" /\ new = old + 1
      \/ from = "finish" /\ to = "returned" /\ new = old
      \/ from \in Active /\ to = "crashed" /\ new = old
  BY <1>3, <1>4, LoopPlaces, ZenonT(40)
<1>6. /\ from \in Active
      /\ \/ to \in {"returned", "crashed"}
         \/ from # "finish" /\ to = "finish"
         \/ /\ from # "finish" /\ to \in Active \ {"finish"}
            /\ new = old /\ Stage(to) < Stage(from)
         \/ from = "audit" /\ to = "top" /\ new = old + 1
  BY <1>5, LaterStages DEF Active
<1> QED BY <1>4, <1>6, Zenon

\* Each step of a loop, and its end, leaves it fewer steps.
LEMMA StepsAreCounted ==
  ASSUME TypeOK, TypeOK', NEW r \in Runs, RunStep(r) \/ Crash(r)
  PROVE  Remaining(r)' < Remaining(r)
<1>1. /\ MaxIterations \in Nat \ {0} /\ iteration[r] \in 1..MaxIterations
      /\ iteration'[r] \in 1..MaxIterations
  BY RequestAssumption DEF TypeOK
<1>2. pc[r] \in Active /\ Remaining(r) \in Nat /\ Remaining(r) > 0
  BY <1>1, RemainingType, LoopTurns
<1>3. CASE pc'[r] \in {"returned", "crashed"}
  <2>1. Remaining(r)' = 0
    BY <1>3 DEF Remaining, Active
  <2> QED BY <1>2, <2>1
<1>4. CASE pc[r] # "finish" /\ pc'[r] = "finish"
  <2>1. Remaining(r)' = 1
    BY <1>4 DEF Remaining
  <2> QED BY <1>2, <1>4, <2>1, RemainingType
<1>5. CASE /\ pc[r] # "finish" /\ pc'[r] \in Active \ {"finish"}
           /\ iteration'[r] = iteration[r] /\ Stage(pc'[r]) < Stage(pc[r])
  <2>1. /\ Remaining(r) = 6 * (MaxIterations - iteration[r]) + Stage(pc[r])
        /\ Remaining(r)' = 6 * (MaxIterations - iteration'[r]) + Stage(pc'[r])
    BY <1>2, <1>5 DEF Remaining
  <2>2. Stage(pc[r]) \in Nat /\ Stage(pc'[r]) \in Nat
    BY DEF Stage
  <2> QED BY <1>1, <1>5, <2>1, <2>2
<1>6. CASE /\ pc[r] = "audit" /\ pc'[r] = "top"
           /\ iteration'[r] = iteration[r] + 1
  <2>1. /\ Remaining(r) = 6 * (MaxIterations - iteration[r]) + 2
        /\ Remaining(r)' = 6 * (MaxIterations - iteration'[r]) + 6
    BY <1>6 DEF Remaining, Active, Stage
  <2>2. iteration'[r] = iteration[r] + 1
    BY <1>6
  <2> QED BY <1>1, <2>1, <2>2
<1> QED BY <1>3, <1>4, <1>5, <1>6, LoopTurns

\* Every step of a loop leaves it fewer steps and no step of anything else
\* gives it more: whatever the Kill Switch, the journal and the iterations
\* answer, a loop that has begun returns after at most 6 * MaxIterations + 2
\* steps of its own (RunBoundedLiveLoop).
THEOREM BoundedLoops ==
  Spec => [](\A r \in Runs : Remaining(r) \in 0..(6 * MaxIterations + 2))
          /\ LoopsAreBounded
<1>1. TypeOK => \A r \in Runs : Remaining(r) \in 0..(6 * MaxIterations + 2)
  BY RemainingType
<1>2. TypeOK /\ TypeOK' /\ [Next]_vars =>
        [\A r \in Runs :
           /\ RunStep(r) \/ Crash(r) => Remaining(r)' < Remaining(r)
           /\ ~Begin(r) => Remaining(r)' <= Remaining(r)]_vars
  <2> SUFFICES ASSUME TypeOK, TypeOK', [Next]_vars, NEW r \in Runs
               PROVE  /\ RunStep(r) \/ Crash(r) => Remaining(r)' < Remaining(r)
                      /\ ~Begin(r) => Remaining(r)' <= Remaining(r)
    OBVIOUS
  <2>1. RunStep(r) \/ Crash(r) => Remaining(r)' < Remaining(r)
    BY StepsAreCounted
  <2>2. MaxIterations \in Nat /\ Remaining(r) \in 0..(6 * MaxIterations + 2)
    BY RemainingType, RequestAssumption
  <2>3. ASSUME pc'[r] = pc[r], iteration'[r] = iteration[r]
        PROVE  Remaining(r)' = Remaining(r)
    BY <2>3 DEF Remaining
  <2>4. ASSUME NEW s \in Runs \ {r}, Begin(s) \/ RunStep(s) \/ Crash(s)
        PROVE  pc'[r] = pc[r] /\ iteration'[r] = iteration[r]
    BY <2>4, OthersStay
  <2>5. CASE \/ Tick \/ ToggleKillSwitch \/ UNCHANGED vars
             \/ \E s \in Runs : Cancel(s)
    <3>1. pc' = pc /\ iteration' = iteration
      BY <2>5 DEF Tick, ToggleKillSwitch, Cancel, vars, local
    <3> QED BY <2>1, <2>2, <2>3, <3>1
  <2>6. CASE \E s \in Runs : Begin(s) \/ RunStep(s) \/ Crash(s)
    <3>1. CASE RunStep(r) \/ Crash(r)
      <4>1. Remaining(r)' \in Int
        <5>1. iteration'[r] \in Int /\ MaxIterations \in Int
          BY RequestAssumption DEF TypeOK
        <5>2. Stage(pc'[r]) \in Int
          BY DEF Stage
        <5> QED BY <5>1, <5>2 DEF Remaining
      <4> QED BY <2>1, <2>2, <3>1, <4>1
    <3>2. CASE Begin(r)
      BY <2>1, <3>2
    <3>3. CASE \E s \in Runs \ {r} : Begin(s) \/ RunStep(s) \/ Crash(s)
      BY <2>1, <2>2, <2>3, <2>4, <3>3
    <3> QED BY <2>6, <3>1, <3>2, <3>3
  <2> QED BY <2>5, <2>6 DEF Next
<1> QED BY <1>1, <1>2, TypeCorrect, PTL DEF Spec, LoopsAreBounded
=============================================================================
