---------------------------- MODULE Handoff_proofs -----------------------------
(***************************************************************************)
(* Proofs about HandoffFiles and Handoff, for any decisions, invocations,  *)
(* scripts, flags, files given to a loop, ages and bounds.                 *)
(***************************************************************************)
EXTENDS Handoff, FiniteSetTheorems, SequenceTheorems, WellFoundedInduction, TLAPS

-----------------------------------------------------------------------------
(* Least and greatest elements.                                             *)

LEMMA NatMin == ASSUME NEW S \in SUBSET Nat, S # {}
                PROVE  \E m \in S : \A k \in S : m <= k
<1> DEFINE R == {pair \in Nat \X Nat : pair[1] < pair[2]}
<1>1. R = OpToRel(<, Nat)
  BY DEF OpToRel
<1>2. IsWellFoundedOn(R, Nat)
  BY <1>1, NatLessThanWellFounded
<1>3. PICK m \in S : \A k \in S : ~(<<k, m>> \in R)
  <2> HIDE DEF R
  <2> QED
    BY <1>2, WFMin
<1>4. \A k \in S : m \in Nat /\ k \in Nat /\ ~(k < m)
  BY <1>3
<1> QED
  BY <1>4

LEMMA NatMax == ASSUME NEW n \in Nat, NEW S \in SUBSET (0..n), S # {}
                PROVE  \E m \in S : \A k \in S : k <= m
<1> DEFINE Mirror == {n - k : k \in S}
<1>1. Mirror \in SUBSET Nat /\ Mirror # {}
  <2>1. \A k \in S : n - k \in Nat
    OBVIOUS
  <2>2. PICK k \in S : TRUE
    OBVIOUS
  <2>3. n - k \in Mirror
    OBVIOUS
  <2> QED
    BY <2>1, <2>3
<1>2. PICK m \in Mirror : \A k \in Mirror : m <= k
  <2> HIDE DEF Mirror
  <2> QED
    BY <1>1, NatMin
<1>3. PICK i \in S : m = n - i
  BY <1>2
<1>4. \A k \in S : n - i <= n - k
  BY <1>2, <1>3
<1> QED
  BY <1>3, <1>4

-----------------------------------------------------------------------------
(* The queue.                                                               *)

\* The head of the queue is a pending decision, if there is one.
LEMMA OldestIsPending ==
  ASSUME recorded \subseteq Decisions
  PROVE  /\ Oldest \in Decisions \cup {NoDecision}
         /\ Oldest # NoDecision => Oldest \in Pending
<1>1. CASE Pending = {}
  BY <1>1 DEF Oldest
<1>2. CASE Pending # {}
  <2>1. Pending \in SUBSET Nat /\ Pending \subseteq Decisions
    BY DecisionsAssumption DEF Pending
  <2>2. \E d \in Pending : \A e \in Pending : d <= e
    BY <1>2, <2>1, NatMin
  <2>3. Oldest \in Pending
    BY <1>2, <2>2 DEF Oldest
  <2> QED
    BY <2>1, <2>3
<1> QED
  BY <1>1, <1>2

-----------------------------------------------------------------------------
(* The loop audit.                                                          *)

\* A query sees rows of the table, and no more of them than its limit.
LEMMA RecentBounded ==
  ASSUME NEW S, NEW rows \in Seq(S), NEW limit \in Nat, NEW filter
  PROVE  LET seen == Recent(rows, limit, filter) IN
         /\ seen \subseteq 1..Len(rows) /\ IsFiniteSet(seen)
         /\ Cardinality(seen) \in Nat /\ Cardinality(seen) <= limit
<1> DEFINE kept == {i \in DOMAIN rows : /\ rows[i].status # "DELETED"
                                        /\ filter \in {"all", rows[i].status}}
           seen == Recent(rows, limit, filter)
           Upper(i) == {j \in kept : j >= i}
<1>1. Len(rows) \in Nat /\ DOMAIN rows = 1..Len(rows)
  BY LenProperties
<1>2. kept \subseteq 1..Len(rows)
  BY <1>1
<1>3. seen = {i \in kept : Cardinality(Upper(i)) <= limit}
  BY DEF Recent
<1>4. IsFiniteSet(1..Len(rows))
  BY <1>1, FS_Interval
<1>5. seen \subseteq 1..Len(rows)
  BY <1>2, <1>3
<1> HIDE DEF kept, seen
<1>6. IsFiniteSet(seen) /\ Cardinality(seen) \in Nat
  BY <1>4, <1>5, FS_Subset, FS_CardinalityType
<1>7. Cardinality(seen) <= limit
  <2>1. CASE seen = {}
    BY <2>1, FS_EmptySet
  <2>2. CASE seen # {}
    <3>1. seen \in SUBSET Nat
      BY <1>1, <1>5
    <3>2. PICK m \in seen : \A k \in seen : m <= k
      BY <2>2, <3>1, NatMin
    <3>3. m \in kept /\ Cardinality(Upper(m)) <= limit
      BY <1>3, <3>2
    <3>4. seen \subseteq Upper(m)
      BY <1>1, <1>2, <1>3, <3>2
    <3>5. Upper(m) \subseteq 1..Len(rows)
      BY <1>2
    <3>6. IsFiniteSet(Upper(m))
      BY <1>4, <3>5, FS_Subset
    <3> HIDE DEF Upper
    <3>7. Cardinality(seen) <= Cardinality(Upper(m))
      BY <3>4, <3>6, FS_Subset
    <3>8. Cardinality(Upper(m)) \in Nat
      BY <3>6, FS_CardinalityType
    <3> QED
      BY <1>6, <3>3, <3>7, <3>8
  <2> QED
    BY <2>1, <2>2
<1> QED
  BY <1>5, <1>6, <1>7 DEF seen

\* The newest run of a status that is seen is one of the table.
LEMMA NewestRunThere ==
  ASSUME NEW S, NEW rows \in Seq(S), NEW seen \in SUBSET (1..Len(rows)),
         NEW status, Places(rows, seen, status) # {}
  PROVE  \E i \in 1..Len(rows) : NewestRun(rows, seen, status) = rows[i].id
<1> DEFINE places == Places(rows, seen, status)
<1>1. Len(rows) \in Nat
  BY LenProperties
<1>2. places \subseteq 1..Len(rows)
  BY DEF Places
<1>3. places # {} /\ places \in SUBSET (0..Len(rows))
  <2>1. 1..Len(rows) \subseteq 0..Len(rows)
    BY <1>1
  <2>2. places # {}
    OBVIOUS
  <2> HIDE DEF places
  <2> QED
    BY <1>2, <2>1, <2>2
<1>4. \E m \in places : \A k \in places : k <= m
  <2> HIDE DEF places
  <2> QED
    BY <1>1, <1>3, NatMax
<1>5. (CHOOSE i \in places : \A j \in places : j <= i) \in places
  BY <1>4
<1> QED
  BY <1>2, <1>5 DEF NewestRun

LEMMA DisjointUnion ==
  ASSUME NEW S, NEW T, IsFiniteSet(S), IsFiniteSet(T), S \cap T = {}
  PROVE  /\ IsFiniteSet(S \cup T)
         /\ Cardinality(S \cup T) = Cardinality(S) + Cardinality(T)
<1>1. Cardinality(S \cap T) = 0
  BY FS_EmptySet
<1>2. Cardinality(S) \in Nat /\ Cardinality(T) \in Nat
  BY FS_CardinalityType
<1>3. /\ IsFiniteSet(S \cup T)
      /\ Cardinality(S \cup T) = Cardinality(S) + Cardinality(T) - Cardinality(S \cap T)
  BY FS_Union
<1> QED
  BY <1>1, <1>2, <1>3

\* An audit agrees with itself, so that live-loop-audit never writes a file
\* that the commands after it refuse.
LEMMA AuditIsValid ==
  ASSUME NEW rows \in Seq(RunRows), NEW limit \in Nat \ {0}, NEW filter
  PROVE  LET audit == AuditOf(rows, limit, filter) IN
         /\ ValidAudit(audit) /\ ValidCopy(audit)
         /\ audit.review \in {"BLOCKED", "REVIEW", "CLEAR"}
<1> DEFINE seen == Recent(rows, limit, filter)
           running == Places(rows, seen, "RUNNING")
           failed == Places(rows, seen, "FAILED")
           completed == Places(rows, seen, "COMPLETED")
           audit == AuditOf(rows, limit, filter)
<1>1. /\ seen \subseteq 1..Len(rows) /\ IsFiniteSet(seen)
      /\ Cardinality(seen) \in Nat /\ Cardinality(seen) <= limit
  BY RecentBounded
<1>2. /\ audit.limit = limit
      /\ audit.running = Cardinality(running)
      /\ audit.failed = Cardinality(failed)
      /\ audit.completed = Cardinality(completed)
      /\ audit.review = ReviewOf(rows, seen).review
      /\ audit.run = ReviewOf(rows, seen).run
  BY DEF AuditOf
<1> HIDE DEF seen, audit
<1>3. /\ running \subseteq seen /\ failed \subseteq seen /\ completed \subseteq seen
      /\ running \cap failed = {} /\ (running \cup failed) \cap completed = {}
  BY DEF Places
<1>4. \A status : Places(rows, seen, status) # {} => NewestRun(rows, seen, status) # NoRun
  <2>1. SUFFICES ASSUME NEW status, Places(rows, seen, status) # {}
                 PROVE  NewestRun(rows, seen, status) # NoRun
    OBVIOUS
  <2>2. PICK i \in 1..Len(rows) : NewestRun(rows, seen, status) = rows[i].id
    BY <1>1, <2>1, NewestRunThere
  <2>3. rows[i].id \in RunIds \cup {SmokeRun}
    <3>1. rows[i] \in RunRows
      BY ElementOfSeq
    <3> QED
      BY <3>1 DEF RunRows
  <2> QED
    BY <2>2, <2>3, NothingAssumption, SmokeAssumption
<1>5. /\ audit.review = "BLOCKED" <=> running # {}
      /\ audit.review = "REVIEW" <=> running = {} /\ failed # {}
      /\ audit.run = NoRun <=> audit.review = "CLEAR"
      /\ audit.review \in {"BLOCKED", "REVIEW", "CLEAR"}
  BY <1>2, <1>4 DEF ReviewOf
<1> HIDE DEF running, failed, completed
<1>6. /\ IsFiniteSet(running) /\ IsFiniteSet(failed) /\ IsFiniteSet(completed)
      /\ Cardinality(running) \in Nat /\ Cardinality(failed) \in Nat
      /\ Cardinality(completed) \in Nat
  BY <1>1, <1>3, FS_Subset, FS_CardinalityType
<1>7. /\ Cardinality(running) > 0 <=> running # {}
      /\ Cardinality(failed) > 0 <=> failed # {}
  BY <1>6, FS_EmptySet
<1>8. Cardinality(running) + Cardinality(failed) + Cardinality(completed) <= limit
  <2> DEFINE open == running \cup failed
  <2>1. IsFiniteSet(open) /\ Cardinality(open) = Cardinality(running) + Cardinality(failed)
    BY <1>3, <1>6, DisjointUnion
  <2>2. open \cap completed = {}
    BY <1>3
  <2> HIDE DEF open
  <2>3. Cardinality(open \cup completed) = Cardinality(open) + Cardinality(completed)
    BY <1>6, <2>1, <2>2, DisjointUnion
  <2>4. open \cup completed \subseteq seen
    BY <1>3 DEF open
  <2>5. Cardinality(open \cup completed) <= Cardinality(seen)
    BY <1>1, <2>4, FS_Subset
  <2> QED
    BY <1>1, <1>6, <2>1, <2>3, <2>5
<1>9. audit.review = "BLOCKED" <=> audit.running > 0
  BY <1>2, <1>5, <1>7
<1>10. audit.review = "REVIEW" <=> audit.running = 0 /\ audit.failed > 0
  BY <1>2, <1>5, <1>6, <1>7
<1>11. audit.running + audit.failed + audit.completed <= audit.limit
  BY <1>2, <1>8
<1>12. ValidAudit(audit) /\ ValidCopy(audit)
  BY <1>5, <1>9, <1>10, <1>11 DEF ValidAudit, ValidCopy
<1> QED
  BY <1>5, <1>12 DEF audit

-----------------------------------------------------------------------------
(* Who changes what.                                                        *)

\* A step beside the scripts: the surroundings, a smoke or the loop.
EnvironmentStep ==
  \/ \E d \in Decisions : RecordDecision(d) \/ SubmitElsewhere(d) \/ FillOrder(d)
  \/ ToggleKillSwitch
  \/ ClosePosition
  \/ \E id \in RunIds, status \in {"COMPLETED", "FAILED"} : HealthRun(id, status)
Outside == EnvironmentStep \/ Smoke \/ Loop

LEMMA NextSplits ==
  ASSUME [Next]_vars
  PROVE  UNCHANGED vars \/ Tick \/ Outside \/ \E c \in Checks : Command(c)
BY DEF Next, Environment, EnvironmentStep, Outside

\* A smoke takes one step after another, and only the last completes it.
LEMMA SmokeStages ==
  ASSUME Smoke
  PROVE  \/ SmokeExecute
         \/ \E stage \in {"none", "cleaned", "seeded", "rehearsed"} :
              \E seeds : SmokeStep(stage, seeds)
<1>1. CASE SmokeCleanup
  <2>1. PICK left : SmokeStep(IF left = "none" THEN "cleaned" ELSE "none", smoke.seeds)
    BY <1>1 DEF SmokeCleanup
  <2> QED
    BY <2>1
<1>2. CASE SmokeSeed
  <2>1. SmokeStep("seeded", smoke.seeds + 1) \/ SmokeStep("none", smoke.seeds)
    BY <1>2 DEF SmokeSeed
  <2> QED
    BY <2>1
<1>3. CASE SmokeRehearse
  <2>1. SmokeStep("rehearsed", smoke.seeds)
    BY <1>3 DEF SmokeRehearse
  <2> QED
    BY <2>1
<1>4. CASE SmokeFails
  <2>1. SmokeStep("none", smoke.seeds)
    BY <1>4 DEF SmokeFails
  <2> QED
    BY <2>1
<1> QED
  BY <1>1, <1>2, <1>3, <1>4 DEF Smoke

\* They leave clock, files and invocations alone, and disturb a quiet check.
Disturbing == UNCHANGED <<clock, file, check>> /\ quiet' = Disturbed

LEMMA OutsideDisturbs == ASSUME Outside PROVE Disturbing
<1>1. CASE EnvironmentStep
  BY <1>1 DEF EnvironmentStep, RecordDecision, SubmitElsewhere, FillOrder,
     ToggleKillSwitch, ClosePosition, HealthRun, Beside, Disturbing
<1>2. CASE Smoke
  <2>1. \E stage, seeds : SmokeStep(stage, seeds)
    <3>1. SmokeExecute => SmokeStep("done", smoke.seeds)
      BY Zenon DEF SmokeExecute
    <3> QED
      BY <1>2, <3>1, SmokeStages
  <2> QED
    BY <2>1 DEF SmokeStep, Disturbing
<1>3. CASE Loop
  BY <1>3 DEF Loop, Arm, Select, Start, Preflight, Journal, Post, Observe,
     Complete, Stop, Crash, LoopStep, Beside, Disturbing
<1> QED
  BY <1>1, <1>2, <1>3 DEF Outside

\* A step of an invocation begins it, reads, or ends a command.
LEMMA CommandForms ==
  ASSUME NEW c \in Checks, Command(c)
  PROVE  \/ \E script \in Scripts[c] :
              BeginFirstOrder(c, script) \/ BeginPostOrder(c, script) \/ BeginOne(c, script)
         \/ \E stage, seen : Read(c, stage, seen)
         \/ \E good : Return(c, good)
BY DEF Command, KillSwitchState, OrderPlan, LoadPlan, HashPlan, CheckPlan,
   WriteReadiness, LoopAudit, DeployCheck, BeginOpsReport, ReadQueue,
   WriteOpsReport, Verify, FirstOrderReview, Leave

\* What the ledger of orders and runs, and the loop, hold.
ledger == <<database, smoke, loop>>

LEMMA CommandKeepsLedger ==
  ASSUME NEW c \in Checks, Command(c)
  PROVE  UNCHANGED ledger /\ UNCHANGED clock
BY CommandForms DEF BeginFirstOrder, BeginPostOrder, BeginOne, Begin, Read,
   Return, ledger

-----------------------------------------------------------------------------
(* Types of the ledger.                                                     *)

LedgerTyped ==
  /\ recorded \subseteq Decisions
  /\ order \in [Decisions -> Orders]
  /\ killSwitch \in [active: BOOLEAN, since: 0..MaxEvents]
  /\ runs \in Seq(RunRows)
  /\ lots \in Nat /\ positionRow \in Nat
  /\ smoke \in [stage: {"none", "cleaned", "seeded", "rehearsed", "done"},
               seeds: 0..MaxSmokes]
  /\ LoopTyped

LEMMA Constants ==
  /\ Rehearsed \in Decisions /\ NoDecision \notin Decisions
  /\ NoRun \notin RunIds /\ SmokeRun \notin RunIds /\ SmokeRun # NoRun
  /\ NoDecision \in Nat
BY DecisionsAssumption, NothingAssumption, SmokeAssumption DEF NoDecision

LEMMA LimitsPositive == AuditLimits \subseteq Nat \ {0}
BY DEF AuditLimits

LEMMA RunsTyped ==
  ASSUME runs \in Seq(RunRows)
  PROVE  /\ Len(runs) \in Nat /\ DOMAIN runs = 1..Len(runs)
         /\ \A i \in 1..Len(runs) : runs[i] \in RunRows
BY LenProperties, ElementOfSeq

\* A new row of live_loop_runs.
LEMMA NewRow ==
  ASSUME runs \in Seq(RunRows), NEW row \in RunRows, runs' = Append(runs, row)
  PROVE  /\ runs' \in Seq(RunRows) /\ Len(runs') = Len(runs) + 1
         /\ \A i \in 1..Len(runs) : runs'[i] = runs[i]
         /\ runs'[Len(runs) + 1] = row
BY AppendProperties

LEMMA RowTyped ==
  ASSUME NEW id \in RunIds \cup {SmokeRun},
         NEW status \in {"RUNNING", "FAILED", "COMPLETED"}, NEW bound \in Nat \ {0},
         NEW decision \in Decisions \cup {NoDecision}
  PROVE  Row(id, status, bound, decision) \in RunRows
BY DEF Row, RunRows

\* The loop's row changes in status and outcome.
LEMMA ClosedRow ==
  ASSUME runs \in Seq(RunRows), NEW row \in 1..Len(runs),
         NEW status \in {"RUNNING", "FAILED", "COMPLETED"},
         NEW outcome \in {"none", "already", "submitted"},
         runs' = [runs EXCEPT ![row].status = status, ![row].outcome = outcome]
  PROVE  /\ runs' \in Seq(RunRows) /\ Len(runs') = Len(runs)
         /\ \A i \in 1..Len(runs) : i # row => runs'[i] = runs[i]
         /\ runs'[row].status = status /\ runs'[row].outcome = outcome
         /\ runs'[row].id = runs[row].id /\ runs'[row].decision = runs[row].decision
<1> DEFINE e == [runs[row] EXCEPT !.status = status, !.outcome = outcome]
<1>1. runs[row] \in RunRows
  BY RunsTyped
<1>2. e \in RunRows /\ e.status = status /\ e.outcome = outcome
      /\ e.id = runs[row].id /\ e.decision = runs[row].decision
  BY <1>1 DEF RunRows
<1>3. runs' = [runs EXCEPT ![row] = e]
  OBVIOUS
<1> HIDE DEF e
<1>4. /\ runs' \in Seq(RunRows) /\ Len(runs') = Len(runs)
      /\ \A i \in 1..Len(runs) : runs'[i] = IF i = row THEN e ELSE runs[i]
  BY <1>2, <1>3, ExceptSeq
<1> QED
  BY <1>2, <1>4

LEMMA FailedRow ==
  ASSUME runs \in Seq(RunRows), NEW row \in 1..Len(runs),
         runs' = [runs EXCEPT ![row].status = "FAILED"]
  PROVE  /\ runs' \in Seq(RunRows) /\ Len(runs') = Len(runs)
         /\ \A i \in 1..Len(runs) : i # row => runs'[i] = runs[i]
         /\ runs'[row].outcome = runs[row].outcome
<1> DEFINE e == [runs[row] EXCEPT !.status = "FAILED"]
<1>1. runs[row] \in RunRows
  BY RunsTyped
<1>2. e \in RunRows /\ e.outcome = runs[row].outcome
  BY <1>1 DEF RunRows
<1>3. runs' = [runs EXCEPT ![row] = e]
  OBVIOUS
<1> HIDE DEF e
<1> QED
  BY <1>2, <1>3, ExceptSeq

LEMMA IdleLoopTyped == ASSUME runs \in Seq(RunRows)', loop' = NoLoop PROVE LoopTyped'
<1>1. Len(runs') \in Nat
  BY LenProperties
<1>2. 0 \in 0..Len(runs')
  BY <1>1
<1> QED
  BY <1>2 DEF LoopTyped, NoLoop

LEMMA EnvironmentTyped == ASSUME TypeOK, EnvironmentStep PROVE LedgerTyped'
<1> USE DEF Beside
<1>0. LedgerTyped /\ clock \in Times
  BY DEF TypeOK, LedgerTyped
<1>1. ASSUME NEW d \in Decisions, RecordDecision(d) PROVE LedgerTyped'
  BY <1>0, <1>1 DEF RecordDecision, LedgerTyped, LoopTyped
<1>2. ASSUME NEW d \in Decisions, SubmitElsewhere(d) PROVE LedgerTyped'
  <2>1. order' \in [Decisions -> Orders]
    BY <1>0, <1>2 DEF SubmitElsewhere, LedgerTyped, Orders
  <2> QED
    BY <1>0, <1>2, <2>1 DEF SubmitElsewhere, LedgerTyped, LoopTyped
<1>3. ASSUME NEW d \in Decisions, FillOrder(d) PROVE LedgerTyped'
  <2>1. order' \in [Decisions -> Orders]
    BY <1>0, <1>3 DEF FillOrder, LedgerTyped, Orders
  <2> QED
    BY <1>0, <1>3, <2>1 DEF FillOrder, LedgerTyped, LoopTyped
<1>4. CASE ToggleKillSwitch
  <2>1. killSwitch.since + 1 \in 0..MaxEvents
    BY <1>0, <1>4, BoundsAssumption DEF ToggleKillSwitch, LedgerTyped
  <2> QED
    BY <1>0, <1>4, <2>1 DEF ToggleKillSwitch, LedgerTyped, LoopTyped
<1>5. CASE ClosePosition
  BY <1>0, <1>5 DEF ClosePosition, LedgerTyped, LoopTyped
<1>6. ASSUME NEW id \in RunIds, NEW status \in {"COMPLETED", "FAILED"},
             HealthRun(id, status)
      PROVE  LedgerTyped'
  <2>1. Row(id, status, 1, NoDecision) \in RunRows
    BY RowTyped
  <2>2. runs \in Seq(RunRows) /\ runs' = Append(runs, Row(id, status, 1, NoDecision))
    BY <1>0, <1>6 DEF HealthRun, LedgerTyped
  <2>3. runs' \in Seq(RunRows) /\ Len(runs') = Len(runs) + 1 /\ Len(runs) \in Nat
    BY <2>1, <2>2, NewRow, RunsTyped
  <2>4. loop' = loop /\ loop.row \in 0..Len(runs')
    BY <1>0, <1>6, <2>3 DEF HealthRun, LedgerTyped, LoopTyped
  <2> QED
    BY <1>0, <1>6, <2>3, <2>4 DEF HealthRun, LedgerTyped, LoopTyped
<1> QED
  BY <1>1, <1>2, <1>3, <1>4, <1>5, <1>6 DEF EnvironmentStep

\* What a smoke does to the orders: that of its decision is deleted or written,
\* which the exchange does not notice, and the others are left alone.
SmokeOrdering ==
  /\ order' \in [Decisions -> Orders]
  /\ \A d \in Decisions \ {Rehearsed} : order'[d] = order[d]
  /\ order'[Rehearsed].exchange = order[Rehearsed].exchange

\* A row of an earlier smoke that says nothing any more.
Emptied(i) == runs[i].id = SmokeRun /\ runs'[i].outcome = "none"

\* What a smoke does to the rows of runs: those of earlier ones are emptied, and
\* one of its own may follow.
SmokeRows ==
  /\ runs' \in Seq(RunRows) /\ Len(runs) <= Len(runs')
  /\ \A i \in 1..Len(runs) :
       /\ runs'[i].id = runs[i].id /\ runs'[i].decision = runs[i].decision
       /\ runs'[i] = runs[i] \/ Emptied(i)
  /\ \A i \in 1..Len(runs') : i \notin 1..Len(runs) =>
       /\ runs'[i].id = SmokeRun /\ runs'[i].decision = Rehearsed
       /\ runs'[i].outcome = "submitted" => runs'[i].status = "COMPLETED"

\* It adds a row.
LEMMA SmokeAppends ==
  ASSUME runs \in Seq(RunRows), NEW status \in {"RUNNING", "FAILED", "COMPLETED"},
         NEW outcome \in {"none", "submitted"},
         outcome = "submitted" => status = "COMPLETED",
         runs' = Append(runs, [Row(SmokeRun, status, 1, Rehearsed) EXCEPT !.outcome = outcome])
  PROVE  /\ SmokeRows /\ Len(runs') = Len(runs) + 1 /\ Len(runs) \in Nat
         /\ runs'[Len(runs) + 1].id = SmokeRun
         /\ \A i \in 1..Len(runs) : runs'[i] = runs[i]
<1> DEFINE row == [Row(SmokeRun, status, 1, Rehearsed) EXCEPT !.outcome = outcome]
<1>1. /\ row \in RunRows /\ row.id = SmokeRun /\ row.decision = Rehearsed
      /\ row.status = status /\ row.outcome = outcome
  <2>1. Row(SmokeRun, status, 1, Rehearsed) \in RunRows
    BY RowTyped, Constants
  <2> QED
    BY <2>1 DEF RunRows, Row
<1>2. runs' = Append(runs, row)
  OBVIOUS
<1> HIDE DEF row
<1>3. PICK n \in Nat : n = Len(runs) + 1 /\ Len(runs) \in Nat
  BY RunsTyped
<1>4. /\ runs' \in Seq(RunRows) /\ Len(runs') = n /\ runs'[n] = row
      /\ \A i \in 1..Len(runs) : runs'[i] = runs[i]
  BY <1>1, <1>2, <1>3, NewRow
<1>5. (\A i \in 1..n : i \notin 1..Len(runs) => i = n) /\ Len(runs) <= n
  BY <1>3
<1>6. SmokeRows
  BY <1>1, <1>4, <1>5 DEF SmokeRows
<1> QED
  BY <1>1, <1>3, <1>4, <1>6

\* It adds none.
LEMMA SmokeLeavesRows == ASSUME runs \in Seq(RunRows), runs' = runs PROVE SmokeRows
BY RunsTyped DEF SmokeRows

\* It empties those of earlier ones.
LEMMA SmokeEmpties ==
  ASSUME runs \in Seq(RunRows), SmokeCleanup
  PROVE  SmokeRows
<1>1. Len(runs) \in Nat /\ DOMAIN runs = 1..Len(runs)
      /\ \A i \in 1..Len(runs) : runs[i] \in RunRows
  BY RunsTyped
<1> DEFINE Left(i) == IF runs[i].id = SmokeRun
                        THEN [runs[i] EXCEPT !.status = "DELETED", !.outcome = "none"]
                        ELSE runs[i]
<1>2. runs' = [i \in 1..Len(runs) |-> Left(i)]
  BY <1>1 DEF SmokeCleanup
<1>3. ASSUME NEW i \in 1..Len(runs)
      PROVE  /\ Left(i) \in RunRows
             /\ Left(i).id = runs[i].id /\ Left(i).decision = runs[i].decision
             /\ Left(i) = runs[i] \/ (runs[i].id = SmokeRun /\ Left(i).outcome = "none")
  BY <1>1 DEF RunRows
<1> HIDE DEF Left
<1>4. runs' \in Seq(RunRows) /\ Len(runs') = Len(runs)
  BY <1>1, <1>2, <1>3, SMTT(60)
<1>5. \A i \in 1..Len(runs) : runs'[i] = Left(i)
  BY <1>2
<1> QED
  BY <1>1, <1>3, <1>4, <1>5 DEF SmokeRows, Emptied

\* The order as a smoke journals it.
LEMMA SmokeOrderTyped ==
  ASSUME LedgerTyped, clock \in Times, NEW journal \in {"submitted", "filled"}
  PROVE  /\ SmokeOrder(journal) \in Orders
         /\ SmokeOrder(journal).journal = journal
         /\ SmokeOrder(journal).exchange = order[Rehearsed].exchange
         /\ SmokeOrder(journal).by = Len(runs) + 1
<1>1. PICK o \in Orders : o = order[Rehearsed]
  BY Constants DEF LedgerTyped
<1>2. PICK n \in Nat : n = Len(runs) + 1
  BY RunsTyped DEF LedgerTyped
<1>3. SmokeOrder(journal) = [o EXCEPT !.journal = journal, !.at = clock, !.by = n]
  BY <1>1, <1>2 DEF SmokeOrder
<1>4. [o EXCEPT !.journal = journal, !.at = clock, !.by = n] \in Orders
  BY DEF Orders
<1> QED
  BY <1>1, <1>2, <1>3, <1>4 DEF Orders

\* It writes that order, and no other.
LEMMA SmokeWrites ==
  ASSUME LedgerTyped, clock \in Times, NEW journal \in {"submitted", "filled"},
         order' = [order EXCEPT ![Rehearsed] = SmokeOrder(journal)]
  PROVE  SmokeOrdering
BY SmokeOrderTyped, Constants DEF SmokeOrdering, LedgerTyped

\* It deletes it.
LEMMA SmokeDeletes ==
  ASSUME LedgerTyped, SmokeCleanup
  PROVE  SmokeOrdering
<1>1. PICK o \in Orders : o = order[Rehearsed]
  BY Constants DEF LedgerTyped
<1>2. PICK left \in Deleted(o.journal) :
        order' = [order EXCEPT ![Rehearsed] =
          IF left = "none" THEN [@ EXCEPT !.journal = "none", !.at = 0, !.by = 0]
          ELSE [@ EXCEPT !.journal = left]]
  BY <1>1 DEF SmokeCleanup
<1>3. left \in {"none", "submitted", "open", "filled"}
  BY <1>1, <1>2 DEF Deleted, Orders
<1> DEFINE new == IF left = "none" THEN [o EXCEPT !.journal = "none", !.at = 0, !.by = 0]
                  ELSE [o EXCEPT !.journal = left]
<1>4. new \in Orders /\ new.exchange = o.exchange
  <2>1. 0 \in Times
    BY BoundsAssumption DEF Times
  <2> QED
    BY <1>3, <2>1 DEF Orders
<1>5. order' = [order EXCEPT ![Rehearsed] = new]
  BY <1>1, <1>2
<1> HIDE DEF new
<1> QED
  BY <1>1, <1>4, <1>5, Constants DEF SmokeOrdering, LedgerTyped

\* No step of a smoke does anything else to orders and rows.
LEMMA SmokeMoves ==
  ASSUME LedgerTyped, clock \in Times, Smoke
  PROVE  /\ SmokeOrdering /\ SmokeRows /\ recorded' \subseteq Decisions
         /\ positionRow' \in Nat
         /\ smoke' \in [stage: {"none", "cleaned", "seeded", "rehearsed", "done"},
                        seeds: 0..MaxSmokes]
         /\ loop' = loop /\ killSwitch' = killSwitch /\ lots' = lots
<1>0. /\ runs \in Seq(RunRows) /\ order \in [Decisions -> Orders]
      /\ recorded \subseteq Decisions /\ positionRow \in Nat
      /\ smoke.seeds \in 0..MaxSmokes /\ MaxSmokes \in Nat
  BY BoundsAssumption DEF LedgerTyped
<1>1. order' = order => SmokeOrdering
  BY <1>0, Constants DEF SmokeOrdering
<1>2. ASSUME NEW stage \in {"none", "cleaned", "seeded", "rehearsed", "done"},
             NEW seeds \in 0..MaxSmokes, SmokeStep(stage, seeds)
      PROVE  /\ smoke' \in [stage: {"none", "cleaned", "seeded", "rehearsed", "done"},
                            seeds: 0..MaxSmokes]
             /\ loop' = loop /\ killSwitch' = killSwitch /\ lots' = lots
  BY <1>2 DEF SmokeStep
<1>3. CASE SmokeCleanup
  <2>1. SmokeOrdering /\ SmokeRows
    BY <1>0, <1>3, SmokeDeletes, SmokeEmpties
  <2>2. recorded' = recorded /\ positionRow' = positionRow
        /\ \E stage \in {"cleaned", "none"} : SmokeStep(stage, smoke.seeds)
    BY <1>3 DEF SmokeCleanup
  <2> QED
    BY <1>0, <1>2, <2>1, <2>2
<1>4. CASE SmokeSeed
  <2>1. SmokeOrdering /\ SmokeRows
    BY <1>0, <1>1, <1>4, SmokeLeavesRows DEF SmokeSeed
  <2>2. recorded' \subseteq Decisions /\ positionRow' = positionRow
    BY <1>0, <1>4, Constants DEF SmokeSeed
  <2>3. \/ SmokeStep("none", smoke.seeds)
        \/ SmokeStep("seeded", smoke.seeds + 1) /\ smoke.seeds + 1 \in 0..MaxSmokes
    BY <1>0, <1>4 DEF SmokeSeed
  <2>4. CASE SmokeStep("none", smoke.seeds)
    BY <1>0, <1>2, <2>1, <2>2, <2>4
  <2>5. CASE SmokeStep("seeded", smoke.seeds + 1) /\ smoke.seeds + 1 \in 0..MaxSmokes
    BY <1>0, <1>2, <2>1, <2>2, <2>5
  <2> QED
    BY <2>3, <2>4, <2>5
<1>5. CASE SmokeRehearse
  <2>1. SmokeOrdering /\ SmokeRows
    BY <1>0, <1>1, <1>5, SmokeLeavesRows DEF SmokeRehearse
  <2>2. recorded' = recorded /\ positionRow' = positionRow /\ SmokeStep("rehearsed", smoke.seeds)
    BY <1>5 DEF SmokeRehearse
  <2> QED
    BY <1>0, <1>2, <2>1, <2>2
<1>6. CASE SmokeExecute
  <2>1. /\ order' = [order EXCEPT ![Rehearsed] = SmokeOrder("filled")]
        /\ runs' = Append(runs, [Row(SmokeRun, "COMPLETED", 1, Rehearsed)
                                   EXCEPT !.outcome = "submitted"])
        /\ recorded' = recorded /\ positionRow' = 1 /\ SmokeStep("done", smoke.seeds)
    BY <1>6 DEF SmokeExecute
  <2>2. SmokeOrdering
    BY <2>1, SmokeWrites
  <2>3. SmokeRows
    BY <1>0, <2>1, SmokeAppends
  <2> QED
    BY <1>0, <1>2, <2>1, <2>2, <2>3
<1>7. CASE SmokeFails
  <2>1. PICK status \in {"RUNNING", "FAILED"} :
          runs' = Append(runs, Row(SmokeRun, status, 1, Rehearsed))
    BY <1>7 DEF SmokeFails
  <2>2. runs' = Append(runs, [Row(SmokeRun, status, 1, Rehearsed) EXCEPT !.outcome = "none"])
    BY <2>1 DEF Row
  <2>3. SmokeRows
    BY <1>0, <2>2, SmokeAppends
  <2>4. SmokeOrdering /\ positionRow' \in Nat
    BY <1>0, <1>1, <1>7, SmokeWrites DEF SmokeFails
  <2>5. recorded' = recorded /\ SmokeStep("none", smoke.seeds)
    BY <1>7 DEF SmokeFails
  <2> QED
    BY <1>0, <1>2, <2>3, <2>4, <2>5
<1> QED
  BY <1>3, <1>4, <1>5, <1>6, <1>7 DEF Smoke

LEMMA SmokeTyped == ASSUME TypeOK, Smoke PROVE LedgerTyped'
<1>0. LedgerTyped /\ clock \in Times
  BY DEF TypeOK, LedgerTyped
<1>1. /\ SmokeOrdering /\ SmokeRows /\ loop' = loop
  BY <1>0, SmokeMoves
<1>2. LoopTyped'
  <2>1. Len(runs) \in Nat /\ Len(runs') \in Nat
    BY <1>0, <1>1, LenProperties DEF LedgerTyped, SmokeRows
  <2>2. loop.row \in 0..Len(runs')
    BY <1>0, <1>1, <2>1 DEF LedgerTyped, LoopTyped, SmokeRows
  <2> QED
    BY <1>0, <1>1, <2>2 DEF LedgerTyped, LoopTyped
<1> QED
  BY <1>0, <1>1, <1>2, SmokeMoves DEF LedgerTyped, SmokeOrdering, SmokeRows

\* A step of the loop moves its phase and keeps the rest of it.
LEMMA PhaseMoves ==
  ASSUME LoopTyped, NEW phase, LoopStep(phase)
  PROVE  /\ DOMAIN loop' = DOMAIN NoLoop /\ loop'.phase = phase
         /\ loop'.given = loop.given /\ loop'.file = loop.file
         /\ loop'.request = loop.request /\ loop'.row = loop.row
         /\ loop'.already = loop.already /\ loop'.executed = loop.executed
BY DEF LoopTyped, LoopStep, NoLoop

\* So do the steps that set one more of its fields.
LEMMA SelectMoves ==
  ASSUME LoopTyped, Select
  PROVE  /\ DOMAIN loop' = DOMAIN NoLoop /\ loop'.phase = "start"
         /\ loop'.given = loop.given /\ loop'.file = loop.file
         /\ loop'.request = [loop.request EXCEPT !.decision = Oldest]
         /\ loop'.row = loop.row
         /\ loop'.already = loop.already /\ loop'.executed = loop.executed
BY DEF LoopTyped, Select, NoLoop

LEMMA StartMoves ==
  ASSUME LoopTyped, Start
  PROVE  /\ DOMAIN loop' = DOMAIN NoLoop /\ loop'.phase = "preflight"
         /\ loop'.given = loop.given /\ loop'.file = loop.file
         /\ loop'.request = loop.request /\ loop'.row = Len(runs) + 1
         /\ loop'.already = loop.already /\ loop'.executed = loop.executed
BY DEF LoopTyped, Start, NoLoop

LEMMA ObserveMoves ==
  ASSUME LoopTyped, Observe
  PROVE  /\ DOMAIN loop' = DOMAIN NoLoop /\ loop'.phase = "complete"
         /\ loop'.given = loop.given /\ loop'.file = loop.file
         /\ loop'.request = loop.request /\ loop'.row = loop.row
         /\ loop'.already = loop.already /\ loop'.executed \in {0, 1}
BY DEF LoopTyped, Observe, NoLoop

LEMMA LoopTypedStep == ASSUME TypeOK, LoopHolds, Loop PROVE LedgerTyped'
<1>0. LedgerTyped /\ LoopTyped /\ clock \in Times /\ Oldest \in Decisions \cup {NoDecision}
  BY OldestIsPending DEF TypeOK, LedgerTyped
<1>1. Len(runs) \in Nat /\ loop.row \in 0..Len(runs) /\ loop.row \in Nat
  BY <1>0, RunsTyped DEF LedgerTyped, LoopTyped
<1>2. ASSUME NEW given \in Handoffs, NEW request \in Requests, Arm(given, request)
      PROVE  LedgerTyped'
  <2>1. UNCHANGED <<database, smoke>>
    BY <1>2 DEF Arm, Beside
  <2>2. given \subseteq AllFiles /\ request \in Flags
    BY HandoffsAssumption, RequestsAssumption
  <2>3. loop'.request \in Flags
    BY <1>2, <2>2 DEF Arm, Flags, NoLoop
  <2>4. /\ DOMAIN loop' = DOMAIN NoLoop /\ DOMAIN loop'.file = AllFiles
        /\ loop'.phase \in {"select", "start"} /\ loop'.given = given
        /\ loop'.row = 0 /\ loop'.already = FALSE /\ loop'.executed = 0
    BY <1>2 DEF Arm, NoLoop
  <2>5. LoopTyped'
    <3>1. 0 \in 0..Len(runs) /\ runs' = runs
      BY <1>1, <2>1 DEF database
    <3> QED
      BY <2>2, <2>3, <2>4, <3>1 DEF LoopTyped
  <2> QED
    BY <1>0, <2>1, <2>5 DEF LedgerTyped, database
<1>3. CASE Select
  <2>1. UNCHANGED <<database, smoke>>
    BY <1>3 DEF Select, Beside
  <2>2. loop.request \in Flags
    BY <1>0, <1>3 DEF Select, LoopTyped
  <2>3. loop'.request \in Flags
    BY <1>0, <1>3, <2>2, SelectMoves DEF Flags
  <2>4. LoopTyped'
    BY <1>0, <1>3, <2>1, <2>3, SelectMoves DEF LoopTyped, database
  <2> QED
    BY <1>0, <2>1, <2>4 DEF LedgerTyped, database
<1>4. CASE Start
  <2> DEFINE row == Row(loop.request.run, "RUNNING", loop.request.bound,
                        loop.request.decision)
  <2>1. loop.request \in Flags
    BY <1>0, <1>4 DEF Start, LoopTyped
  <2>2. row \in RunRows
    BY <2>1, RowTyped DEF Flags
  <2>3. runs \in Seq(RunRows) /\ runs' = Append(runs, row)
    BY <1>0, <1>4 DEF Start, LedgerTyped
  <2> HIDE DEF row
  <2>4. runs' \in Seq(RunRows) /\ Len(runs') = Len(runs) + 1
    BY <2>2, <2>3, NewRow
  <2>5. Len(runs) + 1 \in 0..Len(runs')
    BY <1>1, <2>4
  <2>6. LoopTyped'
    BY <1>0, <1>4, <2>1, <2>5, StartMoves DEF LoopTyped
  <2> QED
    BY <1>0, <1>4, <2>4, <2>6 DEF Start, Beside, LedgerTyped
<1>5. CASE Preflight
  <2>1. LoopTyped'
    BY <1>0, <1>5, PhaseMoves DEF Preflight, LoopTyped
  <2> QED
    BY <1>0, <1>5, <2>1 DEF Preflight, LoopStep, Beside, LedgerTyped
<1>6. CASE Journal
  <2>1. order' \in [Decisions -> Orders]
    <3>1. PICK d \in Decisions : d = loop.request.decision
      BY <1>6 DEF Journal, LoopHolds
    <3>2. order \in [Decisions -> Orders]
      BY <1>0 DEF LedgerTyped
    <3>3. CASE order' = order
      BY <3>2, <3>3
    <3>4. CASE order' = [order EXCEPT ![d].journal = "submitted", ![d].at = clock,
                                     ![d].by = loop.row]
      <4>1. [order[d] EXCEPT !.journal = "submitted", !.at = clock, !.by = loop.row] \in Orders
        BY <1>0, <1>1, <3>2 DEF Orders
      <4> QED
        BY <3>2, <3>4, <4>1
    <3> QED
      BY <1>6, <3>1, <3>3, <3>4 DEF Journal
  <2>2. LoopTyped'
    <3>1. CASE LoopStep("post")
      BY <1>0, <1>6, <3>1, PhaseMoves DEF Journal, LoopTyped
    <3>2. CASE loop' = [loop EXCEPT !.phase = "observe", !.already = TRUE]
      BY <1>0, <1>6, <3>2 DEF Journal, LoopTyped, NoLoop
    <3> QED
      BY <1>6, <3>1, <3>2 DEF Journal
  <2> QED
    BY <1>0, <1>6, <2>1, <2>2 DEF Journal, LoopStep, Beside, LedgerTyped
<1>7. CASE Post
  <2>1. order' \in [Decisions -> Orders] /\ lots' \in Nat
    <3>1. PICK taken \in {"open", "filled"} :
            /\ order' = [order EXCEPT ![loop.request.decision].exchange = taken]
            /\ lots' = IF taken = "filled" THEN lots + 1 ELSE lots
      BY <1>7 DEF Post
    <3>2. order \in [Decisions -> Orders] /\ lots \in Nat
      BY <1>0 DEF LedgerTyped
    <3>3. loop.request.decision \in Decisions
      BY <1>7 DEF Post, LoopHolds
    <3>4. order' \in [Decisions -> Orders]
      BY <3>1, <3>2, <3>3 DEF Orders
    <3> QED
      BY <3>1, <3>2, <3>4
  <2>2. LoopTyped'
    BY <1>0, <1>7, PhaseMoves DEF Post, LoopTyped
  <2> QED
    BY <1>0, <1>7, <2>1, <2>2 DEF Post, LoopStep, Beside, LedgerTyped
<1>8. CASE Observe
  <2>1. order' \in [Decisions -> Orders]
    <3>1. loop.request.decision \in Decisions
      BY <1>8 DEF Observe, LoopHolds
    <3>2. order[loop.request.decision].exchange \in {"open", "filled"}
      BY <1>0, <1>8, <3>1 DEF Observe, LedgerTyped, Orders
    <3> QED
      BY <1>0, <1>8, <3>1, <3>2 DEF Observe, LedgerTyped, Orders
  <2>2. LoopTyped'
    BY <1>0, <1>8, ObserveMoves DEF Observe, LoopTyped
  <2> QED
    BY <1>0, <1>8, <2>1, <2>2 DEF Observe, Beside, LedgerTyped
<1>9. CASE Complete
  <2> DEFINE outcome == IF loop.already THEN "already" ELSE "submitted"
  <2>1. loop.row \in 1..Len(runs)
    BY <1>1, <1>9 DEF Complete, LoopHolds
  <2>2. outcome \in {"none", "already", "submitted"}
    OBVIOUS
  <2>3. runs' = [runs EXCEPT ![loop.row].status = "COMPLETED", ![loop.row].outcome = outcome]
    BY <1>9, SMTT(60) DEF Complete
  <2> HIDE DEF outcome
  <2>4. runs' \in Seq(RunRows)
    BY <1>0, <2>1, <2>2, <2>3, ClosedRow DEF LedgerTyped
  <2>5. LoopTyped'
    BY <1>9, <2>4, IdleLoopTyped DEF Complete
  <2> QED
    BY <1>0, <1>9, <2>4, <2>5 DEF Complete, Beside, LedgerTyped
<1>10. CASE Stop
  <2>1. runs' \in Seq(RunRows)
    <3>1. CASE loop.row = 0
      BY <1>0, <1>10, <3>1 DEF Stop, LedgerTyped
    <3>2. CASE loop.row # 0
      <4>1. loop.row \in 1..Len(runs)
        BY <1>1, <3>2
      <4> QED
        BY <1>0, <1>10, <3>2, <4>1, FailedRow DEF Stop, LedgerTyped
    <3> QED
      BY <3>1, <3>2
  <2>2. LoopTyped'
    BY <1>10, <2>1, IdleLoopTyped DEF Stop
  <2> QED
    BY <1>0, <1>10, <2>1, <2>2 DEF Stop, Beside, LedgerTyped
<1>11. CASE Crash
  <2>1. UNCHANGED <<database, smoke>> /\ loop' = NoLoop
    BY <1>11 DEF Crash, Beside
  <2>2. LoopTyped'
    BY <1>0, <2>1, IdleLoopTyped DEF LedgerTyped, database
  <2> QED
    BY <1>0, <2>1, <2>2 DEF LedgerTyped, database
<1> QED
  BY <1>2, <1>3, <1>4, <1>5, <1>6, <1>7, <1>8, <1>9, <1>10, <1>11 DEF Loop

-----------------------------------------------------------------------------
(* Orders and rows only move forward.                                       *)

\* A journaled order keeps its run and its time,
JournalForward(d) ==
  order[d].journal # "none" =>
    /\ order'[d].journal # "none"
    /\ order'[d].by = order[d].by /\ order'[d].at = order[d].at

\* and what the exchange has taken or filled stays so.
ExchangeForward(d) ==
  /\ order[d].exchange # "none" => order'[d].exchange # "none"
  /\ order[d].exchange = "filled" => order'[d].exchange = "filled"

\* A smoke may only undo what is journaled of its own decision.
OrderForward(d) == (d # Rehearsed => JournalForward(d)) /\ ExchangeForward(d)

\* The order keeps its place in the journal and at the exchange.
OrderHolds(d) ==
  d # Rehearsed =>
    /\ order[d].exchange # "none" => order[d].journal # "none"
    /\ order[d].journal = "filled" => order[d].exchange = "filled"

\* The ledger as a step finds it.
LedgerHolds == LedgerTyped /\ JournalsHold /\ RowsHold /\ LoopHolds

\* No step but a smoke's undoes what is journaled.
AllForward == \A d \in Decisions : JournalForward(d) /\ ExchangeForward(d)

LEMMA JournalsHoldEach == JournalsHold <=> \A d \in Decisions : OrderHolds(d)
BY DEF JournalsHold, OrderHolds

LEMMA ForwardEach == ASSUME AllForward PROVE \A d \in Decisions : OrderForward(d)
BY DEF AllForward, OrderForward

\* One order changes, the others do not.
LEMMA OneOrder ==
  ASSUME JournalsHold, NEW d \in Decisions,
         \A e \in Decisions : e # d => order'[e] = order[e],
         JournalForward(d), ExchangeForward(d), OrderHolds(d)'
  PROVE  AllForward /\ JournalsHold'
<1>1. \A e \in Decisions : OrderHolds(e)
  BY JournalsHoldEach
<1>2. \A e \in Decisions : e # d => JournalForward(e) /\ ExchangeForward(e) /\ OrderHolds(e)'
  BY <1>1 DEF JournalForward, ExchangeForward, OrderHolds
<1>3. \A e \in Decisions : OrderHolds(e)'
  BY <1>2
<1>4. JournalsHold'
  BY <1>3 DEF JournalsHold, OrderHolds
<1> QED
  BY <1>2, <1>4 DEF AllForward

LEMMA SameOrders ==
  ASSUME JournalsHold, order' = order
  PROVE  AllForward /\ JournalsHold'
BY DEF JournalsHold, AllForward, JournalForward, ExchangeForward

LEMMA EnvironmentOrders ==
  ASSUME LedgerHolds, clock \in Times, EnvironmentStep
  PROVE  AllForward /\ JournalsHold'
<1>0. order \in [Decisions -> Orders] /\ JournalsHold
  BY DEF LedgerHolds, LedgerTyped
<1>1. ASSUME NEW d \in Decisions, SubmitElsewhere(d)
      PROVE  AllForward /\ JournalsHold'
  <2>1. /\ order[d].journal = "none" /\ order[d].exchange = "none"
        /\ order'[d] = [journal |-> "filled", exchange |-> "filled", at |-> clock, by |-> 0]
        /\ \A e \in Decisions : e # d => order'[e] = order[e]
    BY <1>0, <1>1 DEF SubmitElsewhere
  <2>2. JournalForward(d) /\ ExchangeForward(d) /\ OrderHolds(d)'
    BY <2>1 DEF JournalForward, ExchangeForward, OrderHolds
  <2> QED
    BY <1>0, <2>1, <2>2, OneOrder
<1>2. ASSUME NEW d \in Decisions, FillOrder(d)
      PROVE  AllForward /\ JournalsHold'
  <2>1. /\ order[d].exchange = "open"
        /\ order'[d].journal = order[d].journal /\ order'[d].exchange = "filled"
        /\ order'[d].at = order[d].at /\ order'[d].by = order[d].by
        /\ \A e \in Decisions : e # d => order'[e] = order[e]
    BY <1>0, <1>2 DEF FillOrder, Orders
  <2>2. d # Rehearsed => order[d].journal # "none"
    BY <1>0, <2>1 DEF JournalsHold
  <2>3. JournalForward(d) /\ ExchangeForward(d) /\ OrderHolds(d)'
    BY <2>1, <2>2 DEF JournalForward, ExchangeForward, OrderHolds
  <2> QED
    BY <1>0, <2>1, <2>3, OneOrder
<1>3. CASE order' = order
  BY <1>0, <1>3, SameOrders
<1> QED
  BY <1>1, <1>2, <1>3 DEF EnvironmentStep, RecordDecision, ToggleKillSwitch,
     ClosePosition, HealthRun

LEMMA SmokeOrders ==
  ASSUME LedgerHolds, clock \in Times, Smoke
  PROVE  (\A d \in Decisions : OrderForward(d)) /\ JournalsHold'
<1>1. SmokeOrdering /\ JournalsHold
  BY SmokeMoves DEF LedgerHolds
<1> QED
  BY <1>1 DEF SmokeOrdering, JournalsHold, OrderForward, JournalForward, ExchangeForward

LEMMA LoopOrders ==
  ASSUME LedgerHolds, clock \in Times, Loop
  PROVE  AllForward /\ JournalsHold'
<1>0. order \in [Decisions -> Orders] /\ JournalsHold /\ LoopHolds
  BY DEF LedgerHolds, LedgerTyped
<1>1. CASE Journal
  <2>0. PICK d \in Decisions : d = loop.request.decision
    BY <1>0, <1>1 DEF Journal, LoopHolds
  <2>1. CASE order' = order
    BY <1>0, <2>1, SameOrders
  <2>2. CASE /\ order[d].journal = "none"
             /\ order' = [order EXCEPT ![d].journal = "submitted", ![d].at = clock,
                                      ![d].by = loop.row]
    <3>1. /\ order'[d].journal = "submitted"
          /\ order'[d].exchange = order[d].exchange
          /\ \A e \in Decisions : e # d => order'[e] = order[e]
      BY <1>0, <2>2 DEF Orders
    <3>2. JournalForward(d) /\ ExchangeForward(d) /\ OrderHolds(d)'
      BY <2>2, <3>1 DEF JournalForward, ExchangeForward, OrderHolds
    <3> QED
      BY <1>0, <3>1, <3>2, OneOrder
  <2> QED
    BY <1>1, <2>0, <2>1, <2>2 DEF Journal
<1>2. CASE Post
  <2>0. PICK d \in Decisions : d = loop.request.decision
    BY <1>0, <1>2 DEF Post, LoopHolds
  <2>1. /\ order[d].exchange = "none"
        /\ d # Rehearsed => order[d].journal = "submitted"
    BY <1>0, <1>2, <2>0 DEF Post, LoopHolds
  <2>2. PICK taken \in {"open", "filled"} : order' = [order EXCEPT ![d].exchange = taken]
    BY <1>2, <2>0 DEF Post
  <2>3. /\ order'[d].journal = order[d].journal
        /\ order'[d].at = order[d].at /\ order'[d].by = order[d].by
        /\ \A e \in Decisions : e # d => order'[e] = order[e]
    BY <1>0, <2>2 DEF Orders
  <2>4. JournalForward(d) /\ ExchangeForward(d) /\ OrderHolds(d)'
    BY <2>1, <2>3 DEF JournalForward, ExchangeForward, OrderHolds
  <2> QED
    BY <1>0, <2>3, <2>4, OneOrder
<1>3. CASE Observe
  <2>0. PICK d \in Decisions : d = loop.request.decision
    BY <1>0, <1>3 DEF Observe, LoopHolds
  <2>1. order[d].exchange # "none"
        /\ order' = [order EXCEPT ![d].journal = order[d].exchange]
    BY <1>3, <2>0 DEF Observe
  <2>2. /\ order'[d].journal = order[d].exchange
        /\ order'[d].exchange = order[d].exchange
        /\ order'[d].at = order[d].at /\ order'[d].by = order[d].by
        /\ \A e \in Decisions : e # d => order'[e] = order[e]
    BY <1>0, <2>1 DEF Orders
  <2>3. JournalForward(d) /\ ExchangeForward(d) /\ OrderHolds(d)'
    BY <2>1, <2>2 DEF JournalForward, ExchangeForward, OrderHolds
  <2> QED
    BY <1>0, <2>2, <2>3, OneOrder
<1>4. CASE order' = order
  BY <1>0, <1>4, SameOrders
<1> QED
  BY <1>1, <1>2, <1>3, <1>4 DEF Loop, Arm, Select, Start, Preflight, Complete,
     Stop, Crash, LoopStep, Beside, database

LEMMA OrdersForward ==
  ASSUME LedgerHolds, clock \in Times, Outside
  PROVE  (\A d \in Decisions : OrderForward(d)) /\ JournalsHold'
BY EnvironmentOrders, SmokeOrders, LoopOrders, ForwardEach DEF Outside

\* A row keeps its run and its decision, and changes only if it is the loop's
\* or an earlier smoke's.
RowForward(i) ==
  /\ i \in 1..Len(runs')
  /\ runs'[i].id = runs[i].id /\ runs'[i].decision = runs[i].decision
  /\ i # loop.row => runs'[i] = runs[i] \/ Emptied(i)

LEMMA RunsForward ==
  ASSUME LedgerHolds, clock \in Times, Outside
  PROVE  \A i \in 1..Len(runs) : RowForward(i)
<1>0. runs \in Seq(RunRows) /\ Len(runs) \in Nat /\ loop.row \in 0..Len(runs) /\ LoopHolds
  BY RunsTyped DEF LedgerHolds, LedgerTyped, LoopTyped
<1>1. ASSUME NEW row \in RunRows, runs' = Append(runs, row)
      PROVE  \A i \in 1..Len(runs) : RowForward(i)
  BY <1>0, <1>1, NewRow DEF RowForward
<1>2. CASE runs' = runs
  BY <1>2 DEF RowForward
<1>3. CASE EnvironmentStep
  <2>1. ASSUME NEW id \in RunIds, NEW status \in {"COMPLETED", "FAILED"},
               HealthRun(id, status)
        PROVE  \A i \in 1..Len(runs) : RowForward(i)
    <3>1. Row(id, status, 1, NoDecision) \in RunRows
      BY RowTyped
    <3> QED
      BY <1>1, <2>1, <3>1 DEF HealthRun
  <2> QED
    BY <1>2, <1>3, <2>1 DEF EnvironmentStep, RecordDecision, SubmitElsewhere,
       FillOrder, ToggleKillSwitch, ClosePosition
<1>4. CASE Smoke
  <2>1. SmokeRows
    BY <1>4, SmokeMoves DEF LedgerHolds
  <2>2. Len(runs') \in Nat
    BY <2>1, LenProperties DEF SmokeRows
  <2>3. \A i \in 1..Len(runs) : i \in 1..Len(runs')
    BY <1>0, <2>1, <2>2, SMTT(60) DEF SmokeRows
  <2> QED
    BY <2>1, <2>3 DEF SmokeRows, RowForward
<1>5. CASE Loop
  <2>1. CASE Start
    <3>1. loop.request \in Flags
      BY <2>1 DEF Start, LedgerHolds, LedgerTyped, LoopTyped
    <3>2. Row(loop.request.run, "RUNNING", loop.request.bound, loop.request.decision) \in RunRows
      BY <3>1, RowTyped DEF Flags
    <3> QED
      BY <1>1, <2>1, <3>2 DEF Start
  <2>2. CASE Complete
    <3>1. loop.row \in 1..Len(runs)
      BY <1>0, <2>2 DEF Complete, LoopHolds
    <3>2. PICK outcome \in {"none", "already", "submitted"} :
            runs' = [runs EXCEPT ![loop.row].status = "COMPLETED",
                                 ![loop.row].outcome = outcome]
      BY <2>2 DEF Complete
    <3>3. PICK row \in 1..Len(runs) : row = loop.row
      BY <3>1
    <3>4. /\ Len(runs') = Len(runs)
          /\ \A i \in 1..Len(runs) : i # row => runs'[i] = runs[i]
          /\ runs'[row].id = runs[row].id /\ runs'[row].decision = runs[row].decision
      BY <1>0, <3>2, <3>3, ClosedRow
    <3> QED
      BY <3>3, <3>4 DEF RowForward
  <2>3. CASE Stop /\ loop.row # 0
    <3>1. loop.row \in 1..Len(runs)
      BY <1>0, <2>3
    <3>2. runs' = [runs EXCEPT ![loop.row].status = "FAILED"]
      BY <2>3 DEF Stop
    <3>3. runs[loop.row] \in RunRows
      BY <1>0, <3>1, RunsTyped
    <3>4. /\ runs'[loop.row].id = runs[loop.row].id
          /\ runs'[loop.row].decision = runs[loop.row].decision
      BY <1>0, <3>1, <3>2, <3>3 DEF RunRows
    <3> QED
      BY <1>0, <3>1, <3>2, <3>4, FailedRow DEF RowForward
  <2> QED
    BY <1>2, <1>5, <2>1, <2>2, <2>3 DEF Loop, Arm, Select, Preflight, Journal,
       Post, Observe, Stop, Crash, LoopStep, database
<1> QED
  BY <1>3, <1>4, <1>5 DEF Outside

-----------------------------------------------------------------------------
(* Rows of runs that say they submitted.                                    *)

RowHolds(i) ==
  runs[i].outcome = "submitted" =>
    /\ runs[i].status = "COMPLETED" /\ runs[i].decision \in Decisions
    /\ runs[i].decision # Rehearsed => JournaledBy(runs[i].decision, i)
    /\ runs[i].id # SmokeRun => order[runs[i].decision].exchange # "none"

\* A row that stays as it is still says the truth, one that is emptied nothing.
LEMMA SameRowHolds ==
  ASSUME NEW i, RowHolds(i), runs'[i] = runs[i] \/ Emptied(i),
         \A d \in Decisions : OrderForward(d)
  PROVE  RowHolds(i)'
BY DEF RowHolds, JournaledBy, Emptied, OrderForward, JournalForward, ExchangeForward

\* Steps beside the loop keep its row, the rows of all but the smokes, and the
\* orders on their way but the smoke's.
LEMMA BesideLoop ==
  ASSUME LedgerHolds, clock \in Times, EnvironmentStep \/ Smoke
  PROVE  /\ loop' = loop
         /\ \A i \in 1..Len(runs) : runs'[i] = runs[i] \/ Emptied(i)
         /\ loop.row # 0 => runs'[loop.row] = runs[loop.row]
         /\ \A d \in Decisions \ {Rehearsed} :
              order[d].journal = "submitted" /\ order[d].exchange = "none"
                => order'[d] = order[d]
<1>0. /\ runs \in Seq(RunRows) /\ order \in [Decisions -> Orders]
      /\ loop.row # 0 => loop.row \in 1..Len(runs)
  <2>1. Len(runs) \in Nat /\ loop.row \in 0..Len(runs)
    BY RunsTyped DEF LedgerHolds, LedgerTyped, LoopTyped
  <2> QED
    BY <2>1 DEF LedgerHolds, LedgerTyped
<1>1. ASSUME NEW d \in Decisions, SubmitElsewhere(d) \/ FillOrder(d)
      PROVE  /\ loop' = loop /\ runs' = runs
             /\ \A e \in Decisions :
                  order[e].journal = "submitted" /\ order[e].exchange = "none"
                    => order'[e] = order[e]
  BY <1>0, <1>1 DEF SubmitElsewhere, FillOrder
<1>2. ASSUME NEW id \in RunIds, NEW status \in {"COMPLETED", "FAILED"},
             HealthRun(id, status)
      PROVE  /\ loop' = loop /\ order' = order
             /\ \A i \in 1..Len(runs) : runs'[i] = runs[i]
  <2>1. Row(id, status, 1, NoDecision) \in RunRows
    BY RowTyped
  <2>2. runs' = Append(runs, Row(id, status, 1, NoDecision))
    BY <1>2 DEF HealthRun
  <2>3. \A i \in 1..Len(runs) : runs'[i] = runs[i]
    BY <1>0, <2>1, <2>2, NewRow
  <2> QED
    BY <1>2, <2>3 DEF HealthRun
<1>3. CASE Smoke
  <2>1. SmokeOrdering /\ SmokeRows /\ loop' = loop
    BY <1>3, SmokeMoves DEF LedgerHolds
  <2>2. \A i \in 1..Len(runs) : runs'[i] = runs[i] \/ Emptied(i)
    BY <2>1 DEF SmokeRows
  <2>3. ASSUME loop.row # 0 PROVE runs[loop.row].id # SmokeRun
    <3>1. runs[loop.row].id = loop.request.run /\ loop.phase # "none"
      BY <2>3 DEF LedgerHolds, LoopHolds
    <3>2. loop.request.run \in RunIds
      BY <3>1 DEF LedgerHolds, LedgerTyped, LoopTyped, Flags
    <3> QED
      BY <3>1, <3>2, Constants
  <2>4. loop.row # 0 => runs'[loop.row] = runs[loop.row]
    BY <1>0, <2>2, <2>3 DEF Emptied
  <2> QED
    BY <2>1, <2>2, <2>4 DEF SmokeOrdering
<1>4. CASE UNCHANGED <<order, runs, loop>>
  BY <1>4
<1>5. CASE EnvironmentStep
  BY <1>0, <1>1, <1>2, <1>4, <1>5 DEF EnvironmentStep, RecordDecision,
     ToggleKillSwitch, ClosePosition
<1> QED
  BY <1>3, <1>5

LEMMA RowsStep ==
  ASSUME LedgerHolds, clock \in Times, Outside
  PROVE  RowsHold'
<1>0. /\ runs \in Seq(RunRows) /\ Len(runs) \in Nat /\ loop.row \in 0..Len(runs)
      /\ LoopHolds /\ \A i \in 1..Len(runs) : RowHolds(i)
  BY RunsTyped DEF LedgerHolds, LedgerTyped, LoopTyped, RowsHold, RowHolds
<1>1. /\ \A d \in Decisions : OrderForward(d)
      /\ \A i \in 1..Len(runs) : RowForward(i)
  BY OrdersForward, RunsForward
<1>2. \A i \in 1..Len(runs) : i # loop.row => RowHolds(i)'
  BY <1>0, <1>1, SameRowHolds DEF RowForward
<1>3. SUFFICES \A i \in DOMAIN runs' : RowHolds(i)'
  BY DEF RowsHold, RowHolds
<1>4. CASE EnvironmentStep \/ Smoke
  <2>1. \A i \in 1..Len(runs) : RowHolds(i)'
    BY <1>0, <1>1, <1>4, BesideLoop, SameRowHolds
  <2>2. ASSUME NEW row \in RunRows, runs' = Append(runs, row),
               NEW n \in Nat, n = Len(runs) + 1, RowHolds(n)'
        PROVE  \A i \in DOMAIN runs' : RowHolds(i)'
    <3>1. runs' \in Seq(RunRows) /\ Len(runs') = n
      BY <1>0, <2>2, NewRow
    <3>2. DOMAIN runs' = 1..n
      BY <3>1, LenProperties
    <3>3. \A i \in 1..n : i \in 1..Len(runs) \/ i = n
      BY <1>0, <2>2
    <3> QED
      BY <2>1, <2>2, <3>2, <3>3
  <2>3. CASE runs' = runs
    BY <1>0, <2>1, <2>3, LenProperties
  <2>4. ASSUME NEW id \in RunIds, NEW status \in {"COMPLETED", "FAILED"},
               HealthRun(id, status)
        PROVE  \A i \in DOMAIN runs' : RowHolds(i)'
    <3>1. Row(id, status, 1, NoDecision) \in RunRows
      BY RowTyped
    <3>2. runs' = Append(runs, Row(id, status, 1, NoDecision))
      BY <2>4 DEF HealthRun
    <3>3. PICK n \in Nat : n = Len(runs) + 1
      BY <1>0
    <3>4. runs'[n].outcome = "none"
      BY <1>0, <3>1, <3>2, <3>3, NewRow DEF Row
    <3>5. RowHolds(n)'
      BY <3>4 DEF RowHolds
    <3> QED
      BY <2>2, <3>1, <3>2, <3>3, <3>5
  <2>5. CASE Smoke
    <3>1. SmokeRows
      BY <2>5, SmokeMoves DEF LedgerHolds
    <3>2. DOMAIN runs' = 1..Len(runs')
      BY <3>1, LenProperties DEF SmokeRows
    <3>3. ASSUME NEW i \in 1..Len(runs'), i \notin 1..Len(runs)
          PROVE  RowHolds(i)'
      <4>1. /\ runs'[i].id = SmokeRun /\ runs'[i].decision = Rehearsed
            /\ runs'[i].outcome = "submitted" => runs'[i].status = "COMPLETED"
        BY <3>1, <3>3, ZenonT(60) DEF SmokeRows
      <4> QED
        BY <4>1, Constants DEF RowHolds
    <3> QED
      BY <2>1, <3>2, <3>3
  <2> QED
    BY <1>4, <2>3, <2>4, <2>5 DEF EnvironmentStep, RecordDecision,
       SubmitElsewhere, FillOrder, ToggleKillSwitch, ClosePosition
<1>5. CASE Loop
  <2>0. PICK row \in 0..Len(runs) : row = loop.row
    BY <1>0
  <2>1. row # 0 => row \in 1..Len(runs) /\ runs[row].outcome = "none"
    BY <1>0, <2>0 DEF LoopHolds
  <2>2. ASSUME row # 0, runs'[row] = runs[row] PROVE RowHolds(row)'
    BY <2>1, <2>2 DEF RowHolds
  <2>3. CASE runs' = runs
    <3>1. \A i \in 1..Len(runs) : RowHolds(i)'
      BY <1>0, <1>1, <2>3, SameRowHolds
    <3> QED
      BY <1>0, <2>3, <3>1, LenProperties
  <2>4. CASE Start
    <3> DEFINE new == Row(loop.request.run, "RUNNING", loop.request.bound,
                          loop.request.decision)
    <3>1. loop.request \in Flags
      BY <2>4 DEF Start, LedgerHolds, LedgerTyped, LoopTyped
    <3>2. new \in RunRows /\ new.outcome = "none"
      BY <3>1, RowTyped DEF Flags, Row
    <3>3. runs' = Append(runs, new)
      BY <2>4 DEF Start
    <3> HIDE DEF new
    <3>4. PICK n \in Nat : n = Len(runs) + 1
      BY <1>0
    <3>5. runs' \in Seq(RunRows) /\ Len(runs') = n /\ runs'[n] = new
      BY <1>0, <3>2, <3>3, <3>4, NewRow
    <3>6. RowHolds(n)'
      BY <3>2, <3>5 DEF RowHolds
    <3>7. loop.row = 0
      BY <1>0, <2>4 DEF Start, LoopHolds
    <3>8. DOMAIN runs' = 1..n
      BY <3>5, LenProperties
    <3>9. \A i \in 1..n : i = n \/ (i \in 1..Len(runs) /\ i # loop.row)
      BY <1>0, <3>4, <3>7
    <3> QED
      BY <1>2, <3>6, <3>8, <3>9
  <2>5. CASE Complete
    <3>1. row \in 1..Len(runs) /\ runs[row].decision = loop.request.decision
          /\ loop.request.decision \in Decisions /\ runs[row].id = loop.request.run
          /\ (~loop.already =>
                /\ loop.request.decision # Rehearsed => order[loop.request.decision].by = row
                /\ order[loop.request.decision].exchange # "none")
      BY <1>0, <2>0, <2>1, <2>5 DEF Complete, LoopHolds
    <3>2. PICK outcome \in {"none", "already", "submitted"} :
            /\ runs' = [runs EXCEPT ![row].status = "COMPLETED", ![row].outcome = outcome]
            /\ outcome = "submitted" => ~loop.already
      BY <2>0, <2>5 DEF Complete
    <3>3. /\ runs' \in Seq(RunRows) /\ Len(runs') = Len(runs)
          /\ runs'[row].status = "COMPLETED" /\ runs'[row].outcome = outcome
          /\ runs'[row].id = runs[row].id /\ runs'[row].decision = runs[row].decision
      BY <1>0, <3>1, <3>2, ClosedRow
    <3>4. order' = order /\ JournalsHold
      BY <2>5 DEF Complete, LedgerHolds
    <3>5. RowHolds(row)'
      BY <3>1, <3>2, <3>3, <3>4 DEF RowHolds, JournaledBy, JournalsHold
    <3>6. DOMAIN runs' = 1..Len(runs)
      BY <3>3, LenProperties
    <3> QED
      BY <1>2, <2>0, <3>5, <3>6
  <2>6. CASE Stop /\ loop.row # 0
    <3>1. row \in 1..Len(runs) /\ runs[row].outcome = "none"
      BY <2>0, <2>1, <2>6
    <3>2. runs' = [runs EXCEPT ![row].status = "FAILED"]
      BY <2>0, <2>6 DEF Stop
    <3>3. runs' \in Seq(RunRows) /\ Len(runs') = Len(runs) /\ runs'[row].outcome = "none"
      BY <1>0, <3>1, <3>2, FailedRow
    <3>4. RowHolds(row)'
      BY <3>3 DEF RowHolds
    <3>5. DOMAIN runs' = 1..Len(runs)
      BY <3>3, LenProperties
    <3> QED
      BY <1>2, <2>0, <3>4, <3>5
  <2> QED
    BY <1>5, <2>3, <2>4, <2>5, <2>6 DEF Loop, Arm, Select, Preflight, Journal,
       Post, Observe, Stop, Crash, LoopStep, database
<1> QED
  BY <1>4, <1>5 DEF Outside

-----------------------------------------------------------------------------
(* The loop on its way.                                                     *)

LEMMA IdleLoopHolds == ASSUME loop' = NoLoop PROVE LoopHolds'
BY DEF LoopHolds, NoLoop

\* A step that leaves the loop, its row and its order alone.
LEMMA SameLoopHolds ==
  ASSUME LoopHolds, loop' = loop,
         loop.row # 0 => runs'[loop.row] = runs[loop.row],
         loop.request.decision \in Decisions =>
           LET d == loop.request.decision IN
           /\ d # Rehearsed /\ order[d].journal = "submitted" /\ order[d].exchange = "none"
                => order'[d] = order[d]
           /\ order[d].exchange # "none" =>
                /\ d # Rehearsed => order'[d].by = order[d].by
                /\ order'[d].exchange # "none"
  PROVE  LoopHolds'
BY DEF LoopHolds

LEMMA LoopHoldsStep ==
  ASSUME LedgerHolds, clock \in Times, Outside
  PROVE  LoopHolds'
<1>0. /\ runs \in Seq(RunRows) /\ Len(runs) \in Nat /\ loop.row \in 0..Len(runs)
      /\ order \in [Decisions -> Orders] /\ LoopTyped /\ LoopHolds /\ JournalsHold
  BY RunsTyped DEF LedgerHolds, LedgerTyped, LoopTyped
<1>1. /\ \A d \in Decisions : OrderForward(d)
      /\ \A i \in 1..Len(runs) : RowForward(i)
  BY OrdersForward, RunsForward
<1>2. CASE EnvironmentStep \/ Smoke
  <2>1. /\ loop' = loop
        /\ loop.row # 0 => runs'[loop.row] = runs[loop.row]
        /\ \A d \in Decisions \ {Rehearsed} :
             order[d].journal = "submitted" /\ order[d].exchange = "none"
               => order'[d] = order[d]
    BY <1>2, BesideLoop
  <2>2. \A d \in Decisions : order[d].exchange # "none" =>
          /\ d # Rehearsed => order'[d].by = order[d].by
          /\ order'[d].exchange # "none"
    BY <1>0, <1>1 DEF OrderForward, JournalForward, ExchangeForward, JournalsHold
  <2> QED
    BY <1>0, <2>1, <2>2, SameLoopHolds
<1>3. ASSUME NEW given \in Handoffs, NEW request \in Requests, Arm(given, request)
      PROVE  LoopHolds'
  <2>1. request \in Flags
    BY RequestsAssumption
  <2>2. loop'.row = 0 /\ (loop'.phase = "select" \/
          (loop'.phase = "start" /\ loop'.request.decision # NoDecision
             /\ loop'.request.decision \in Decisions))
    BY <1>3, <2>1 DEF Arm, Flags, NoLoop
  <2> QED
    BY <2>2 DEF LoopHolds
<1>4. CASE Select
  <2>1. Oldest \in Decisions
    <3>1. recorded \subseteq Decisions
      BY DEF LedgerHolds, LedgerTyped
    <3> QED
      BY <1>4, <3>1, OldestIsPending DEF Select
  <2>2. loop.request \in Flags /\ loop.row = 0
    BY <1>0, <1>4 DEF Select, LoopTyped, LoopHolds
  <2>3. loop'.request.decision = Oldest
    BY <1>0, <1>4, <2>2, SelectMoves DEF Flags
  <2> QED
    BY <1>0, <1>4, <2>1, <2>2, <2>3, SelectMoves DEF LoopHolds
<1>5. CASE Start
  <2> DEFINE new == Row(loop.request.run, "RUNNING", loop.request.bound,
                        loop.request.decision)
  <2>1. loop.request \in Flags /\ loop.request.decision \in Decisions
    BY <1>0, <1>5 DEF Start, LoopTyped, LoopHolds
  <2>2. /\ new \in RunRows /\ new.outcome = "none" /\ new.status = "RUNNING"
        /\ new.id = loop.request.run /\ new.decision = loop.request.decision
    BY <2>1, RowTyped DEF Flags, Row
  <2>3. runs' = Append(runs, new)
    BY <1>5 DEF Start
  <2> HIDE DEF new
  <2>4. PICK n \in Nat : n = Len(runs) + 1
    BY <1>0
  <2>5. runs'[n] = new /\ n # 0
    BY <1>0, <2>2, <2>3, <2>4, NewRow
  <2>6. loop'.phase = "preflight" /\ loop'.request = loop.request /\ loop'.row = n
    BY <1>0, <1>5, <2>4, StartMoves
  <2> QED
    BY <2>1, <2>2, <2>5, <2>6 DEF LoopHolds
<1>6. CASE Preflight
  <2>1. /\ loop'.phase = "journal" /\ loop'.request = loop.request
        /\ loop'.row = loop.row /\ runs' = runs /\ loop.phase = "preflight"
    BY <1>0, <1>6, PhaseMoves DEF Preflight
  <2> QED
    BY <1>0, <2>1 DEF LoopHolds
<1>7. CASE Journal
  <2>0. PICK d \in Decisions : d = loop.request.decision
    BY <1>0, <1>7 DEF Journal, LoopHolds
  <2>1. CASE /\ order[d].journal = "none"
             /\ order' = [order EXCEPT ![d].journal = "submitted", ![d].at = clock,
                                      ![d].by = loop.row]
             /\ LoopStep("post")
    <3>1. /\ loop'.phase = "post" /\ loop'.request = loop.request
          /\ loop'.row = loop.row /\ runs' = runs /\ loop.phase = "journal"
      BY <1>0, <1>7, <2>1, PhaseMoves DEF Journal
    <3>2. /\ order'[d].journal = "submitted" /\ order'[d].by = loop.row
          /\ order'[d].exchange = order[d].exchange
      BY <1>0, <2>1 DEF Orders
    <3>3. d # Rehearsed => order[d].exchange = "none"
      BY <1>0, <2>1 DEF JournalsHold
    <3> QED
      BY <1>0, <2>0, <3>1, <3>2, <3>3 DEF LoopHolds
  <2>2. CASE loop' = [loop EXCEPT !.phase = "observe", !.already = TRUE]
    <3>1. /\ loop'.phase = "observe" /\ loop'.request = loop.request
          /\ loop'.row = loop.row /\ runs' = runs /\ loop.phase = "journal"
          /\ loop'.already = TRUE
      BY <1>0, <1>7, <2>2 DEF Journal, LoopTyped, NoLoop
    <3> QED
      BY <1>0, <2>0, <3>1 DEF LoopHolds
  <2> QED
    BY <1>7, <2>0, <2>1, <2>2 DEF Journal
<1>8. CASE Post
  <2>0. PICK d \in Decisions : d = loop.request.decision
    BY <1>0, <1>8 DEF Post, LoopHolds
  <2>1. /\ loop'.phase = "observe" /\ loop'.request = loop.request
        /\ loop'.row = loop.row /\ runs' = runs /\ loop.phase = "post"
    BY <1>0, <1>8, PhaseMoves DEF Post
  <2>2. PICK taken \in {"open", "filled"} : order' = [order EXCEPT ![d].exchange = taken]
    BY <1>8, <2>0 DEF Post
  <2>3. order'[d].exchange # "none" /\ order'[d].by = order[d].by
    BY <1>0, <2>2 DEF Orders
  <2> QED
    BY <1>0, <2>0, <2>1, <2>3 DEF LoopHolds
<1>9. CASE Observe
  <2>0. PICK d \in Decisions : d = loop.request.decision
    BY <1>0, <1>9 DEF Observe, LoopHolds
  <2>1. /\ loop'.phase = "complete" /\ loop'.request = loop.request
        /\ loop'.row = loop.row /\ runs' = runs /\ loop.phase = "observe"
        /\ loop'.already = loop.already
    BY <1>0, <1>9, ObserveMoves DEF Observe
  <2>2. order' = [order EXCEPT ![d].journal = order[d].exchange]
    BY <1>9, <2>0 DEF Observe
  <2>3. order'[d].exchange = order[d].exchange /\ order'[d].by = order[d].by
    BY <1>0, <2>2 DEF Orders
  <2> QED
    BY <1>0, <2>0, <2>1, <2>3 DEF LoopHolds
<1>10. CASE Complete \/ Stop \/ Crash
  BY <1>10, IdleLoopHolds DEF Complete, Stop, Crash
<1> QED
  BY <1>2, <1>3, <1>4, <1>5, <1>6, <1>7, <1>8, <1>9, <1>10 DEF Outside, Loop

\* All of the ledger, over any step.
LEMMA LedgerStep ==
  ASSUME TypeOK, JournalsHold, RowsHold, LoopHolds, [Next]_vars
  PROVE  LedgerHolds'
<1>0. LedgerHolds /\ clock \in Times
  BY DEF LedgerHolds, LedgerTyped, TypeOK
<1>1. CASE Outside
  BY <1>0, <1>1, EnvironmentTyped, SmokeTyped, LoopTypedStep, OrdersForward,
     RowsStep, LoopHoldsStep DEF LedgerHolds, Outside
<1>2. CASE UNCHANGED ledger
  BY <1>0, <1>2 DEF ledger, database, LedgerHolds, LedgerTyped, LoopTyped,
     JournalsHold, RowsHold, JournaledBy, LoopHolds
<1> QED
  BY <1>1, <1>2, NextSplits, CommandKeepsLedger DEF Tick, vars, ledger

-----------------------------------------------------------------------------
(* Reviews stay true.                                                       *)

LEMMA PlanThere == ASSUME NEW plan \in Plans PROVE plan # NoFile /\ ValidPlan(plan)
BY Constants DEF Plans, NoFile, ValidPlan

\* Once the order of a plan is reviewed, no step takes that back.
LEMMA ReviewedStable ==
  ASSUME LedgerHolds, LedgerHolds', clock \in Times, [Next]_vars,
         NEW plan \in Plans, Reviewed(plan)
  PROVE  Reviewed(plan)'
<1>1. CASE Outside
  <2>1. PICK d \in Decisions : d = plan.decision
    BY DEF Plans
  <2>2. OrderForward(d) /\ order[d].exchange # "none"
    BY <1>1, <2>1, OrdersForward DEF Reviewed
  <2>3. d # Rehearsed => order[d].journal # "none"
    BY <2>2 DEF LedgerHolds, JournalsHold
  <2>4. runs \in Seq(RunRows) /\ DOMAIN runs = 1..Len(runs)
    BY LenProperties DEF LedgerHolds, LedgerTyped
  <2>5. PICK i \in 1..Len(runs) :
          /\ runs[i].id = plan.run /\ runs[i].status = "COMPLETED"
          /\ runs[i].outcome = "submitted" /\ runs[i].decision = d
          /\ d # Rehearsed => order[d].by = i
    BY <2>1, <2>4 DEF Reviewed
  <2>6. RowForward(i) /\ runs[i].id # SmokeRun
    BY <1>1, <2>5, RunsForward, Constants DEF Plans
  <2>7. i # loop.row
    BY <2>5 DEF LedgerHolds, LoopHolds
  <2>8. runs'[i] = runs[i] /\ i \in 1..Len(runs')
    BY <2>6, <2>7 DEF RowForward, Emptied
  <2>9. runs' \in Seq(RunRows)
    BY DEF LedgerHolds, LedgerTyped
  <2>10. DOMAIN runs' = 1..Len(runs')
    BY <2>9, LenProperties
  <2>11. \E j \in DOMAIN runs' :
          /\ runs'[j].id = plan.run /\ runs'[j].status = "COMPLETED"
          /\ runs'[j].outcome = "submitted" /\ runs'[j].decision = d
          /\ d # Rehearsed => order'[d].by = j
    BY <2>2, <2>3, <2>5, <2>8, <2>10 DEF OrderForward, JournalForward
  <2>12. /\ order'[d].exchange # "none"
         /\ d # Rehearsed => order'[d].exchange = "filled" /\ order'[d].at >= plan.at
    BY <2>1, <2>2, <2>3 DEF Reviewed, OrderForward, JournalForward, ExchangeForward
  <2> QED
    BY <2>1, <2>11, <2>12 DEF Reviewed
<1>2. CASE UNCHANGED ledger
  BY <1>2 DEF ledger, database, Reviewed
<1> QED
  BY <1>1, <1>2, NextSplits, CommandKeepsLedger DEF Tick, vars, ledger

\* What was earned stays earned.
Known(review) == KnownReview(review) /\ Earned(review)

LEMMA KnownStable ==
  ASSUME LedgerHolds, LedgerHolds', clock \in Times, [Next]_vars,
         NEW review, Known(review)
  PROVE  Known(review)'
<1>1. KnownReview(review)'
  BY DEF Known, KnownReview
<1>2. CASE review # NoFile /\ review.ready
  <2>1. PICK plan \in Plans : plan = review.plan
    BY <1>2 DEF Known, KnownReview
  <2>2. Reviewed(plan)'
    BY <1>2, <2>1, ReviewedStable DEF Known, Earned
  <2> QED
    BY <1>1, <2>1, <2>2 DEF Known, Earned
<1>3. CASE ~(review # NoFile /\ review.ready)
  BY <1>1, <1>3 DEF Known, Earned
<1> QED
  BY <1>2, <1>3

\* A review without a failing check is about an order that its run placed.
LEMMA ReviewEarns ==
  ASSUME LedgerHolds, NEW plan \in Plans, ReviewChecks(plan) = {}
  PROVE  Reviewed(plan)
<1>0. /\ runs \in Seq(RunRows) /\ DOMAIN runs = 1..Len(runs)
      /\ RowsHold /\ JournalsHold
      /\ \A i \in 1..Len(runs) : runs[i] \in RunRows
  BY RunsTyped DEF LedgerHolds, LedgerTyped
<1>1. RunPasses(plan) /\ IterationPasses(plan) /\ SubmissionPasses(plan) /\ StatusPasses(plan)
  <2> DEFINE failing == [plan            |-> ~PlanPasses(plan),
                         run             |-> ~RunPasses(plan),
                         iteration       |-> ~IterationPasses(plan),
                         submission      |-> ~SubmissionPasses(plan),
                         acknowledgement |-> ~AcknowledgementPasses(plan),
                         status          |-> ~StatusPasses(plan),
                         position        |-> ~PositionPasses]
  <2>1. DOMAIN failing = {"plan", "run", "iteration", "submission",
                          "acknowledgement", "status", "position"}
    OBVIOUS
  <2>2. /\ failing["run"] = ~RunPasses(plan)
        /\ failing["iteration"] = ~IterationPasses(plan)
        /\ failing["submission"] = ~SubmissionPasses(plan)
        /\ failing["status"] = ~StatusPasses(plan)
    OBVIOUS
  <2>3. \A name \in DOMAIN failing : ~failing[name]
    BY DEF ReviewChecks
  <2> HIDE DEF failing
  <2>4. ~failing["run"] /\ ~failing["iteration"] /\ ~failing["submission"] /\ ~failing["status"]
    BY <2>1, <2>3
  <2> QED
    BY <2>2, <2>4
<1>2. PICK i \in 1..Len(runs) : i \in RunsOf(plan)
  <2>1. RunsOf(plan) # {}
    <3>1. Cardinality({}) # Cardinality(RunsOf(plan))
      BY <1>1, FS_EmptySet DEF RunPasses
    <3> QED
      BY <3>1
  <2> QED
    BY <1>0, <2>1 DEF RunsOf
<1>3. PICK d \in Decisions : d = plan.decision
  BY DEF Plans
<1>4. /\ runs[i].id = plan.run /\ runs[i].status = "COMPLETED"
      /\ runs[i].outcome = "submitted" /\ runs[i].decision = d
  BY <1>1, <1>2, <1>3 DEF RunPasses, IterationPasses, RunsOf
<1>5. runs[i].id # SmokeRun
  BY <1>4, Constants DEF Plans
<1>6. order[d].exchange # "none" /\ (d # Rehearsed => order[d].by = i)
  BY <1>0, <1>4, <1>5 DEF RowsHold, JournaledBy
<1>7. d # Rehearsed => order[d].exchange = "filled" /\ order[d].at >= plan.at
  <2>1. order[d].journal = "filled" /\ order[d].at >= plan.at
    BY <1>1, <1>3 DEF StatusPasses, SubmissionPasses
  <2> QED
    BY <1>0, <1>6, <2>1 DEF JournalsHold
<1> QED
  BY <1>0, <1>3, <1>4, <1>6, <1>7 DEF Reviewed

-----------------------------------------------------------------------------
(* What a command may leave in a file.                                      *)

\* Content that fits slot s.
Fits(s, content) ==
  /\ s = "plan" => content \in Plans
  /\ s = "readiness" => ValidReadiness(content)
  /\ s = "audit" => ValidAudit(content.audit)
  /\ s = "deployCheck" => ValidDeployCheck(content) /\ ReadyMeans(content)
  /\ s = "review" => Known(content)
  /\ s \in {"opsReport", "postOps"} => ValidOpsReport(content)
  /\ s = "postOps" /\ content.status = "CLEAR" =>
       content.review # NoFile /\ content.review.ready /\ Known(content.review)
FilesFit == DOMAIN file = Slots /\ \A s \in Slots : file[s] = NoFile \/ Fits(s, file[s])

LEMMA FitsStable ==
  ASSUME LedgerHolds, LedgerHolds', clock \in Times, [Next]_vars,
         NEW s, NEW content, Fits(s, content)
  PROVE  Fits(s, content)'
<1>1. s = "review" => Known(content)'
  BY KnownStable DEF Fits
<1>2. s = "postOps" /\ content.status = "CLEAR" => Known(content.review)'
  <2>1. PICK review : review = content.review
    OBVIOUS
  <2> QED
    BY <2>1, KnownStable DEF Fits
<1> QED
  BY <1>1, <1>2 DEF Fits

LEMMA SameFilesFit ==
  ASSUME LedgerHolds, LedgerHolds', clock \in Times, [Next]_vars, FilesFit, file' = file
  PROVE  FilesFit'
BY FitsStable DEF FilesFit

LEMMA WrittenFilesFit ==
  ASSUME LedgerHolds, LedgerHolds', clock \in Times, [Next]_vars, FilesFit,
         NEW slot \in Slots, NEW content, Fits(slot, content),
         file' = [file EXCEPT ![slot] = content]
  PROVE  FilesFit'
<1>1. DOMAIN file' = Slots /\ file'[slot] = content
      /\ \A s \in Slots : s # slot => file'[s] = file[s]
  BY DEF FilesFit
<1>2. ASSUME NEW s \in Slots PROVE (file[s] = NoFile \/ Fits(s, file[s]))'
  <2>1. CASE s = slot
    BY <1>1, <2>1, FitsStable
  <2>2. CASE s # slot
    <3>1. PICK old : old = file[s]
      OBVIOUS
    <3>2. file'[s] = old /\ (old = NoFile \/ Fits(s, old))
      BY <1>1, <2>2, <3>1 DEF FilesFit
    <3> QED
      BY <3>2, FitsStable
  <2> QED
    BY <2>1, <2>2
<1> QED
  BY <1>1, <1>2 DEF FilesFit

-----------------------------------------------------------------------------
(* What the commands write.                                                 *)

\* The deployment check passes exactly when each of its five checks does.
DeployPasses(plan, readiness, audit, source, decision, now) ==
  /\ SourceHolds(plan, source, decision)
  /\ CapitalFits(plan)
  /\ AllFresh(plan, readiness, audit, now)
  /\ ReviewedReadiness(readiness)
  /\ ReadinessAdmits(readiness, plan, audit, plan.decision)

LEMMA DeployFailsEmpty ==
  ASSUME NEW plan, NEW readiness, NEW audit, NEW source, NEW decision, NEW now
  PROVE  DeployFails(plan, readiness, audit, source, decision, now) = {} <=>
           DeployPasses(plan, readiness, audit, source, decision, now)
<1> DEFINE sourced == SourceHolds(plan, source, decision)
           failing == [source    |-> ~sourced,
                       capital   |-> ~CapitalFits(plan),
                       freshness |-> ~AllFresh(plan, readiness, audit, now),
                       review    |-> ~ReviewedReadiness(readiness),
                       handoff   |-> sourced /\
                         ~ReadinessAdmits(readiness, plan, audit, plan.decision)]
           passes == DeployPasses(plan, readiness, audit, source, decision, now)
<1>1. DOMAIN failing = {"source", "capital", "freshness", "review", "handoff"}
  OBVIOUS
<1>2. /\ failing["source"] = ~sourced /\ failing["capital"] = ~CapitalFits(plan)
      /\ failing["freshness"] = ~AllFresh(plan, readiness, audit, now)
      /\ failing["review"] = ~ReviewedReadiness(readiness)
      /\ failing["handoff"] = (sourced /\
           ~ReadinessAdmits(readiness, plan, audit, plan.decision))
  OBVIOUS
<1>3. DeployFails(plan, readiness, audit, source, decision, now)
        = {name \in DOMAIN failing : failing[name]}
  BY DEF DeployFails
<1> HIDE DEF failing
<1>4. DeployFails(plan, readiness, audit, source, decision, now) = {} <=>
        \A name \in {"source", "capital", "freshness", "review", "handoff"} : ~failing[name]
  BY <1>1, <1>3
<1>5. (\A name \in {"source", "capital", "freshness", "review", "handoff"} : ~failing[name])
        <=> /\ ~failing["source"] /\ ~failing["capital"] /\ ~failing["freshness"]
            /\ ~failing["review"] /\ ~failing["handoff"]
  OBVIOUS
<1> QED
  BY <1>2, <1>4, <1>5 DEF DeployPasses

LEMMA ReadinessIsValid ==
  ASSUME NEW plan, NEW hash, NEW switch, NEW next, NEW required, NEW audit, NEW now,
         NEW fails \in SUBSET {"plan"}, ValidCopy(audit),
         plan # NoFile /\ hash # NoFile, ValidPlan(plan)
  PROVE  ValidReadiness(ReadinessOf(plan, hash, switch, next, required, audit, fails, now))
<1> DEFINE checks == ReadinessChecks(switch, next, required, audit, fails)
           report == ReadinessOf(plan, hash, switch, next, required, audit, fails, now)
<1>1. checks.failed \cap checks.warned = {}
  BY DEF ReadinessChecks, KillSwitchFails, PendingFails, PendingWarns, AuditFails, AuditWarns
<1>2. /\ report.plan = plan /\ report.hash = hash /\ report.audit = audit
      /\ report.failed = checks.failed /\ report.warned = checks.warned
  BY DEF ReadinessOf
<1> HIDE DEF checks, report
<1>3. ValidReadiness(report)
  BY <1>1, <1>2 DEF ValidReadiness, OneStatus, ValidPlanFile
<1> QED
  BY <1>3 DEF report

LEMMA DeployCheckIsValid ==
  ASSUME NEW plan \in Plans, NEW readiness, NEW audit, NEW source \in Sources,
         NEW decision, NEW now, readiness # NoFile, audit # NoFile
  PROVE  LET report == DeployCheckOf(plan, readiness, audit, source, decision, now) IN
         /\ ValidDeployCheck(report) /\ ReadyMeans(report)
         /\ report # NoFile
<1> DEFINE report == DeployCheckOf(plan, readiness, audit, source, decision, now)
           fails == DeployFails(plan, readiness, audit, source, decision, now)
           passes == DeployPasses(plan, readiness, audit, source, decision, now)
<1>1. fails = {} <=> passes
  BY DeployFailsEmpty
<1>2. /\ report.plan = plan /\ report.readiness = readiness /\ report.audit = audit
      /\ report.source = source /\ report.warned = {} /\ report.failed = fails
      /\ report.selected = (IF SourceHolds(plan, source, decision)
                              THEN plan.decision ELSE NoDecision)
      /\ DOMAIN report = {"plan", "readiness", "audit", "source", "selected", "at",
                          "warned", "failed"}
  BY DEF DeployCheckOf
<1> HIDE DEF report, fails
<1>3. passes => /\ SourceHolds(plan, source, decision) /\ CapitalFits(plan)
                /\ ReviewedReadiness(readiness)
  BY DEF DeployPasses
<1> HIDE DEF passes
<1>4. plan.source \in Sources /\ plan.decision # NoDecision
  BY Constants DEF Plans
<1>5. report # NoFile
  <2>1. "plan" \in DOMAIN report /\ "plan" \notin DOMAIN NoFile
    BY <1>2 DEF NoFile
  <2> QED
    BY <2>1
<1>6. ValidDeployCheck(report)
  BY <1>1, <1>2, <1>3, <1>4 DEF ValidDeployCheck, OneStatus, ValidCheckedFiles,
     ValidExecution, Ready
<1>7. ReadyMeans(report)
  BY <1>1, <1>2, <1>3 DEF ReadyMeans, Ready
<1> QED
  BY <1>5, <1>6, <1>7 DEF report

LEMMA OpsReportIsValid ==
  ASSUME NEW switch, NEW next, NEW allowIdle, NEW audit, NEW review, NEW now,
         ValidCopy(audit), review # NoFile => ValidReview(review), NEW report,
         report = OpsReportOf(switch, next, allowIdle, FALSE, audit, review, now)
  PROVE  ValidOpsReport(report)
<1> DEFINE failed == OpsFails(switch, allowIdle, FALSE, audit, review, now)
           warned == OpsWarns(next, allowIdle, audit)
<1>1. failed \cap warned = {}
  BY DEF OpsFails, OpsWarns, KillSwitchFails, AuditFails, ReviewFails, PendingWarns, AuditWarns
<1>2. /\ report.review = review /\ report.audit = audit
      /\ report.failed = failed /\ report.warned = warned
      /\ report.status = OpsStatus(failed, warned)
  BY DEF OpsReportOf
<1> HIDE DEF failed, warned
<1> QED
  BY <1>1, <1>2 DEF ValidOpsReport, OneStatus, ValidOpsReview
-----------------------------------------------------------------------------
(* Every command leaves what fits.                                          *)

Leaves(slot, content) == Fits(slot, content) /\ file' = [file EXCEPT ![slot] = content]
LeavesFit == file' = file \/ \E slot \in Slots : \E content : Leaves(slot, content)

\* What a running invocation has at hand.
RunningHolds(c) ==
  CheckTyped(c) /\ SeenHolds(c) /\ Known(check[c].seen.review)

LEMMA KillSwitchStateFits ==
  ASSUME NEW c, KillSwitchState(c) PROVE LeavesFit
<1> DEFINE content == KillSwitchFileOf(killSwitch, clock)
<1>1. file' = [file EXCEPT !["killSwitch"] = content]
  BY DEF KillSwitchState, Leave
<1> HIDE DEF content
<1>2. "killSwitch" \in Slots /\ Fits("killSwitch", content)
  BY DEF Slots, Fits
<1> QED
  BY <1>1, <1>2 DEF LeavesFit, Leaves

LEMMA BornTyped == ASSUME LedgerTyped PROVE \A d \in Decisions : Born[d] \in 0..MaxSmokes
BY BoundsAssumption DEF LedgerTyped, Born

LEMMA OrderPlanFits ==
  ASSUME LedgerHolds, clock \in Times, NEW c, CheckTyped(c), OrderPlan(c)
  PROVE  LeavesFit
<1>1. PICK request \in Flags : request = check[c].request
  BY DEF CheckTyped, OrderPlan, At
<1>2. PICK d : d = PlannedDecision(request)
  OBVIOUS
<1>3. CASE d \in recorded
  <2> DEFINE content == PlanOf(request.source, d, request.run, Born[d], clock)
  <2>1. d \in Decisions /\ Born[d] \in 0..MaxSmokes
    BY <1>3, BornTyped DEF LedgerHolds, LedgerTyped
  <2>2. content \in Plans
    BY <1>1, <2>1 DEF PlanOf, Plans, Flags
  <2>3. file' = [file EXCEPT !["plan"] = content]
    BY <1>1, <1>2, <1>3 DEF OrderPlan, Leave
  <2> HIDE DEF content
  <2>4. "plan" \in Slots /\ Fits("plan", content)
    BY <2>2 DEF Slots, Fits
  <2> QED
    BY <2>3, <2>4 DEF LeavesFit, Leaves
<1>4. CASE d \notin recorded
  BY <1>1, <1>2, <1>4 DEF OrderPlan, LeavesFit
<1> QED
  BY <1>3, <1>4

LEMMA WriteReadinessFits ==
  ASSUME LedgerHolds, clock \in Times, NEW c, RunningHolds(c), WriteReadiness(c)
  PROVE  LeavesFit
<1>1. PICK request \in Flags : request = check[c].request
  BY DEF RunningHolds, CheckTyped, WriteReadiness, At
<1>2. PICK seen : seen = check[c].seen
  OBVIOUS
<1>3. PICK audit : audit = AuditOf(runs, request.readinessLimit, "all")
  OBVIOUS
<1>4. ValidCopy(audit)
  <2>1. runs \in Seq(RunRows) /\ request.readinessLimit \in Nat \ {0}
    BY <1>1, LimitsPositive DEF LedgerHolds, LedgerTyped, Flags
  <2> QED
    BY <1>3, <2>1, AuditIsValid
<1>5. /\ seen.plan # NoFile /\ seen.hash # NoFile
      /\ seen.plan \in Plans /\ seen.fails \in SUBSET {"plan"}
  BY <1>2 DEF RunningHolds, CheckTyped, SeenHolds, WriteReadiness, At
<1> DEFINE report == ReadinessOf(seen.plan, seen.hash, seen.killSwitch, seen.next,
                       request.required, audit, seen.fails, clock)
<1>6. ValidPlan(seen.plan)
  BY <1>5, PlanThere
<1>7. ValidReadiness(report)
  BY <1>4, <1>5, <1>6, ReadinessIsValid
<1>8. file' = [file EXCEPT !["readiness"] = report]
  BY <1>1, <1>2, <1>3 DEF WriteReadiness, Leave
<1> HIDE DEF report
<1>9. "readiness" \in Slots /\ Fits("readiness", report)
  BY <1>7 DEF Slots, Fits
<1> QED
  BY <1>8, <1>9 DEF LeavesFit, Leaves

LEMMA LoopAuditFits ==
  ASSUME LedgerHolds, clock \in Times, NEW c, CheckTyped(c), LoopAudit(c)
  PROVE  LeavesFit
<1>1. PICK request \in Flags : request = check[c].request
  BY DEF CheckTyped, LoopAudit, At
<1>2. PICK audit : audit = AuditOf(runs, request.auditLimit, request.filter)
  OBVIOUS
<1>3. ValidAudit(audit)
  <2>1. runs \in Seq(RunRows) /\ request.auditLimit \in Nat \ {0}
    BY <1>1, LimitsPositive DEF LedgerHolds, LedgerTyped, Flags
  <2> QED
    BY <1>2, <2>1, AuditIsValid
<1> DEFINE content == AuditFileOf(audit, clock)
<1>4. content.audit = audit
  BY DEF AuditFileOf
<1>5. file' = [file EXCEPT !["audit"] = content]
  BY <1>1, <1>2 DEF LoopAudit, Leave
<1> HIDE DEF content
<1>6. "audit" \in Slots /\ Fits("audit", content)
  BY <1>3, <1>4 DEF Slots, Fits
<1> QED
  BY <1>5, <1>6 DEF LeavesFit, Leaves

LEMMA DeployCheckFits ==
  ASSUME FilesFit, NEW c, CheckTyped(c), DeployCheck(c)
  PROVE  LeavesFit
<1>1. CASE DeployLoads
  <2>1. PICK request \in Flags : request = check[c].request
    BY DEF CheckTyped, DeployCheck, At
  <2>2. PICK plan, readiness, audit :
          plan = file["plan"] /\ readiness = file["readiness"] /\ audit = file["audit"]
    OBVIOUS
  <2>3. plan \in Plans /\ readiness # NoFile /\ audit # NoFile
    BY <1>1, <2>2 DEF DeployLoads, FilesFit, Fits, Slots
  <2>4. PICK source \in Sources : source = request.source
    BY <2>1 DEF Flags
  <2> DEFINE decision == request.decision
  <2> DEFINE report == DeployCheckOf(plan, readiness, audit, source, decision, clock)
  <2>5. ValidDeployCheck(report) /\ ReadyMeans(report)
    BY <2>3, DeployCheckIsValid
  <2>6. file' = [file EXCEPT !["deployCheck"] = report]
    BY <1>1, <2>1, <2>2, <2>4 DEF DeployCheck, Leave
  <2> HIDE DEF report
  <2>7. "deployCheck" \in Slots /\ Fits("deployCheck", report)
    BY <2>5 DEF Slots, Fits
  <2> QED
    BY <2>6, <2>7 DEF LeavesFit, Leaves
<1>2. CASE ~DeployLoads
  BY <1>2 DEF DeployCheck, LeavesFit
<1> QED
  BY <1>1, <1>2

LEMMA WriteOpsReportFits ==
  ASSUME LedgerHolds, NEW c, RunningHolds(c),
         NEW command \in {"ops-report", "post-order-ops"}, WriteOpsReport(c, command)
  PROVE  LeavesFit
<1>1. PICK request \in Flags : request = check[c].request
  BY DEF RunningHolds, CheckTyped, WriteOpsReport, At
<1>2. PICK seen : seen = check[c].seen
  OBVIOUS
<1>3. PICK audit : audit = AuditOf(runs, request.readinessLimit, "all")
  OBVIOUS
<1>4. ValidCopy(audit)
  <2>1. runs \in Seq(RunRows) /\ request.readinessLimit \in Nat \ {0}
    BY <1>1, LimitsPositive DEF LedgerHolds, LedgerTyped, Flags
  <2> QED
    BY <1>3, <2>1, AuditIsValid
<1>5. PICK review, switch, next, at :
        /\ review = seen.review /\ switch = seen.killSwitch
        /\ next = seen.next /\ at = seen.at
  OBVIOUS
<1>6. Known(review) /\ (review # NoFile => ValidReview(review))
  BY <1>2, <1>5 DEF RunningHolds, Known, KnownReview
<1>7. CASE command = "post-order-ops"
  <2> DEFINE report == OpsReportOf(switch, next, TRUE, FALSE, audit, review, at)
  <2>1. file' = [file EXCEPT !["postOps"] = report]
    BY <1>1, <1>2, <1>3, <1>5, <1>7 DEF WriteOpsReport, Leave
  <2> DEFINE failed == OpsFails(switch, TRUE, FALSE, audit, review, at)
  <2>2. /\ report = OpsReportOf(switch, next, TRUE, FALSE, audit, review, at)
        /\ report.review = review
        /\ report.status = OpsStatus(failed, OpsWarns(next, TRUE, audit))
    BY DEF OpsReportOf
  <2>3. failed = {} => review # NoFile /\ review.ready
    BY DEF OpsFails, ReviewFails
  <2> HIDE DEF report, failed
  <2>4. report.status = "CLEAR" => review # NoFile /\ review.ready
    BY <2>2, <2>3 DEF OpsStatus
  <2>5. ValidOpsReport(report)
    BY <1>4, <1>6, <2>2, OpsReportIsValid
  <2>6. "postOps" \in Slots /\ Fits("postOps", report)
    BY <1>6, <2>2, <2>4, <2>5 DEF Slots, Fits
  <2> QED
    BY <2>1, <2>6 DEF LeavesFit, Leaves
<1>8. CASE command = "ops-report"
  <2> DEFINE report == OpsReportOf(switch, next, FALSE, FALSE, audit, review, at)
  <2>1. file' = [file EXCEPT !["opsReport"] = report]
    BY <1>1, <1>2, <1>3, <1>5, <1>8 DEF WriteOpsReport, Leave
  <2>2. report = OpsReportOf(switch, next, FALSE, FALSE, audit, review, at)
    OBVIOUS
  <2> HIDE DEF report
  <2>3. ValidOpsReport(report)
    BY <1>4, <1>6, <2>2, OpsReportIsValid
  <2>4. "opsReport" \in Slots /\ Fits("opsReport", report)
    BY <2>3 DEF Slots, Fits
  <2> QED
    BY <2>1, <2>4 DEF LeavesFit, Leaves
<1> QED
  BY <1>7, <1>8

LEMMA FirstOrderReviewFits ==
  ASSUME LedgerHolds, FilesFit, NEW c, FirstOrderReview(c)
  PROVE  LeavesFit
<1>1. PICK plan : plan = file["plan"]
  OBVIOUS
<1>2. CASE plan # NoFile /\ ValidPlan(plan)
  <2>1. plan \in Plans
    BY <1>1, <1>2 DEF FilesFit, Fits, Slots
  <2>2. PICK failed : failed = ReviewChecks(plan)
    OBVIOUS
  <2> DEFINE review == ReviewFileOf(plan, failed, clock)
  <2>3. /\ review.plan = plan /\ review.failed = failed /\ review.ready = (failed = {})
    BY DEF ReviewFileOf
  <2>4. file' = [file EXCEPT !["review"] = review]
    BY <1>1, <1>2, <2>2 DEF FirstOrderReview, Leave
  <2> HIDE DEF review
  <2>5. failed = {} => Reviewed(plan)
    BY <2>1, <2>2, ReviewEarns
  <2>6. plan.source \in Sources /\ plan.decision # NoDecision
    BY <2>1, Constants DEF Plans
  <2>7. Known(review)
    BY <2>1, <2>3, <2>5, <2>6 DEF Known, KnownReview, Earned, ValidReview,
       ValidReviewPlan, Ready
  <2>8. "review" \in Slots /\ Fits("review", review)
    BY <2>7 DEF Slots, Fits
  <2> QED
    BY <2>4, <2>8 DEF LeavesFit, Leaves
<1>3. CASE ~(plan # NoFile /\ ValidPlan(plan))
  BY <1>1, <1>3 DEF FirstOrderReview, LeavesFit
<1> QED
  BY <1>2, <1>3

LEMMA CommandFits ==
  ASSUME LedgerHolds, clock \in Times, FilesFit,
         NEW c \in Checks, RunningHolds(c), Command(c)
  PROVE  LeavesFit
<1>1. CASE \E script \in Scripts[c] :
             BeginFirstOrder(c, script) \/ BeginPostOrder(c, script) \/ BeginOne(c, script)
  BY <1>1 DEF BeginFirstOrder, BeginPostOrder, BeginOne, Begin, LeavesFit
<1>2. CASE KillSwitchState(c)
  BY <1>2, KillSwitchStateFits
<1>3. CASE OrderPlan(c)
  BY <1>3, OrderPlanFits DEF RunningHolds
<1>4. CASE LoadPlan(c) \/ HashPlan(c) \/ CheckPlan(c) \/ Verify(c)
  BY <1>4 DEF LoadPlan, HashPlan, CheckPlan, Verify, Read, LeavesFit
<1>5. CASE WriteReadiness(c)
  BY <1>5, WriteReadinessFits
<1>6. CASE LoopAudit(c)
  BY <1>6, LoopAuditFits DEF RunningHolds
<1>7. CASE DeployCheck(c)
  BY <1>7, DeployCheckFits DEF RunningHolds
<1>8. ASSUME NEW command \in {"ops-report", "post-order-ops"},
             \/ BeginOpsReport(c, command) \/ ReadQueue(c, command)
             \/ WriteOpsReport(c, command)
      PROVE  LeavesFit
  BY <1>8, WriteOpsReportFits DEF BeginOpsReport, ReadQueue, Read, LeavesFit
<1>9. CASE FirstOrderReview(c)
  BY <1>9, FirstOrderReviewFits
<1> QED
  BY <1>1, <1>2, <1>3, <1>4, <1>5, <1>6, <1>7, <1>8, <1>9 DEF Command

\* The invariant's parts about files are what fits.
FilesSafe ==
  /\ FilesTyped /\ ReadyMeans(file["deployCheck"])
  /\ Earned(file["review"])
  /\ file["postOps"] # NoFile /\ file["postOps"].status = "CLEAR" =>
       /\ file["postOps"].review # NoFile /\ file["postOps"].review.ready
       /\ KnownReview(file["postOps"].review) /\ Earned(file["postOps"].review)

LEMMA FilesSafeFit == FilesSafe <=> FilesFit
<1>1. ASSUME FilesSafe PROVE FilesFit
  <2> SUFFICES ASSUME NEW s \in Slots, file[s] # NoFile PROVE Fits(s, file[s])
    BY <1>1 DEF FilesSafe, FilesTyped, FilesFit
  <2> QED
    BY <1>1 DEF FilesSafe, FilesTyped, Fits, Known
<1>2. ASSUME FilesFit PROVE FilesSafe
  <2>1. \A s \in Slots : file[s] = NoFile \/ Fits(s, file[s])
    BY <1>2 DEF FilesFit
  <2>2. /\ file["plan"] = NoFile \/ Fits("plan", file["plan"])
        /\ file["readiness"] = NoFile \/ Fits("readiness", file["readiness"])
        /\ file["audit"] = NoFile \/ Fits("audit", file["audit"])
        /\ file["deployCheck"] = NoFile \/ Fits("deployCheck", file["deployCheck"])
        /\ file["review"] = NoFile \/ Fits("review", file["review"])
        /\ file["opsReport"] = NoFile \/ Fits("opsReport", file["opsReport"])
        /\ file["postOps"] = NoFile \/ Fits("postOps", file["postOps"])
    BY <2>1 DEF Slots
  <2>3. /\ file["plan"] \in Plans \cup {NoFile}
        /\ file["readiness"] # NoFile => ValidReadiness(file["readiness"])
        /\ file["audit"] # NoFile => ValidAudit(file["audit"].audit)
        /\ file["deployCheck"] # NoFile => ValidDeployCheck(file["deployCheck"])
        /\ ReadyMeans(file["deployCheck"])
        /\ \A s \in {"opsReport", "postOps"} : file[s] # NoFile => ValidOpsReport(file[s])
    BY <2>2 DEF Fits, ReadyMeans
  <2>4. /\ KnownReview(file["review"]) /\ Earned(file["review"])
        /\ file["postOps"] # NoFile /\ file["postOps"].status = "CLEAR" =>
             /\ file["postOps"].review # NoFile /\ file["postOps"].review.ready
             /\ Known(file["postOps"].review)
    BY <2>2 DEF Fits, Known, KnownReview, Earned
  <2> QED
    BY <1>2, <2>3, <2>4 DEF FilesSafe, FilesTyped, FilesFit, Known
<1> QED
  BY <1>1, <1>2

\* So the files stay safe whatever steps.
LEMMA FilesStep ==
  ASSUME LedgerHolds, LedgerHolds', clock \in Times, FilesSafe,
         \A c \in Checks : RunningHolds(c), [Next]_vars
  PROVE  FilesSafe'
<1>1. FilesFit
  BY FilesSafeFit
<1>2. LeavesFit
  BY <1>1, NextSplits, CommandFits, OutsideDisturbs DEF Disturbing, Tick, vars, LeavesFit
<1>3. FilesFit'
  BY <1>1, <1>2, SameFilesFit, WrittenFilesFit DEF LeavesFit, Leaves
<1>4. (FilesSafe <=> FilesFit)'
  BY FilesSafeFit, PTL
<1> QED
  BY <1>3, <1>4
-----------------------------------------------------------------------------
(* The invocations of scripts.                                              *)

\* Nobody removes a plan.
LEMMA PlanStays ==
  ASSUME LedgerHolds, clock \in Times, FilesFit, \A c \in Checks : RunningHolds(c),
         [Next]_vars, file["plan"] # NoFile
  PROVE  file'["plan"] # NoFile
<1>1. LeavesFit
  BY NextSplits, CommandFits, OutsideDisturbs DEF Disturbing, Tick, vars, LeavesFit
<1>2. ASSUME NEW slot \in Slots, NEW content, Leaves(slot, content)
      PROVE  file'["plan"] # NoFile
  <2>1. DOMAIN file = Slots /\ "plan" \in Slots
    BY DEF FilesFit, Slots
  <2>2. CASE slot = "plan"
    <3>1. file'["plan"] = content /\ content \in Plans
      BY <1>2, <2>1, <2>2 DEF Leaves, Fits
    <3> QED
      BY <3>1, PlanThere
  <2>3. CASE slot # "plan"
    BY <1>2, <2>1, <2>3 DEF Leaves
  <2> QED
    BY <2>2, <2>3
<1> QED
  BY <1>1, <1>2 DEF LeavesFit

\* An invocation that takes no step.
LEMMA SameCheckHolds ==
  ASSUME LedgerHolds, LedgerHolds', clock \in Times, [Next]_vars,
         file["plan"] # NoFile => file'["plan"] # NoFile,
         NEW c, RunningHolds(c), check'[c] = check[c]
  PROVE  RunningHolds(c)'
<1>1. CheckTyped(c)' /\ SeenHolds(c)'
  BY DEF RunningHolds, CheckTyped, KnownReview, SeenHolds
<1>2. PICK review : review = check[c].seen.review
  OBVIOUS
<1>3. Known(review)'
  BY <1>2, KnownStable DEF RunningHolds
<1> QED
  BY <1>1, <1>2, <1>3 DEF RunningHolds

\* What has just been begun or has ended has read nothing.
LEMMA IdleHolds ==
  ASSUME NEW c, check'[c].seen = NothingSeen, check'[c].stage = "start",
         DOMAIN check'[c] = DOMAIN Idle, check'[c].status \in {"idle", "running", "done"},
         check'[c].todo \in Seq(STRING),
         check'[c].status = "running" =>
           check'[c].request \in Flags /\ check'[c].todo # <<>>
  PROVE  RunningHolds(c)'
<1>1. /\ NothingSeen.plan = NoFile /\ NothingSeen.hash = NoFile
      /\ NothingSeen.review = NoFile /\ NothingSeen.fails = {}
  BY DEF NothingSeen
<1>2. CheckTyped(c)'
  BY <1>1 DEF CheckTyped, KnownReview
<1> QED
  BY <1>1, <1>2 DEF RunningHolds, SeenHolds, Known, KnownReview, Earned

LEMMA BeginHolds ==
  ASSUME DOMAIN check = Checks, NEW c \in Checks, NEW script \in Scripts[c],
         BeginFirstOrder(c, script) \/ BeginPostOrder(c, script) \/ BeginOne(c, script)
  PROVE  RunningHolds(c)' /\ DOMAIN check' = Checks
<1>1. script.commands \in Seq(STRING) /\ script.request \in Flags
  BY RequestsAssumption
<1>2. script.commands # <<>>
  <2>1. CASE script.commands = FirstOrder \/ script.commands = PostOrder
    <3>1. Len(FirstOrder) = 7 /\ Len(PostOrder) = 2 /\ Len(<<>>) = 0
      BY DEF FirstOrder, PostOrder
    <3> QED
      BY <2>1, <3>1
  <2>2. CASE Len(script.commands) = 1
    <3>1. PICK commands : commands = script.commands
      OBVIOUS
    <3>2. Len(commands) = 1 /\ Len(<<>>) = 0 /\ 0 # 1
      BY <2>2, <3>1
    <3>3. commands # <<>>
      BY <3>2
    <3> QED
      BY <3>1, <3>3
  <2> QED
    BY <2>1, <2>2 DEF BeginFirstOrder, BeginPostOrder, BeginOne
<1>3. /\ check' = [check EXCEPT ![c] = [Idle EXCEPT
           !.status = "running", !.todo = script.commands, !.request = script.request]]
  BY DEF BeginFirstOrder, BeginPostOrder, BeginOne, Begin
<1>4. /\ check'[c].seen = NothingSeen /\ check'[c].stage = "start"
      /\ DOMAIN check'[c] = DOMAIN Idle /\ check'[c].status = "running"
      /\ check'[c].todo = script.commands /\ check'[c].request = script.request
      /\ DOMAIN check' = Checks
  BY <1>3 DEF Idle
<1>5. RunningHolds(c)'
  BY <1>1, <1>2, <1>4, IdleHolds
<1> QED
  BY <1>4, <1>5

\* The next command has read nothing, and the flags are the same.
LEMMA ReturnMoves ==
  ASSUME DOMAIN check = Checks, NEW c \in Checks, CheckTyped(c),
         check[c].status = "running", NEW good, Return(c, good)
  PROVE  /\ DOMAIN check' = Checks /\ DOMAIN check'[c] = DOMAIN Idle
         /\ \A e \in Checks : e # c => check'[e] = check[e]
         /\ check'[c].seen = NothingSeen /\ check'[c].stage = "start"
         /\ IF good /\ Tail(check[c].todo) # <<>>
              THEN /\ check'[c].status = "running" /\ check'[c].request = check[c].request
                   /\ check'[c].todo = Tail(check[c].todo)
              ELSE check'[c].status = "done" /\ check'[c].todo = <<>>
<1>1. DOMAIN check[c] = DOMAIN Idle
  BY DEF CheckTyped
<1>2. CASE good /\ Tail(check[c].todo) # <<>>
  <2>1. check' = [check EXCEPT ![c] = [@ EXCEPT !.todo = Tail(check[c].todo),
                                         !.stage = "start", !.seen = NothingSeen]]
    BY <1>2 DEF Return
  <2> QED
    BY <1>1, <1>2, <2>1 DEF Idle
<1>3. CASE ~(good /\ Tail(check[c].todo) # <<>>)
  <2>1. check' = [check EXCEPT ![c] = [Idle EXCEPT !.status = "done"]]
    BY <1>3 DEF Return
  <2> QED
    BY <1>3, <2>1 DEF Idle
<1> QED
  BY <1>2, <1>3

LEMMA ReturnHolds ==
  ASSUME DOMAIN check = Checks, NEW c \in Checks, CheckTyped(c),
         check[c].status = "running", NEW good, Return(c, good)
  PROVE  RunningHolds(c)'
<1>1. check[c].todo \in Seq(STRING) /\ check[c].todo # <<>> /\ check[c].request \in Flags
  BY DEF CheckTyped
<1>2. Tail(check[c].todo) \in Seq(STRING) /\ <<>> \in Seq(STRING)
  <2>1. PICK todo \in Seq(STRING) : todo = check[c].todo
    BY <1>1
  <2>2. Tail(todo) \in Seq(STRING)
    BY <1>1, <2>1, HeadTailProperties
  <2> QED
    BY <2>1, <2>2
<1>3. CASE good /\ Tail(check[c].todo) # <<>>
  BY <1>1, <1>2, <1>3, ReturnMoves, IdleHolds
<1>4. CASE ~(good /\ Tail(check[c].todo) # <<>>)
  BY <1>2, <1>4, ReturnMoves, IdleHolds
<1> QED
  BY <1>3, <1>4

\* A command that goes on keeps its place and its flags.
LEMMA ReadMoves ==
  ASSUME DOMAIN check = Checks, NEW c \in Checks, CheckTyped(c), NEW stage, NEW seen,
         Read(c, stage, seen)
  PROVE  /\ DOMAIN check' = Checks /\ DOMAIN check'[c] = DOMAIN Idle
         /\ \A e \in Checks : e # c => check'[e] = check[e]
         /\ check'[c].seen = seen /\ check'[c].stage = stage
         /\ check'[c].status = check[c].status /\ check'[c].request = check[c].request
         /\ check'[c].todo = check[c].todo
<1>1. DOMAIN check[c] = DOMAIN Idle
  BY DEF CheckTyped
<1> QED
  BY <1>1 DEF Read, Idle

LEMMA ReadHolds ==
  ASSUME LedgerHolds, LedgerHolds', clock \in Times, [Next]_vars,
         DOMAIN check = Checks, NEW c \in Checks, CheckTyped(c), NEW stage, NEW seen,
         Read(c, stage, seen), DOMAIN seen = DOMAIN NothingSeen,
         seen.plan \in Plans \cup {NoFile}, seen.hash \in Plans \cup {NoFile},
         seen.fails \in SUBSET {"plan"}, Known(seen.review),
         stage = "hash" => seen.plan # NoFile /\ file["plan"] # NoFile,
         stage \in {"queue", "audit"} /\ Head(check[c].todo) = "readiness" =>
           seen.plan # NoFile /\ seen.hash # NoFile
  PROVE  RunningHolds(c)'
<1>1. PICK review : review = seen.review
  OBVIOUS
<1>2. Known(review)'
  BY <1>1, KnownStable
<1>3. file' = file
  BY DEF Read
<1>4. CheckTyped(c)'
  BY <1>1, <1>2, ReadMoves DEF CheckTyped, Known, KnownReview
<1>5. SeenHolds(c)'
  BY <1>3, ReadMoves DEF SeenHolds
<1>6. Known(check[c].seen.review)'
  BY <1>1, <1>2, ReadMoves
<1> QED
  BY <1>4, <1>5, <1>6 DEF RunningHolds
\* The reads of live-readiness and of live-ops-report.
LEMMA LoadPlanHolds ==
  ASSUME LedgerHolds, LedgerHolds', clock \in Times, [Next]_vars, FilesFit,
         DOMAIN check = Checks, NEW c \in Checks, RunningHolds(c), LoadPlan(c)
  PROVE  RunningHolds(c)'
<1>1. CheckTyped(c) /\ check[c].status = "running"
  BY DEF RunningHolds, LoadPlan, At
<1>2. CASE file["plan"] # NoFile /\ ValidPlan(file["plan"])
  <2> DEFINE seen == [NothingSeen EXCEPT !.plan = file["plan"]]
  <2>1. /\ DOMAIN seen = DOMAIN NothingSeen
        /\ seen.plan = file["plan"] /\ seen.hash = NoFile
        /\ seen.fails = {} /\ seen.review = NoFile
    BY DEF NothingSeen
  <2>2. Read(c, "hash", seen)
    BY <1>2 DEF LoadPlan
  <2> HIDE DEF seen
  <2>3. file["plan"] \in Plans
    BY <1>2 DEF FilesFit, Fits, Slots
  <2>4. Known(seen.review) /\ seen.fails \in SUBSET {"plan"}
    BY <2>1 DEF Known, KnownReview, Earned
  <2> QED
    BY <1>1, <1>2, <2>1, <2>2, <2>3, <2>4, ReadHolds
<1>3. CASE ~(file["plan"] # NoFile /\ ValidPlan(file["plan"]))
  BY <1>1, <1>3, ReturnHolds DEF LoadPlan
<1> QED
  BY <1>2, <1>3

LEMMA HashPlanHolds ==
  ASSUME LedgerHolds, LedgerHolds', clock \in Times, [Next]_vars, FilesFit,
         DOMAIN check = Checks, NEW c \in Checks, RunningHolds(c), HashPlan(c)
  PROVE  RunningHolds(c)'
<1>1. CheckTyped(c) /\ check[c].stage = "hash"
  BY DEF RunningHolds, HashPlan, At
<1>2. check[c].seen.plan # NoFile /\ file["plan"] # NoFile
  BY <1>1 DEF RunningHolds, SeenHolds
<1>3. file["plan"] \in Plans
  BY <1>2 DEF FilesFit, Fits, Slots
<1> DEFINE seen == [check[c].seen EXCEPT !.hash = file["plan"], !.killSwitch = killSwitch]
<1>4. /\ DOMAIN seen = DOMAIN NothingSeen
      /\ seen.plan = check[c].seen.plan /\ seen.hash = file["plan"]
      /\ seen.fails = check[c].seen.fails /\ seen.review = check[c].seen.review
  BY <1>1 DEF CheckTyped, NothingSeen
<1>5. Read(c, "queue", seen)
  BY DEF HashPlan
<1> HIDE DEF seen
<1>6. /\ seen.plan \in Plans \cup {NoFile} /\ seen.hash \in Plans \cup {NoFile}
      /\ seen.fails \in SUBSET {"plan"}
  BY <1>1, <1>3, <1>4 DEF CheckTyped
<1>7. Known(seen.review)
  BY <1>4 DEF RunningHolds
<1> QED
  BY <1>1, <1>2, <1>4, <1>5, <1>6, <1>7, ReadHolds

LEMMA CheckPlanHolds ==
  ASSUME LedgerHolds, LedgerHolds', clock \in Times, [Next]_vars,
         DOMAIN check = Checks, NEW c \in Checks, RunningHolds(c), CheckPlan(c)
  PROVE  RunningHolds(c)'
<1>1. /\ CheckTyped(c) /\ check[c].stage = "queue" /\ Head(check[c].todo) = "readiness"
  BY DEF RunningHolds, CheckPlan, At
<1>2. check[c].seen.plan # NoFile /\ check[c].seen.hash # NoFile
  BY <1>1 DEF RunningHolds, SeenHolds
<1> DEFINE fails == PlanFails(check[c].seen.plan, Oldest, recorded, Born, clock)
<1>3. fails \in SUBSET {"plan"}
  BY DEF PlanFails
<1> HIDE DEF fails
<1> DEFINE seen == [check[c].seen EXCEPT !.next = Oldest, !.fails = fails]
<1>4. /\ DOMAIN seen = DOMAIN NothingSeen
      /\ seen.plan = check[c].seen.plan /\ seen.hash = check[c].seen.hash
      /\ seen.fails = fails /\ seen.review = check[c].seen.review
  BY <1>1 DEF CheckTyped, NothingSeen
<1>5. Read(c, "audit", seen)
  BY DEF CheckPlan, fails
<1> HIDE DEF seen
<1>6. /\ seen.plan \in Plans \cup {NoFile} /\ seen.hash \in Plans \cup {NoFile}
      /\ seen.fails \in SUBSET {"plan"}
  BY <1>1, <1>3, <1>4 DEF CheckTyped
<1>7. Known(seen.review)
  BY <1>4 DEF RunningHolds
<1> QED
  BY <1>1, <1>2, <1>4, <1>5, <1>6, <1>7, ReadHolds

LEMMA BeginOpsReportHolds ==
  ASSUME LedgerHolds, LedgerHolds', clock \in Times, [Next]_vars, FilesFit,
         DOMAIN check = Checks, NEW c \in Checks, RunningHolds(c),
         NEW command \in {"ops-report", "post-order-ops"}, BeginOpsReport(c, command)
  PROVE  RunningHolds(c)'
<1>1. /\ CheckTyped(c) /\ check[c].status = "running" /\ Head(check[c].todo) # "readiness"
  BY DEF RunningHolds, BeginOpsReport, At
<1>2. CASE command = "post-order-ops" /\ file["review"] = NoFile
  BY <1>1, <1>2, ReturnHolds DEF BeginOpsReport
<1>3. CASE ~(command = "post-order-ops" /\ file["review"] = NoFile)
  <2>1. PICK review :
          review = IF command = "post-order-ops" THEN file["review"] ELSE NoFile
    OBVIOUS
  <2>2. Known(review)
    BY <2>1 DEF FilesFit, Fits, Slots, Known, KnownReview, Earned
  <2> DEFINE seen == [NothingSeen EXCEPT !.review = review, !.at = clock,
                                         !.killSwitch = killSwitch]
  <2>3. /\ DOMAIN seen = DOMAIN NothingSeen /\ seen.plan = NoFile /\ seen.hash = NoFile
        /\ seen.fails = {} /\ seen.review = review
    BY DEF NothingSeen
  <2>4. Read(c, "queue", seen)
    BY <1>3, <2>1 DEF BeginOpsReport
  <2> HIDE DEF seen
  <2>5. /\ seen.plan \in Plans \cup {NoFile} /\ seen.hash \in Plans \cup {NoFile}
        /\ seen.fails \in SUBSET {"plan"} /\ Known(seen.review)
    BY <2>2, <2>3
  <2> QED
    BY <1>1, <2>3, <2>4, <2>5, ReadHolds
<1> QED
  BY <1>2, <1>3

LEMMA ReadQueueHolds ==
  ASSUME LedgerHolds, LedgerHolds', clock \in Times, [Next]_vars,
         DOMAIN check = Checks, NEW c \in Checks, RunningHolds(c),
         NEW command \in {"ops-report", "post-order-ops"}, ReadQueue(c, command)
  PROVE  RunningHolds(c)'
<1>1. CheckTyped(c) /\ Head(check[c].todo) # "readiness"
  BY DEF RunningHolds, ReadQueue, At
<1> DEFINE seen == [check[c].seen EXCEPT !.next = Oldest]
<1>2. /\ DOMAIN seen = DOMAIN NothingSeen
      /\ seen.plan = check[c].seen.plan /\ seen.hash = check[c].seen.hash
      /\ seen.fails = check[c].seen.fails /\ seen.review = check[c].seen.review
  BY <1>1 DEF CheckTyped, NothingSeen
<1>3. Read(c, "audit", seen)
  BY DEF ReadQueue
<1> HIDE DEF seen
<1>4. /\ seen.plan \in Plans \cup {NoFile} /\ seen.hash \in Plans \cup {NoFile}
      /\ seen.fails \in SUBSET {"plan"}
  BY <1>1, <1>2 DEF CheckTyped
<1>5. Known(seen.review)
  BY <1>2 DEF RunningHolds
<1> QED
  BY <1>1, <1>2, <1>3, <1>4, <1>5, ReadHolds

\* Every command keeps what its invocation has at hand.
LEMMA CommandHolds ==
  ASSUME LedgerHolds, LedgerHolds', clock \in Times, [Next]_vars, FilesFit,
         DOMAIN check = Checks, NEW c \in Checks, RunningHolds(c), Command(c)
  PROVE  RunningHolds(c)'
<1>1. CASE \E script \in Scripts[c] :
             BeginFirstOrder(c, script) \/ BeginPostOrder(c, script) \/ BeginOne(c, script)
  BY <1>1, BeginHolds
<1>2. ASSUME KillSwitchState(c) \/ OrderPlan(c) \/ WriteReadiness(c) \/ LoopAudit(c)
             \/ DeployCheck(c) \/ Verify(c) \/ FirstOrderReview(c)
             \/ \E command \in {"ops-report", "post-order-ops"} : WriteOpsReport(c, command)
      PROVE  RunningHolds(c)'
  <2>1. check[c].status = "running" /\ \E good : Return(c, good)
    BY <1>2 DEF KillSwitchState, OrderPlan, WriteReadiness, LoopAudit, DeployCheck,
       Verify, FirstOrderReview, WriteOpsReport, Leave, At
  <2> QED
    BY <2>1, ReturnHolds DEF RunningHolds
<1>3. CASE LoadPlan(c)
  BY <1>3, LoadPlanHolds
<1>4. CASE HashPlan(c)
  BY <1>4, HashPlanHolds
<1>5. CASE CheckPlan(c)
  BY <1>5, CheckPlanHolds
<1>6. ASSUME NEW command \in {"ops-report", "post-order-ops"}, BeginOpsReport(c, command)
      PROVE  RunningHolds(c)'
  BY <1>6, BeginOpsReportHolds
<1>7. ASSUME NEW command \in {"ops-report", "post-order-ops"}, ReadQueue(c, command)
      PROVE  RunningHolds(c)'
  BY <1>7, ReadQueueHolds
<1> QED
  BY <1>1, <1>2, <1>3, <1>4, <1>5, <1>6, <1>7 DEF Command

\* and leaves the other invocations alone.
LEMMA OtherChecks ==
  ASSUME DOMAIN check = Checks, NEW c \in Checks, Command(c)
  PROVE  DOMAIN check' = Checks /\ \A e \in Checks : e # c => check'[e] = check[e]
BY CommandForms, ZenonT(60) DEF BeginFirstOrder, BeginPostOrder, BeginOne, Begin, Read, Return

LEMMA ChecksStep ==
  ASSUME LedgerHolds, LedgerHolds', clock \in Times, [Next]_vars, FilesFit,
         DOMAIN check = Checks, \A c \in Checks : RunningHolds(c)
  PROVE  DOMAIN check' = Checks /\ \A c \in Checks : RunningHolds(c)'
<1>1. file["plan"] # NoFile => file'["plan"] # NoFile
  BY PlanStays
<1>2. CASE check' = check
  BY <1>1, <1>2, SameCheckHolds
<1>3. ASSUME NEW c \in Checks, Command(c)
      PROVE  DOMAIN check' = Checks /\ \A e \in Checks : RunningHolds(e)'
  <2>1. RunningHolds(c)'
    BY <1>3, CommandHolds
  <2>2. ASSUME NEW e \in Checks, e # c PROVE RunningHolds(e)'
    BY <1>1, <1>3, <2>2, OtherChecks, SameCheckHolds
  <2> QED
    BY <1>3, <2>1, <2>2, OtherChecks
<1> QED
  BY <1>2, <1>3, NextSplits, OutsideDisturbs DEF Disturbing, Tick, vars
-----------------------------------------------------------------------------
(* The files of the loop.                                                   *)

\* What HandoffHolds says of the files, the flags and the decision.
OnePiece(content, request, d) ==
  /\ content["plan"].decision = d /\ d \in MicroSized
  /\ content["plan"].run = request.run /\ request.bound = 1
  /\ content["plan"].source = request.source
  /\ content["readiness"].next = d /\ content["readiness"].failed = {}
  /\ content["readiness"].warned = {} /\ content["readiness"].hash = content["plan"]
  /\ content["audit"].audit.review = "CLEAR"
  /\ ~content["killSwitch"].killSwitch.active
  /\ content["killSwitch"].killSwitch = content["readiness"].killSwitch
  /\ content["deployCheck"].selected = d
  /\ content["deployCheck"].readiness = content["readiness"]

\* What LoopArmed says of them.
ArmedWith(content, request) ==
  /\ PlanApplies(AllFiles, content, request)
  /\ InactiveState(content["killSwitch"])
  /\ SameKillSwitch(content["killSwitch"], content["readiness"])
  /\ content["plan"] # NoFile /\ content["audit"] # NoFile
  /\ content["deployCheck"] # NoFile /\ ReadyMeans(content["deployCheck"])

\* The checks that are made once the decision is known close the gap.
LEMMA AdmittedIsOnePiece ==
  ASSUME NEW content, NEW request, NEW d, d # NoDecision, ArmedWith(content, request),
         ReadinessHolds(AllFiles, content, d),
         DeployHolds(AllFiles, content, request.source, d, request.bound),
         PlanHolds(AllFiles, content, d, request.run)
  PROVE  OnePiece(content, request, d)
<1>1. "plan" \in AllFiles /\ "readiness" \in AllFiles /\ "killSwitch" \in AllFiles
      /\ "audit" \in AllFiles /\ "deployCheck" \in AllFiles
  BY DEF AllFiles
<1>2. PICK plan, readiness, audit, report, state :
        /\ plan = content["plan"] /\ readiness = content["readiness"]
        /\ audit = content["audit"] /\ report = content["deployCheck"]
        /\ state = content["killSwitch"]
  OBVIOUS
<1>3. plan.decision = d /\ plan.run = request.run
  BY <1>1, <1>2 DEF PlanHolds, PlannedOrder
<1>4. plan.source = request.source
  BY <1>1, <1>2 DEF ArmedWith, PlanApplies, SourceHolds
<1>5. ReadinessAdmits(readiness, plan, audit, d)
  BY <1>1, <1>2 DEF ReadinessHolds, Given
<1>6. /\ readiness.next = d /\ readiness.failed = {} /\ readiness.hash = plan
      /\ readiness.audit.review = audit.audit.review
  BY <1>2, <1>5 DEF ArmedWith, ReadinessAdmits, Ready, SamePlan, SameAudit
<1>7. DeployAdmits(report, plan, readiness, audit, request.source, d, request.bound)
  BY <1>1, <1>2 DEF DeployHolds
<1>8. /\ Ready(report) /\ report.plan = plan /\ report.readiness = readiness
      /\ report.selected = d /\ request.bound = 1
  BY <1>7 DEF DeployAdmits, CheckedPlan, CheckedReadiness, CheckedExecution
<1>9. CapitalFits(plan) /\ ReviewedReadiness(readiness)
  BY <1>2, <1>8 DEF ArmedWith, ReadyMeans
<1>10. d \in MicroSized /\ readiness.warned = {} /\ readiness.audit.review = "CLEAR"
  BY <1>3, <1>9 DEF CapitalFits, ReviewedReadiness
<1>11. ~state.killSwitch.active /\ state.killSwitch = readiness.killSwitch
  BY <1>2 DEF ArmedWith, InactiveState, SameKillSwitch
<1> QED
  BY <1>2, <1>3, <1>4, <1>6, <1>8, <1>10, <1>11 DEF OnePiece

\* A loop that has every file, in these terms.
LoopSafe ==
  loop.phase # "none" /\ loop.given = AllFiles =>
    /\ ArmedWith(loop.file, loop.request)
    /\ loop.phase # "select" => OnePiece(loop.file, loop.request, loop.request.decision)

LEMMA LoopSafeMeans == LoopSafe <=> LoopArmed /\ HandoffHolds
BY DEF LoopSafe, LoopArmed, HandoffHolds, ArmedWith, OnePiece

LEMMA SameLoopSafe ==
  ASSUME LoopSafe, loop'.given = loop.given, loop'.file = loop.file,
         loop'.request = loop.request, loop.phase # "none",
         loop'.phase = "select" \/ loop.phase # "select"
  PROVE  LoopSafe'
BY DEF LoopSafe, ArmedWith, OnePiece, PlanApplies

LEMMA ArmIsSafe ==
  ASSUME ReadyMeans(file["deployCheck"]), NEW given \in Handoffs, NEW request \in Requests,
         Arm(given, request)
  PROVE  LoopSafe'
<1> DEFINE selected == IF request.source = "select-pending" THEN NoDecision
                       ELSE request.decision
           ask == [request EXCEPT !.decision = selected]
           files == [s \in AllFiles |-> Given(given, file, s)]
<1>1. request \in Flags
  BY RequestsAssumption
<1>2. /\ ask.source = request.source /\ ask.run = request.run
      /\ ask.bound = request.bound /\ ask.decision = selected
  BY <1>1 DEF Flags
<1>3. loop' = [NoLoop EXCEPT !.given = given, !.request = ask, !.file = files,
                 !.phase = IF selected = NoDecision THEN "select" ELSE "start"]
  BY DEF Arm
<1>4. /\ Loaded(given, file) /\ FilesAdmit(given, file, clock)
      /\ PlanApplies(given, file, request) /\ ReadinessHolds(given, file, selected)
      /\ selected # NoDecision =>
           /\ DeployHolds(given, file, request.source, selected, request.bound)
           /\ PlanHolds(given, file, selected, request.run)
  BY DEF Arm
<1>5. request.source # "select-pending" => selected = request.decision
  OBVIOUS
<1> HIDE DEF selected, ask, files
<1>6. /\ loop'.phase = (IF selected = NoDecision THEN "select" ELSE "start")
      /\ loop'.given = given /\ loop'.request = ask /\ loop'.file = files
  BY <1>3 DEF NoLoop
<1>7. ASSUME given = AllFiles
      PROVE  ArmedWith(files, ask) /\
             (selected # NoDecision => OnePiece(files, ask, selected))
  <2>1. \A s \in AllFiles : files[s] = file[s]
    BY <1>7 DEF files, Given
  <2>2. files["plan"] = file["plan"] /\ files["readiness"] = file["readiness"]
        /\ files["killSwitch"] = file["killSwitch"] /\ files["audit"] = file["audit"]
        /\ files["deployCheck"] = file["deployCheck"]
    BY <2>1 DEF AllFiles
  <2>3. "plan" \in AllFiles /\ "readiness" \in AllFiles /\ "killSwitch" \in AllFiles
        /\ "audit" \in AllFiles /\ "deployCheck" \in AllFiles
    BY DEF AllFiles
  <2>4. PlanApplies(AllFiles, files, ask)
    BY <1>2, <1>4, <1>7, <1>5, <2>2, <2>3 DEF PlanApplies, SourceHolds
  <2>5. InactiveState(files["killSwitch"])
    BY <1>4, <1>7, <2>2, <2>3 DEF FilesAdmit, KillSwitchAdmits
  <2>6. ArmedWith(files, ask)
    BY <1>4, <1>7, <2>2, <2>3, <2>4, <2>5 DEF ArmedWith, ReadinessHolds, Loaded
  <2>7. ASSUME selected # NoDecision PROVE OnePiece(files, ask, selected)
    <3>1. ReadinessHolds(AllFiles, files, selected)
      BY <1>4, <1>7, <2>2, <2>3 DEF ReadinessHolds, Given
    <3>2. DeployHolds(AllFiles, files, ask.source, selected, ask.bound)
      BY <1>2, <1>4, <1>7, <2>2, <2>7 DEF DeployHolds
    <3>3. PlanHolds(AllFiles, files, selected, ask.run)
      BY <1>2, <1>4, <1>7, <2>2, <2>7 DEF PlanHolds
    <3>4. PICK content, flags, d : content = files /\ flags = ask /\ d = selected
      OBVIOUS
    <3>5. OnePiece(content, flags, d)
      BY <2>6, <2>7, <3>1, <3>2, <3>3, <3>4, AdmittedIsOnePiece
    <3> QED
      BY <3>4, <3>5
  <2> QED
    BY <2>6, <2>7
<1>8. PICK content, flags, d : content = files /\ flags = ask /\ d = selected
  OBVIOUS
<1>9. given = AllFiles => ArmedWith(content, flags)' /\
                          (d # NoDecision => OnePiece(content, flags, d))
  BY <1>7, <1>8 DEF ArmedWith, PlanApplies, SourceHolds
<1> QED
  BY <1>2, <1>6, <1>8, <1>9 DEF LoopSafe

LEMMA SelectIsSafe ==
  ASSUME LoopTyped, LoopSafe, Select
  PROVE  LoopSafe'
<1>1. PICK content, request, d :
        content = loop.file /\ request = loop.request /\ d = Oldest
  OBVIOUS
<1> DEFINE ask == [request EXCEPT !.decision = d]
<1>2. request \in Flags
  BY <1>1 DEF LoopTyped, Select
<1>3. /\ ask.source = request.source /\ ask.run = request.run
      /\ ask.bound = request.bound /\ ask.decision = d
  BY <1>2 DEF Flags
<1>4. /\ loop'.phase = "start" /\ loop'.given = loop.given /\ loop'.file = content
      /\ loop'.request = ask
  BY <1>1, SelectMoves
<1> HIDE DEF ask
<1>5. ASSUME loop.given = AllFiles PROVE ArmedWith(content, ask) /\ OnePiece(content, ask, d)
  <2>1. ArmedWith(content, request)
    BY <1>1, <1>5 DEF LoopSafe, Select
  <2>2. d # NoDecision /\ PlanHolds(AllFiles, content, d, request.run)
    BY <1>1, <1>5 DEF Select
  <2>3. content["plan"].decision = d
    BY <2>2 DEF PlanHolds, PlannedOrder, AllFiles
  <2>4. ArmedWith(content, ask)
    BY <1>3, <2>1, <2>3 DEF ArmedWith, PlanApplies, SourceHolds
  <2>5. /\ ReadinessHolds(AllFiles, content, d)
        /\ DeployHolds(AllFiles, content, ask.source, d, ask.bound)
        /\ PlanHolds(AllFiles, content, d, ask.run)
    BY <1>1, <1>3, <1>5 DEF Select
  <2>6. PICK flags : flags = ask
    OBVIOUS
  <2>7. OnePiece(content, flags, d)
    BY <2>2, <2>4, <2>5, <2>6, AdmittedIsOnePiece
  <2> QED
    BY <2>4, <2>6, <2>7
<1>6. PICK flags : flags = ask
  OBVIOUS
<1>7. loop.given = AllFiles => ArmedWith(content, flags)' /\ OnePiece(content, flags, d)
  BY <1>5, <1>6 DEF ArmedWith, PlanApplies, SourceHolds
<1> QED
  BY <1>3, <1>4, <1>6, <1>7 DEF LoopSafe

LEMMA LoopSafeStep ==
  ASSUME LedgerHolds, clock \in Times, ReadyMeans(file["deployCheck"]), LoopSafe,
         [Next]_vars
  PROVE  LoopSafe'
<1>1. LoopTyped
  BY DEF LedgerHolds, LedgerTyped
<1>2. CASE loop' = loop
  BY <1>2 DEF LoopSafe, ArmedWith, OnePiece, PlanApplies
<1>3. CASE loop' = NoLoop
  BY <1>3 DEF LoopSafe, NoLoop
<1>4. CASE Start
  BY <1>1, <1>4, StartMoves, SameLoopSafe DEF Start
<1>5. CASE Observe
  BY <1>1, <1>5, ObserveMoves, SameLoopSafe DEF Observe
<1>6. ASSUME NEW phase, LoopStep(phase), Preflight \/ Journal \/ Post PROVE LoopSafe'
  BY <1>1, <1>6, PhaseMoves, SameLoopSafe DEF Preflight, Journal, Post
<1>7. CASE Journal
  <2>1. CASE \E phase : LoopStep(phase)
    BY <1>6, <1>7, <2>1
  <2>2. CASE loop' = [loop EXCEPT !.phase = "observe", !.already = TRUE]
    <3>1. /\ loop'.given = loop.given /\ loop'.file = loop.file
          /\ loop'.request = loop.request /\ loop'.phase = "observe"
      BY <1>1, <2>2 DEF LoopTyped, NoLoop
    <3> QED
      BY <1>7, <3>1, SameLoopSafe DEF Journal
  <2> QED
    BY <1>7, <2>1, <2>2 DEF Journal
<1>8. CASE Preflight \/ Post
  BY <1>6, <1>8 DEF Preflight, Post
<1>9. ASSUME NEW given \in Handoffs, NEW request \in Requests, Arm(given, request)
      PROVE  LoopSafe'
  BY <1>9, ArmIsSafe
<1>10. CASE Select
  BY <1>1, <1>10, SelectIsSafe
<1>11. CASE Loop
  BY <1>3, <1>4, <1>5, <1>7, <1>8, <1>9, <1>10, <1>11 DEF Loop, Complete, Stop, Crash
<1>12. CASE EnvironmentStep \/ Smoke
  BY <1>2, <1>12, BesideLoop
<1>13. CASE UNCHANGED ledger
  BY <1>2, <1>13 DEF ledger
<1> QED
  BY <1>11, <1>12, <1>13, NextSplits, CommandKeepsLedger DEF Outside, Tick, vars, ledger
-----------------------------------------------------------------------------
(* The undisturbed first-order check: what its files say.                   *)

\* What is known of the database and the files while it runs.
Settled ==
  /\ LedgerHolds /\ FilesTyped /\ clock \in Times /\ quiet.since \in 0..clock

\* Content written since the check began is not too old while it is wanted.
LEMMA YoungIsFresh ==
  ASSUME Settled, clock - quiet.since <= MaxAge, NEW artifact, artifact.at \in Since
  PROVE  Fresh(artifact, clock, MaxAge)
<1>1. clock \in Nat /\ quiet.since \in Nat /\ MaxAge \in Nat
  BY AgesAssumption, BoundsAssumption DEF Settled, Times
<1>2. PICK t : t = artifact.at
  OBVIOUS
<1>3. t \in Nat /\ t <= clock /\ quiet.since <= t
  BY <1>1, <1>2 DEF Since
<1>4. t <= clock /\ clock - t <= MaxAge
  BY <1>1, <1>3
<1> QED
  BY <1>2, <1>4 DEF Fresh

LEMMA NowIsSince == ASSUME Settled PROVE clock \in Since
BY BoundsAssumption DEF Settled, Times, Since

LEMMA PlanSays ==
  ASSUME Settled, NEW request, QuietPlan(request)
  PROVE  LET plan == file["plan"] IN
         /\ plan \in Plans /\ plan # NoFile /\ ValidPlan(plan)
         /\ plan.source = request.source /\ plan.run = request.run
         /\ plan.decision = PlannedDecision(request) /\ plan.decision \in recorded
         /\ plan.born = Born[plan.decision] /\ plan.at \in Since
<1>1. PICK plan, d, born :
        plan = file["plan"] /\ d = PlannedDecision(request) /\ born = Born[d]
  OBVIOUS
<1>2. PICK t \in Since : plan = PlanOf(request.source, d, request.run, born, t)
  BY <1>1 DEF QuietPlan
<1>3. /\ plan.source = request.source /\ plan.run = request.run
      /\ plan.decision = d /\ plan.born = born /\ plan.at = t
      /\ DOMAIN plan = {"source", "decision", "run", "born", "at"}
  BY <1>2 DEF PlanOf
<1>4. plan # NoFile
  <2>1. "source" \in DOMAIN plan /\ "source" \notin DOMAIN NoFile
    BY <1>3 DEF NoFile
  <2> QED
    BY <2>1
<1>5. plan \in Plans
  BY <1>1, <1>4 DEF Settled, FilesTyped
<1>6. d \in recorded
  BY <1>1 DEF QuietPlan
<1> QED
  BY <1>1, <1>2, <1>3, <1>4, <1>5, <1>6, PlanThere

LEMMA KillSwitchSays ==
  ASSUME QuietKillSwitch
  PROVE  LET state == file["killSwitch"] IN
         state # NoFile /\ state.killSwitch = killSwitch /\ state.at \in Since
<1>1. PICK state, switch : state = file["killSwitch"] /\ switch = killSwitch
  OBVIOUS
<1>2. PICK t \in Since : state = KillSwitchFileOf(switch, t)
  BY <1>1 DEF QuietKillSwitch
<1>3. state.killSwitch = switch /\ state.at = t /\ DOMAIN state = {"killSwitch", "at"}
  BY <1>2 DEF KillSwitchFileOf
<1>4. state # NoFile
  <2>1. "killSwitch" \in DOMAIN state /\ "killSwitch" \notin DOMAIN NoFile
    BY <1>3 DEF NoFile
  <2> QED
    BY <2>1
<1> QED
  BY <1>1, <1>2, <1>3, <1>4

LEMMA ReadinessSays ==
  ASSUME Settled, NEW request, QuietReadiness(request)
  PROVE  LET readiness == file["readiness"]
             audit == AuditOf(runs, request.readinessLimit, "all") IN
         /\ readiness # NoFile /\ ValidReadiness(readiness) /\ Ready(readiness)
         /\ readiness.plan = file["plan"] /\ readiness.hash = file["plan"]
         /\ readiness.killSwitch = killSwitch /\ readiness.next = Oldest
         /\ readiness.required = request.required /\ readiness.audit = audit
         /\ readiness.warned = PendingWarns(Oldest, request.required) \cup AuditWarns(audit)
         /\ readiness.at \in Since
<1>1. PICK readiness, plan, switch, next, audit :
        /\ readiness = file["readiness"] /\ plan = file["plan"]
        /\ switch = killSwitch /\ next = Oldest
        /\ audit = AuditOf(runs, request.readinessLimit, "all")
  OBVIOUS
<1>2. PICK fails \in SUBSET {"plan"}, t \in Since :
        readiness = ReadinessOf(plan, plan, switch, next, request.required, audit, fails, t)
  BY <1>1 DEF QuietReadiness
<1>3. /\ readiness.plan = plan /\ readiness.hash = plan /\ readiness.killSwitch = switch
      /\ readiness.next = next /\ readiness.required = request.required
      /\ readiness.audit = audit /\ readiness.at = t
      /\ readiness.warned = PendingWarns(next, request.required) \cup AuditWarns(audit)
      /\ "plan" \in DOMAIN readiness
  BY <1>2 DEF ReadinessOf, ReadinessChecks
<1>4. readiness # NoFile
  <2>1. "plan" \notin DOMAIN NoFile
    BY DEF NoFile
  <2> QED
    BY <1>3, <2>1
<1>5. ValidReadiness(readiness) /\ Ready(readiness)
  BY <1>1, <1>4 DEF Settled, FilesTyped, QuietReadiness
<1> QED
  BY <1>1, <1>2, <1>3, <1>4, <1>5

LEMMA AuditSays ==
  ASSUME Settled, NEW request, QuietAudit(request)
  PROVE  LET content == file["audit"] IN
         /\ content # NoFile /\ ValidAudit(content.audit) /\ content.at \in Since
         /\ content.audit = AuditOf(runs, request.auditLimit, request.filter)
<1>1. PICK content, audit :
        content = file["audit"] /\ audit = AuditOf(runs, request.auditLimit, request.filter)
  OBVIOUS
<1>2. PICK t \in Since : content = AuditFileOf(audit, t)
  BY <1>1 DEF QuietAudit
<1>3. content.audit = audit /\ content.at = t /\ "audit" \in DOMAIN content
  BY <1>2 DEF AuditFileOf
<1>4. content # NoFile
  <2>1. "audit" \notin DOMAIN NoFile
    BY DEF NoFile
  <2> QED
    BY <1>3, <2>1
<1>5. ValidAudit(content.audit)
  BY <1>1, <1>4 DEF Settled, FilesTyped
<1> QED
  BY <1>1, <1>2, <1>3, <1>4, <1>5

LEMMA DeployCheckSays ==
  ASSUME Settled, NEW request, QuietDeployCheck(request)
  PROVE  LET report == file["deployCheck"]  plan == file["plan"]
             readiness == file["readiness"]  audit == file["audit"] IN
         /\ report # NoFile /\ ValidDeployCheck(report) /\ Ready(report)
         /\ report.plan = plan /\ report.readiness = readiness /\ report.audit = audit
         /\ report.source = request.source /\ report.selected = plan.decision
         /\ report.at \in Since
         /\ CapitalFits(plan) /\ ReviewedReadiness(readiness)
         /\ ReadinessAdmits(readiness, plan, audit, plan.decision)
<1>1. PICK report, plan, readiness, audit, source, decision :
        /\ report = file["deployCheck"] /\ plan = file["plan"]
        /\ readiness = file["readiness"] /\ audit = file["audit"]
        /\ source = request.source /\ decision = request.decision
  OBVIOUS
<1>2. PICK t \in Since : report = DeployCheckOf(plan, readiness, audit, source, decision, t)
  BY <1>1 DEF QuietDeployCheck
<1>3. /\ report.plan = plan /\ report.readiness = readiness /\ report.audit = audit
      /\ report.source = source /\ report.at = t
      /\ report.failed = DeployFails(plan, readiness, audit, source, decision, t)
      /\ report.selected = (IF SourceHolds(plan, source, decision)
                              THEN plan.decision ELSE NoDecision)
      /\ "plan" \in DOMAIN report
  BY <1>2 DEF DeployCheckOf
<1>4. report # NoFile
  <2>1. "plan" \notin DOMAIN NoFile
    BY DEF NoFile
  <2> QED
    BY <1>3, <2>1
<1>5. ValidDeployCheck(report) /\ Ready(report)
  BY <1>1, <1>4 DEF Settled, FilesTyped, QuietDeployCheck
<1>6. DeployPasses(plan, readiness, audit, source, decision, t)
  BY <1>3, <1>5, DeployFailsEmpty DEF Ready
<1>7. /\ SourceHolds(plan, source, decision) /\ CapitalFits(plan)
      /\ ReviewedReadiness(readiness)
      /\ ReadinessAdmits(readiness, plan, audit, plan.decision)
  BY <1>6 DEF DeployPasses
<1> QED
  BY <1>1, <1>2, <1>3, <1>4, <1>5, <1>7

LEMMA OpsReportSays ==
  ASSUME Settled, NEW request, QuietOpsReport(request)
  PROVE  LET report == file["opsReport"] IN
         /\ report # NoFile /\ ValidOpsReport(report) /\ report.status = "CLEAR"
         /\ report.at \in Since
<1>1. PICK report : report = file["opsReport"]
  OBVIOUS
<1>2. PICK t \in Since :
        report = OpsReportOf(killSwitch, Oldest, FALSE, FALSE,
                             AuditOf(runs, request.readinessLimit, "all"), NoFile, t)
  BY <1>1 DEF QuietOpsReport
<1>3. report.at = t /\ "status" \in DOMAIN report
  BY <1>2 DEF OpsReportOf
<1>4. report # NoFile
  <2>1. "status" \notin DOMAIN NoFile
    BY DEF NoFile
  <2> QED
    BY <1>3, <2>1
<1> QED
  BY <1>1, <1>2, <1>3, <1>4 DEF Settled, FilesTyped, QuietOpsReport

\* A check that should pass finds its decision at the head of the queue.
LEMMA FitSays ==
  ASSUME Settled, NEW request \in Flags, Fit(request)
  PROVE  LET audit == AuditOf(runs, request.readinessLimit, "all") IN
         /\ ~killSwitch.active /\ Oldest \in MicroSized /\ Oldest # NoDecision
         /\ Oldest \in recorded /\ PlannedDecision(request) = Oldest
         /\ request.required /\ audit.review = "CLEAR"
         /\ AuditOf(runs, request.auditLimit, request.filter) = audit
<1>1. recorded \subseteq Decisions
  BY DEF Settled, LedgerHolds, LedgerTyped
<1>2. /\ ~killSwitch.active /\ Oldest \in MicroSized /\ request.required
      /\ request.source = "decision-id" => request.decision = Oldest
  BY DEF Fit
<1>3. Oldest # NoDecision /\ Oldest \in recorded
  BY <1>1, <1>2, OldestIsPending, DecisionsAssumption DEF NoDecision, Pending
<1>4. PlannedDecision(request) = Oldest
  BY <1>2 DEF PlannedDecision, Flags, Sources
<1> QED
  BY <1>2, <1>3, <1>4 DEF Fit
-----------------------------------------------------------------------------
(* Its steps.                                                               *)

LEMMA RemainingMoves ==
  ASSUME NEW todo \in Seq(STRING), NEW place, Remaining(todo, place)
  PROVE  /\ todo # <<>> /\ Head(todo) = FirstOrder[place]
         /\ place # 7 => Tail(todo) # <<>> /\ Remaining(Tail(todo), place + 1)
         /\ place = 7 => Tail(todo) = <<>>
<1>1. place \in 1..7 /\ Len(todo) = 8 - place /\ Len(todo) # 0
      /\ \A i \in 1..8 - place : todo[i] = FirstOrder[place - 1 + i]
  BY DEF Remaining
<1>2. todo # <<>>
  BY <1>1, EmptySeq
<1>3. Head(todo) = todo[1]
  BY <1>2
<1>4. 1 \in 1..8 - place /\ place - 1 + 1 = place
  BY <1>1
<1>5. Head(todo) = FirstOrder[place]
  BY <1>1, <1>3, <1>4
<1>6. PICK rest \in Seq(STRING) : rest = Tail(todo)
  BY <1>2, HeadTailProperties
<1>7. Len(rest) = 7 - place /\ \A i \in 1..7 - place : rest[i] = todo[i + 1]
  BY <1>1, <1>2, <1>6, HeadTailProperties
<1>8. ASSUME place # 7 PROVE rest # <<>> /\ Remaining(rest, place + 1)
  <2>1. rest # <<>>
    BY <1>1, <1>7, <1>8, EmptySeq
  <2>2. place + 1 \in 1..7 /\ Len(rest) = 8 - (place + 1)
    BY <1>1, <1>7, <1>8
  <2>3. ASSUME NEW i \in 1..8 - (place + 1)
        PROVE  rest[i] = FirstOrder[place + 1 - 1 + i]
    <3>1. i \in 1..7 - place /\ i + 1 \in 1..8 - place
          /\ place - 1 + (i + 1) = place + 1 - 1 + i
      BY <1>1
    <3> QED
      BY <1>1, <1>7, <3>1
  <2> QED
    BY <2>1, <2>2, <2>3 DEF Remaining
<1>9. place = 7 => rest = <<>>
  BY <1>7, EmptySeq
<1> QED
  BY <1>2, <1>5, <1>6, <1>8, <1>9

\* While it runs, invocation c is at this place of the script.
QuietAt(c, place) ==
  /\ Settled /\ QuietTyped /\ c # NoCheck /\ quiet.check = c /\ quiet.status = "running"
  /\ quiet.request \in Flags /\ FirstOrderFlags(quiet.request)
  /\ DOMAIN check = Checks /\ c \in Checks /\ CheckTyped(c)
  /\ check[c].status = "running" /\ check[c].request = quiet.request
  /\ Remaining(check[c].todo, place)
  /\ QuietFiles(quiet.request, place)
  /\ QuietSeen(check[c].seen, check[c].stage, place)

LEMMA QuietPlace ==
  ASSUME NEW c, NEW place, QuietAt(c, place)
  PROVE  place \in 1..7 /\ Head(check[c].todo) = FirstOrder[place]
<1>1. PICK todo \in Seq(STRING) : todo = check[c].todo
  BY DEF QuietAt, CheckTyped
<1> QED
  BY <1>1, RemainingMoves DEF QuietAt, Remaining

\* Which command it is about to run.
LEMMA CommandAt ==
  ASSUME NEW place \in 1..7
  PROVE  /\ FirstOrder[place] = "kill-switch" => place = 1
         /\ FirstOrder[place] = "plan" => place = 2
         /\ FirstOrder[place] = "readiness" => place = 3
         /\ FirstOrder[place] = "audit" => place = 4
         /\ FirstOrder[place] = "deploy-check" => place = 5
         /\ FirstOrder[place] = "ops-report" => place = 6
         /\ FirstOrder[place] = "verify" => place = 7
         /\ FirstOrder[place] \notin {"review", "post-order-ops"}
<1>1. /\ FirstOrder[1] = "kill-switch" /\ FirstOrder[2] = "plan"
      /\ FirstOrder[3] = "readiness" /\ FirstOrder[4] = "audit"
      /\ FirstOrder[5] = "deploy-check" /\ FirstOrder[6] = "ops-report"
      /\ FirstOrder[7] = "verify"
  BY DEF FirstOrder
<1>2. \/ place = 1 \/ place = 2 \/ place = 3 \/ place = 4
      \/ place = 5 \/ place = 6 \/ place = 7
  OBVIOUS
<1> QED
  BY <1>1, <1>2

\* What does not move with the steps of an invocation.
Unmoved ==
  UNCHANGED <<clock, database, smoke>> /\ quiet'.since = quiet.since
    /\ quiet'.request = quiet.request

LEMMA UnmovedKeeps ==
  ASSUME Unmoved
  PROVE  /\ Since' = Since /\ Oldest' = Oldest /\ Born' = Born
         /\ \A request : PlannedDecision(request)' = PlannedDecision(request)
         /\ \A request : Fit(request)' <=> Fit(request)
         /\ Wanted' <=> Wanted
<1>1. Since' = Since
  BY DEF Unmoved, Since
<1>2. Oldest' = Oldest
  BY DEF Unmoved, database, Oldest, Pending
<1>0. Born' = Born
  BY DEF Unmoved, Born
<1>3. ASSUME NEW request
      PROVE  /\ PlannedDecision(request)' = PlannedDecision(request)
             /\ Fit(request)' <=> Fit(request)
  BY <1>2 DEF Unmoved, database, PlannedDecision, Fit
<1>4. PICK request : request = quiet.request
  OBVIOUS
<1>5. Wanted' <=> Wanted
  BY <1>3, <1>4 DEF Unmoved, Wanted
<1> QED
  BY <1>0, <1>1, <1>2, <1>3, <1>5

LEMMA ReadKeepsQuiet ==
  ASSUME NEW c, NEW place, QuietAt(c, place), NEW stage, NEW seen,
         Read(c, stage, seen), QuietSeen(seen, stage, place)
  PROVE  QuietTyped' /\ QuietHolds'
<1>1. quiet' = quiet /\ file' = file /\ UNCHANGED <<clock, database, smoke>> /\ c \in Checks
      /\ place \in 1..7
  BY QuietPlace DEF QuietAt, Read
<1>2. Unmoved
  BY <1>1 DEF Unmoved
<1>3. PICK request \in Flags : request = quiet.request
  BY DEF QuietAt
<1>4. QuietFiles(request, place)'
  BY <1>1, <1>2, <1>3, UnmovedKeeps DEF database, QuietAt, QuietFiles, QuietKillSwitch, QuietPlan,
     QuietReadiness, QuietAudit, QuietDeployCheck, QuietOpsReport
<1>5. QuietSeen(seen, stage, place)'
  BY <1>1, <1>2, UnmovedKeeps DEF database, QuietSeen
<1>6. /\ check'[c].seen = seen /\ check'[c].stage = stage
      /\ check'[c].status = "running" /\ check'[c].request = quiet.request
      /\ check'[c].todo = check[c].todo
  BY ReadMoves DEF QuietAt
<1>7. PICK todo : todo = check[c].todo
  OBVIOUS
<1>8. Remaining(todo, place)
  BY <1>7 DEF QuietAt
<1>9. QuietRuns'
  BY <1>1, <1>3, <1>4, <1>5, <1>6, <1>7, <1>8 DEF QuietRuns, QuietAt
<1>10. QuietTyped'
  BY <1>1 DEF QuietAt, QuietTyped
<1> QED
  BY <1>1, <1>3, <1>9, <1>10 DEF QuietHolds, QuietAt

LEMMA ReturnKeepsQuiet ==
  ASSUME NEW c, NEW place, QuietAt(c, place), NEW good, Return(c, good),
         Wanted => good,
         good /\ place # 7 => QuietFiles(quiet.request, place + 1)',
         good /\ place = 7 => Fit(quiet.request)
  PROVE  QuietTyped' /\ QuietHolds'
<1>1. PICK todo \in Seq(STRING) : todo = check[c].todo
  BY DEF QuietAt, CheckTyped
<1>2. /\ place \in 1..7
      /\ place # 7 => Tail(todo) # <<>> /\ Remaining(Tail(todo), place + 1)
      /\ place = 7 => Tail(todo) = <<>>
  <2>1. Remaining(todo, place)
    BY <1>1 DEF QuietAt
  <2> QED
    BY <2>1, QuietPlace, RemainingMoves
<1>3. PICK request \in Flags : request = quiet.request
  BY DEF QuietAt
<1> DEFINE status == IF ~good THEN "failed"
                     ELSE IF Tail(check[c].todo) = <<>> THEN "passed" ELSE "running"
<1>4. quiet' = [quiet EXCEPT !.status = status] /\ UNCHANGED <<clock, database, smoke>>
  BY DEF Return, QuietAt
<1>5. status \in {"running", "passed", "failed", "done"}
  OBVIOUS
<1>6. status = (IF ~good THEN "failed" ELSE IF place = 7 THEN "passed" ELSE "running")
  BY <1>1, <1>2
<1> HIDE DEF status
<1>7. /\ DOMAIN quiet' = DOMAIN Disturbed /\ quiet'.status = status
      /\ quiet'.check = c /\ quiet'.since = quiet.since /\ quiet'.request = request
  BY <1>3, <1>4 DEF QuietAt, QuietTyped, Disturbed
<1>8. QuietTyped'
  BY <1>4, <1>5, <1>7 DEF QuietAt, QuietTyped
<1>9. Unmoved
  BY <1>3, <1>4, <1>7 DEF Unmoved
<1>10. /\ DOMAIN check' = Checks
       /\ check'[c].seen = NothingSeen /\ check'[c].stage = "start"
       /\ IF good /\ Tail(todo) # <<>>
            THEN /\ check'[c].status = "running" /\ check'[c].request = request
                 /\ check'[c].todo = Tail(todo)
            ELSE check'[c].status = "done"
  BY <1>1, <1>3, ReturnMoves DEF QuietAt
<1>11. CASE good /\ place # 7
  <2>1. PICK next \in 1..7 : next = place + 1
    BY <1>2, <1>11
  <2>2. QuietFiles(request, next)'
    BY <1>3, <1>7, <1>11, <2>1
  <2>3. QuietSeen(NothingSeen, "start", next)'
    BY DEF QuietSeen
  <2>4. PICK rest : rest = Tail(todo)
    OBVIOUS
  <2>5. Remaining(rest, next)
    BY <1>2, <1>11, <2>1, <2>4
  <2>6. QuietRuns'
    BY <1>2, <1>7, <1>10, <1>11, <2>1, <2>2, <2>3, <2>4, <2>5 DEF QuietRuns
  <2> QED
    BY <1>3, <1>6, <1>7, <1>8, <1>11, <2>6 DEF QuietHolds, QuietAt
<1>12. CASE good /\ place = 7
  <2>1. Fit(request)'
    BY <1>3, <1>9, <1>12, UnmovedKeeps
  <2> QED
    BY <1>2, <1>3, <1>6, <1>7, <1>8, <1>10, <1>12, <2>1 DEF QuietHolds, QuietAt
<1>13. CASE ~good
  <2>1. ~Wanted'
    BY <1>9, <1>13, UnmovedKeeps
  <2> QED
    BY <1>3, <1>6, <1>7, <1>8, <1>10, <1>13, <2>1 DEF QuietHolds, QuietAt
<1> QED
  BY <1>11, <1>12, <1>13

LEMMA GoodKeepsQuiet ==
  ASSUME NEW c, NEW place, QuietAt(c, place), Return(c, TRUE), place # 7,
         NEW request, request = quiet.request, NEW next, next = place + 1,
         QuietFiles(request, next)'
  PROVE  QuietTyped' /\ QuietHolds'
<1>1. PICK good : good = TRUE
  OBVIOUS
<1>2. Return(c, good)
  BY <1>1
<1>3. QuietFiles(quiet.request, place + 1)'
  <2>1. quiet'.request = quiet.request
    BY DEF Return, QuietAt, QuietTyped, Disturbed
  <2> QED
    BY <2>1
<1>4. (Wanted => good) /\ (good /\ place = 7 => Fit(quiet.request))
  BY <1>1
<1> QED
  BY <1>2, <1>3, <1>4, ReturnKeepsQuiet

LEMMA BadKeepsQuiet ==
  ASSUME NEW c, NEW place, QuietAt(c, place), Return(c, FALSE), ~Wanted
  PROVE  QuietTyped' /\ QuietHolds'
<1>1. PICK good : good = FALSE
  OBVIOUS
<1>2. Return(c, good)
  BY <1>1
<1>3. /\ Wanted => good
      /\ ~(good /\ place # 7) /\ ~(good /\ place = 7)
  BY <1>1
<1> QED
  BY <1>2, <1>3, ReturnKeepsQuiet
\* A command that writes its file leaves the others, and the database.
LEMMA EarlierFiles ==
  ASSUME NEW c, NEW place, QuietAt(c, place), NEW request, request = quiet.request,
         UNCHANGED <<clock, database, smoke>>, quiet'.since = quiet.since,
         quiet'.request = quiet.request,
         place > 1 => file'["killSwitch"] = file["killSwitch"],
         place > 2 => file'["plan"] = file["plan"],
         place > 3 => file'["readiness"] = file["readiness"],
         place > 4 => file'["audit"] = file["audit"],
         place > 5 => file'["deployCheck"] = file["deployCheck"]
  PROVE  /\ place > 1 => QuietKillSwitch'
         /\ place > 2 => QuietPlan(request)'
         /\ place > 3 => QuietReadiness(request)'
         /\ place > 4 => QuietAudit(request)'
         /\ place > 5 => QuietDeployCheck(request)'
<1>1. place \in 1..7 /\ QuietFiles(request, place)
  BY QuietPlace, CommandAt DEF QuietAt
<1>2. /\ Since' = Since /\ Oldest' = Oldest /\ Born' = Born
      /\ PlannedDecision(request)' = PlannedDecision(request)
      /\ killSwitch' = killSwitch /\ runs' = runs /\ recorded' = recorded
  BY UnmovedKeeps DEF Unmoved, database
<1>3. place > 1 => QuietKillSwitch'
  BY <1>1, <1>2 DEF QuietFiles, QuietKillSwitch
<1>4. place > 2 => QuietPlan(request)'
  BY <1>1, <1>2 DEF QuietFiles, QuietPlan
<1>5. place > 3 => QuietReadiness(request)'
  BY <1>1, <1>2 DEF QuietFiles, QuietReadiness
<1>6. place > 4 => QuietAudit(request)'
  BY <1>1, <1>2 DEF QuietFiles, QuietAudit
<1>7. place > 5 => QuietDeployCheck(request)'
  BY <1>1, <1>2 DEF QuietFiles, QuietDeployCheck
<1> QED
  BY <1>3, <1>4, <1>5, <1>6, <1>7

\* Return keeps what the check is about.
LEMMA ReturnUnmoved ==
  ASSUME NEW c, NEW place, QuietAt(c, place), NEW good, Return(c, good)
  PROVE  /\ UNCHANGED <<clock, database, smoke>> /\ quiet'.since = quiet.since
         /\ quiet'.request = quiet.request
         /\ Since' = Since /\ Oldest' = Oldest /\ Born' = Born
         /\ killSwitch' = killSwitch /\ runs' = runs /\ recorded' = recorded
<1>1. UNCHANGED <<clock, database, smoke>> /\ quiet'.since = quiet.since
      /\ quiet'.request = quiet.request
  BY DEF Return, QuietAt, QuietTyped, Disturbed
<1> QED
  BY <1>1, UnmovedKeeps DEF Unmoved, database

LEMMA QuietKillSwitchState ==
  ASSUME NEW c, NEW place, QuietAt(c, place), KillSwitchState(c)
  PROVE  QuietTyped' /\ QuietHolds'
<1>1. place = 1
  <2>1. place \in 1..7 /\ FirstOrder[place] = "kill-switch"
    BY QuietPlace DEF KillSwitchState, At
  <2> QED
    BY <2>1, CommandAt
<1>2. PICK request \in Flags : request = quiet.request
  BY DEF QuietAt
<1>3. /\ Return(c, TRUE) /\ file' = [file EXCEPT !["killSwitch"] = KillSwitchFileOf(killSwitch, clock)]
  BY DEF KillSwitchState, Leave
<1>4. DOMAIN file = Slots
  BY DEF QuietAt, Settled, FilesTyped
<1>5. file'["killSwitch"] = KillSwitchFileOf(killSwitch, clock)
  BY <1>3, <1>4 DEF Slots
<1>6. clock \in Since
  BY NowIsSince DEF QuietAt
<1>7. QuietKillSwitch'
  BY <1>3, <1>5, <1>6, ReturnUnmoved DEF QuietKillSwitch
<1>8. PICK next : next = 2
  OBVIOUS
<1>9. QuietFiles(request, next)'
  BY <1>7, <1>8 DEF QuietFiles
<1>10. next = place + 1 /\ place # 7
  BY <1>1, <1>8
<1> QED
  BY <1>2, <1>3, <1>9, <1>10, GoodKeepsQuiet

LEMMA QuietOrderPlan ==
  ASSUME NEW c, NEW place, QuietAt(c, place), OrderPlan(c)
  PROVE  QuietTyped' /\ QuietHolds'
<1>1. place = 2
  <2>1. place \in 1..7 /\ FirstOrder[place] = "plan"
    BY QuietPlace DEF OrderPlan, At
  <2> QED
    BY <2>1, CommandAt
<1>2. PICK request \in Flags : request = quiet.request /\ request = check[c].request
  BY DEF QuietAt
<1>3. PICK d : d = PlannedDecision(request)
  OBVIOUS
<1>4. CASE d \in recorded
  <2>1. /\ Return(c, TRUE)
        /\ file' = [file EXCEPT !["plan"] = PlanOf(request.source, d, request.run, Born[d], clock)]
    BY <1>2, <1>3, <1>4 DEF OrderPlan, Leave
  <2>2. DOMAIN file = Slots
    BY DEF QuietAt, Settled, FilesTyped
  <2>3. /\ file'["plan"] = PlanOf(request.source, d, request.run, Born[d], clock)
        /\ file'["killSwitch"] = file["killSwitch"]
    BY <2>1, <2>2 DEF Slots
  <2>4. clock \in Since
    BY NowIsSince DEF QuietAt
  <2>5. d = PlannedDecision(request)'
    BY <1>3, <2>1, ReturnUnmoved DEF PlannedDecision
  <2>6. QuietPlan(request)'
    BY <1>4, <2>1, <2>3, <2>4, <2>5, ReturnUnmoved DEF QuietPlan
  <2>7. QuietKillSwitch'
    <3>1. /\ UNCHANGED <<clock, database, smoke>> /\ quiet'.since = quiet.since
          /\ quiet'.request = quiet.request
      BY <2>1, ReturnUnmoved
    <3>2. place > 1 /\ ~(place > 2) /\ ~(place > 3) /\ ~(place > 4) /\ ~(place > 5)
      BY <1>1
    <3> QED
      BY <1>2, <2>3, <3>1, <3>2, EarlierFiles
  <2>8. PICK next : next = 3
    OBVIOUS
  <2>9. QuietFiles(request, next)'
    BY <2>6, <2>7, <2>8 DEF QuietFiles
  <2>10. next = place + 1 /\ place # 7
    BY <1>1, <2>8
  <2> QED
    BY <1>2, <2>1, <2>9, <2>10, GoodKeepsQuiet
<1>5. CASE d \notin recorded
  <2>1. Return(c, FALSE)
    BY <1>2, <1>3, <1>5 DEF OrderPlan
  <2>2. ~Wanted
    BY <1>2, <1>3, <1>5, FitSays DEF Wanted, QuietAt
  <2> QED
    BY <1>1, <2>1, <2>2, BadKeepsQuiet
<1> QED
  BY <1>4, <1>5

LEMMA QuietLoopAudit ==
  ASSUME NEW c, NEW place, QuietAt(c, place), LoopAudit(c)
  PROVE  QuietTyped' /\ QuietHolds'
<1>1. place = 4
  <2>1. place \in 1..7 /\ FirstOrder[place] = "audit"
    BY QuietPlace DEF LoopAudit, At
  <2> QED
    BY <2>1, CommandAt
<1>2. PICK request \in Flags : request = quiet.request /\ request = check[c].request
  BY DEF QuietAt
<1> DEFINE content == AuditFileOf(AuditOf(runs, request.auditLimit, request.filter), clock)
<1>3. Return(c, TRUE) /\ file' = [file EXCEPT !["audit"] = content]
  BY <1>2 DEF LoopAudit, Leave
<1>4. DOMAIN file = Slots
  BY DEF QuietAt, Settled, FilesTyped
<1> HIDE DEF content
<1>5. /\ file'["audit"] = content
      /\ file'["killSwitch"] = file["killSwitch"] /\ file'["plan"] = file["plan"]
      /\ file'["readiness"] = file["readiness"]
  BY <1>3, <1>4 DEF Slots
<1>6. clock \in Since
  BY NowIsSince DEF QuietAt
<1>7. QuietAudit(request)'
  BY <1>3, <1>5, <1>6, ReturnUnmoved DEF QuietAudit, content
<1>8. QuietKillSwitch' /\ QuietPlan(request)' /\ QuietReadiness(request)'
  <2>1. /\ UNCHANGED <<clock, database, smoke>> /\ quiet'.since = quiet.since
        /\ quiet'.request = quiet.request
    BY <1>3, ReturnUnmoved
  <2>2. place > 1 /\ place > 2 /\ place > 3 /\ ~(place > 4) /\ ~(place > 5)
    BY <1>1
  <2> QED
    BY <1>2, <1>5, <2>1, <2>2, EarlierFiles
<1>9. PICK next : next = 5
  OBVIOUS
<1>10. QuietFiles(request, next)'
  BY <1>7, <1>8, <1>9 DEF QuietFiles
<1>11. next = place + 1 /\ place # 7
  BY <1>1, <1>9
<1> QED
  BY <1>2, <1>3, <1>10, <1>11, GoodKeepsQuiet
\* live-readiness, from one read to the next.
LEMMA QuietLoadPlan ==
  ASSUME NEW c, NEW place, QuietAt(c, place), LoadPlan(c)
  PROVE  QuietTyped' /\ QuietHolds'
<1>1. place = 3
  <2>1. place \in 1..7 /\ FirstOrder[place] = "readiness"
    BY QuietPlace DEF LoadPlan, At
  <2> QED
    BY <2>1, CommandAt
<1>2. QuietPlan(quiet.request)
  BY <1>1 DEF QuietAt, QuietFiles
<1>3. file["plan"] # NoFile /\ ValidPlan(file["plan"])
  <2>1. PICK request : request = quiet.request
    OBVIOUS
  <2> QED
    BY <1>2, <2>1, PlanSays DEF QuietAt
<1> DEFINE seen == [NothingSeen EXCEPT !.plan = file["plan"]]
<1>4. Read(c, "hash", seen)
  BY <1>3 DEF LoadPlan
<1>5. seen.plan = file["plan"]
  BY DEF NothingSeen
<1> HIDE DEF seen
<1>6. QuietSeen(seen, "hash", place)
  BY <1>1, <1>5 DEF QuietSeen
<1> QED
  BY <1>4, <1>6, ReadKeepsQuiet

LEMMA QuietHashPlan ==
  ASSUME NEW c, NEW place, QuietAt(c, place), HashPlan(c)
  PROVE  QuietTyped' /\ QuietHolds'
<1>1. place = 3
  <2>1. place \in 1..7 /\ FirstOrder[place] = "readiness"
    BY QuietPlace DEF HashPlan, At
  <2> QED
    BY <2>1, CommandAt
<1>2. check[c].seen.plan = file["plan"] /\ DOMAIN check[c].seen = DOMAIN NothingSeen
  BY <1>1 DEF QuietAt, QuietSeen, HashPlan, At, CheckTyped
<1> DEFINE seen == [check[c].seen EXCEPT !.hash = file["plan"], !.killSwitch = killSwitch]
<1>3. Read(c, "queue", seen)
  BY DEF HashPlan
<1>4. seen.plan = file["plan"] /\ seen.hash = file["plan"] /\ seen.killSwitch = killSwitch
  BY <1>2 DEF NothingSeen
<1> HIDE DEF seen
<1>5. QuietSeen(seen, "queue", place)
  BY <1>1, <1>4 DEF QuietSeen
<1> QED
  BY <1>3, <1>5, ReadKeepsQuiet

LEMMA QuietCheckPlan ==
  ASSUME NEW c, NEW place, QuietAt(c, place), CheckPlan(c)
  PROVE  QuietTyped' /\ QuietHolds'
<1>1. place = 3
  <2>1. place \in 1..7 /\ FirstOrder[place] = "readiness"
    BY QuietPlace DEF CheckPlan, At
  <2> QED
    BY <2>1, CommandAt
<1>2. /\ check[c].seen.plan = file["plan"] /\ check[c].seen.hash = file["plan"]
      /\ check[c].seen.killSwitch = killSwitch
      /\ DOMAIN check[c].seen = DOMAIN NothingSeen
  BY <1>1 DEF QuietAt, QuietSeen, CheckPlan, At, CheckTyped
<1> DEFINE fails == PlanFails(check[c].seen.plan, Oldest, recorded, Born, clock)
           seen == [check[c].seen EXCEPT !.next = Oldest, !.fails = fails]
<1>3. Read(c, "audit", seen)
  BY DEF CheckPlan
<1>4. Wanted => fails = {}
  <2>1. PICK request \in Flags : request = quiet.request
    BY DEF QuietAt
  <2>2. PICK plan : plan = file["plan"]
    OBVIOUS
  <2>3. /\ plan.source = request.source /\ plan.decision = PlannedDecision(request)
        /\ plan.decision \in recorded /\ plan.at \in Since
        /\ plan.born = Born[plan.decision]
    BY <1>1, <2>1, <2>2, PlanSays DEF QuietAt, QuietFiles
  <2>4. ASSUME Wanted PROVE PlanFresh(plan, clock)
    BY <2>3, <2>4, YoungIsFresh DEF Wanted, PlanFresh, QuietAt
  <2>5. plan.source = "select-pending" => plan.decision = Oldest
    BY <2>3 DEF PlannedDecision
  <2> QED
    BY <1>2, <2>2, <2>3, <2>4, <2>5 DEF PlanFails, PlannedOrder
<1> HIDE DEF fails
<1>5. /\ seen.plan = file["plan"] /\ seen.hash = file["plan"]
      /\ seen.killSwitch = killSwitch /\ seen.next = Oldest /\ seen.fails = fails
  BY <1>2 DEF NothingSeen
<1> HIDE DEF seen
<1>6. QuietSeen(seen, "audit", place)
  BY <1>1, <1>4, <1>5 DEF QuietSeen
<1> QED
  BY <1>3, <1>6, ReadKeepsQuiet

LEMMA QuietWriteReadiness ==
  ASSUME NEW c, NEW place, QuietAt(c, place), WriteReadiness(c)
  PROVE  QuietTyped' /\ QuietHolds'
<1>1. place = 3
  <2>1. place \in 1..7 /\ FirstOrder[place] = "readiness"
    BY QuietPlace DEF WriteReadiness, At
  <2> QED
    BY <2>1, CommandAt
<1>2. PICK request \in Flags : request = quiet.request /\ request = check[c].request
  BY DEF QuietAt
<1>3. PICK plan, switch, next, fails, audit :
        /\ plan = file["plan"] /\ switch = killSwitch /\ next = Oldest
        /\ fails = check[c].seen.fails
        /\ audit = AuditOf(runs, request.readinessLimit, "all")
  OBVIOUS
<1>4. /\ check[c].seen.plan = plan /\ check[c].seen.hash = plan
      /\ check[c].seen.killSwitch = switch /\ check[c].seen.next = next
      /\ Wanted => fails = {}
      /\ fails \in SUBSET {"plan"}
  BY <1>1, <1>3 DEF QuietAt, QuietSeen, WriteReadiness, At, CheckTyped
<1>5. PICK report :
        report = ReadinessOf(plan, plan, switch, next, request.required, audit, fails, clock)
  OBVIOUS
<1>6. Return(c, Ready(report)) /\ file' = [file EXCEPT !["readiness"] = report]
  BY <1>2, <1>3, <1>4, <1>5 DEF WriteReadiness, Leave
<1>7. DOMAIN file = Slots
  BY DEF QuietAt, Settled, FilesTyped
<1>8. /\ file'["readiness"] = report
      /\ file'["killSwitch"] = file["killSwitch"] /\ file'["plan"] = file["plan"]
  BY <1>6, <1>7 DEF Slots
<1>9. /\ UNCHANGED <<clock, database, smoke>> /\ quiet'.since = quiet.since
      /\ quiet'.request = quiet.request
      /\ Since' = Since /\ Oldest' = Oldest
      /\ killSwitch' = killSwitch /\ runs' = runs
  BY <1>6, ReturnUnmoved
<1>10. Wanted => Ready(report)
  <2>1. SUFFICES ASSUME Wanted PROVE report.failed = {}
    BY DEF Ready
  <2>2. /\ ~switch.active /\ next # NoDecision /\ audit.review = "CLEAR" /\ fails = {}
    BY <1>2, <1>3, <1>4, <2>1, FitSays DEF Wanted, QuietAt
  <2>3. report.failed = KillSwitchFails(switch) \cup PendingFails(next, request.required)
                          \cup fails \cup AuditFails(audit)
    BY <1>5 DEF ReadinessOf, ReadinessChecks
  <2> QED
    BY <2>2, <2>3 DEF KillSwitchFails, PendingFails, AuditFails
<1>11. ASSUME Ready(report) PROVE QuietFiles(request, 4)'
  <2>1. clock \in Since
    BY NowIsSince DEF QuietAt
  <2>2. QuietReadiness(request)'
    BY <1>3, <1>4, <1>5, <1>8, <1>9, <1>11, <2>1 DEF QuietReadiness
  <2>3. place > 1 /\ place > 2 /\ ~(place > 3) /\ ~(place > 4) /\ ~(place > 5)
    BY <1>1
  <2>4. QuietKillSwitch' /\ QuietPlan(request)'
    BY <1>2, <1>8, <1>9, <2>3, EarlierFiles
  <2> QED
    BY <2>2, <2>4 DEF QuietFiles
<1>12. PICK good : good = Ready(report)
  OBVIOUS
<1>13. Return(c, good) /\ (Wanted => good) /\ place # 7
  BY <1>1, <1>6, <1>10, <1>12
<1>14. good => QuietFiles(quiet.request, place + 1)'
  <2>1. PICK after : after = 4
    OBVIOUS
  <2>2. good => QuietFiles(request, after)'
    BY <1>11, <1>12, <2>1
  <2>3. place + 1 = after
    BY <1>1, <2>1
  <2>4. quiet'.request = request
    BY <1>2, <1>9
  <2> QED
    BY <2>2, <2>3, <2>4
<1> QED
  BY <1>13, <1>14, ReturnKeepsQuiet
\* live-deploy-check, of the three files that the commands before it have left.
LEMMA QuietDeployPasses ==
  ASSUME NEW c, NEW place, QuietAt(c, place), place = 5, Wanted
  PROVE  DeployPasses(file["plan"], file["readiness"], file["audit"],
                      quiet.request.source, quiet.request.decision, clock)
<1>1. PICK request \in Flags : request = quiet.request
  BY DEF QuietAt
<1>2. PICK plan, readiness, content, audit :
        /\ plan = file["plan"] /\ readiness = file["readiness"] /\ content = file["audit"]
        /\ audit = AuditOf(runs, request.readinessLimit, "all")
  OBVIOUS
<1>3. QuietPlan(request) /\ QuietReadiness(request) /\ QuietAudit(request)
  BY <1>1 DEF QuietAt, QuietFiles
<1>4. /\ ~killSwitch.active /\ Oldest \in MicroSized /\ Oldest # NoDecision
      /\ PlannedDecision(request) = Oldest /\ audit.review = "CLEAR"
      /\ AuditOf(runs, request.auditLimit, request.filter) = audit /\ request.required
  BY <1>1, <1>2, FitSays DEF Wanted, QuietAt
<1>5. /\ plan # NoFile /\ plan.source = request.source /\ plan.decision = Oldest
      /\ plan.at \in Since
  BY <1>2, <1>3, <1>4, PlanSays DEF QuietAt
<1>6. /\ ValidReadiness(readiness) /\ Ready(readiness)
      /\ readiness.plan = plan /\ readiness.hash = plan
      /\ readiness.killSwitch = killSwitch /\ readiness.next = Oldest
      /\ readiness.audit = audit /\ readiness.at \in Since
      /\ readiness.warned = PendingWarns(Oldest, request.required) \cup AuditWarns(audit)
  BY <1>2, <1>3, ReadinessSays DEF QuietAt
<1>7. readiness.required = request.required
  BY <1>2, <1>3, ReadinessSays DEF QuietAt
<1>8. content # NoFile /\ ValidAudit(content.audit) /\ content.at \in Since
      /\ content.audit = audit
  BY <1>2, <1>3, <1>4, AuditSays DEF QuietAt
<1>9. SourceHolds(plan, request.source, request.decision)
  BY <1>4, <1>5 DEF SourceHolds, PlannedDecision
<1>10. CapitalFits(plan)
  BY <1>4, <1>5 DEF CapitalFits
<1>11. AllFresh(plan, readiness, content, clock)
  <2>1. Settled /\ clock - quiet.since <= MaxAge
    BY DEF QuietAt, Wanted
  <2> QED
    BY <1>5, <1>6, <1>8, <2>1, YoungIsFresh DEF AllFresh, PlanFresh, ReadinessFresh, AuditFresh
<1>12. ReviewedReadiness(readiness)
  BY <1>4, <1>6 DEF ReviewedReadiness, PendingWarns, AuditWarns
<1>13. ReadinessAdmits(readiness, plan, content, plan.decision)
  <2>1. SamePlan(readiness, plan)
    BY <1>5, <1>6 DEF SamePlan
  <2>2. SameAudit(readiness, content)
    BY <1>6, <1>8 DEF SameAudit
  <2>3. readiness.required
    BY <1>4, <1>7
  <2> QED
    BY <1>4, <1>5, <1>6, <1>8, <2>1, <2>2, <2>3 DEF ReadinessAdmits
<1> QED
  BY <1>1, <1>2, <1>9, <1>10, <1>11, <1>12, <1>13 DEF DeployPasses

LEMMA QuietDeployCheckStep ==
  ASSUME NEW c, NEW place, QuietAt(c, place), DeployCheck(c)
  PROVE  QuietTyped' /\ QuietHolds'
<1>1. place = 5
  <2>1. place \in 1..7 /\ FirstOrder[place] = "deploy-check"
    BY QuietPlace DEF DeployCheck, At
  <2> QED
    BY <2>1, CommandAt
<1>2. PICK request \in Flags : request = quiet.request /\ request = check[c].request
  BY DEF QuietAt
<1>3. DeployLoads
  <2>1. QuietPlan(request) /\ QuietReadiness(request) /\ QuietAudit(request)
    BY <1>1, <1>2 DEF QuietAt, QuietFiles
  <2>2. Settled
    BY DEF QuietAt
  <2> QED
    BY <2>1, <2>2, PlanSays, ReadinessSays, AuditSays DEF DeployLoads
<1>4. PICK plan, readiness, audit, source, decision :
        /\ plan = file["plan"] /\ readiness = file["readiness"] /\ audit = file["audit"]
        /\ source = request.source /\ decision = request.decision
  OBVIOUS
<1>5. PICK report : report = DeployCheckOf(plan, readiness, audit, source, decision, clock)
  OBVIOUS
<1>6. Return(c, Ready(report)) /\ file' = [file EXCEPT !["deployCheck"] = report]
  BY <1>2, <1>3, <1>4, <1>5 DEF DeployCheck, Leave
<1>7. DOMAIN file = Slots
  BY DEF QuietAt, Settled, FilesTyped
<1>8. /\ file'["deployCheck"] = report
      /\ file'["killSwitch"] = file["killSwitch"] /\ file'["plan"] = file["plan"]
      /\ file'["readiness"] = file["readiness"] /\ file'["audit"] = file["audit"]
  BY <1>6, <1>7 DEF Slots
<1>9. /\ UNCHANGED <<clock, database, smoke>> /\ quiet'.since = quiet.since
      /\ quiet'.request = quiet.request /\ Since' = Since
  BY <1>6, ReturnUnmoved
<1>10. Wanted => Ready(report)
  <2>1. report.failed = DeployFails(plan, readiness, audit, source, decision, clock)
    BY <1>5 DEF DeployCheckOf
  <2>2. PICK now : now = clock
    OBVIOUS
  <2>3. Wanted => DeployPasses(plan, readiness, audit, source, decision, now)
    BY <1>1, <1>2, <1>4, <2>2, QuietDeployPasses
  <2> QED
    BY <2>1, <2>2, <2>3, DeployFailsEmpty DEF Ready
<1>11. ASSUME Ready(report) PROVE QuietFiles(request, 6)'
  <2>1. clock \in Since
    BY NowIsSince DEF QuietAt
  <2>2. QuietDeployCheck(request)'
    BY <1>4, <1>5, <1>8, <1>9, <1>11, <2>1 DEF QuietDeployCheck
  <2>3. place > 1 /\ place > 2 /\ place > 3 /\ place > 4 /\ ~(place > 5)
    BY <1>1
  <2>4. QuietKillSwitch' /\ QuietPlan(request)' /\ QuietReadiness(request)'
        /\ QuietAudit(request)'
    BY <1>2, <1>8, <1>9, <2>3, EarlierFiles
  <2> QED
    BY <2>2, <2>4 DEF QuietFiles
<1>12. PICK good : good = Ready(report)
  OBVIOUS
<1>13. Return(c, good) /\ (Wanted => good) /\ place # 7
  BY <1>1, <1>6, <1>10, <1>12
<1>14. good => QuietFiles(quiet.request, place + 1)'
  <2>1. PICK after : after = 6
    OBVIOUS
  <2>2. good => QuietFiles(request, after)'
    BY <1>11, <1>12, <2>1
  <2>3. place + 1 = after
    BY <1>1, <2>1
  <2>4. quiet'.request = request
    BY <1>2, <1>9
  <2> QED
    BY <2>2, <2>3, <2>4
<1> QED
  BY <1>13, <1>14, ReturnKeepsQuiet

\* live-ops-report before the order, from one read to the next.
LEMMA QuietBeginOpsReport ==
  ASSUME NEW c, NEW place, QuietAt(c, place), BeginOpsReport(c, "ops-report")
  PROVE  QuietTyped' /\ QuietHolds'
<1>1. place = 6
  <2>1. place \in 1..7 /\ FirstOrder[place] = "ops-report"
    BY QuietPlace DEF BeginOpsReport, At
  <2> QED
    BY <2>1, CommandAt
<1> DEFINE seen == [NothingSeen EXCEPT !.review = NoFile, !.at = clock,
                                       !.killSwitch = killSwitch]
<1>2. Read(c, "queue", seen)
  BY <1>1 DEF BeginOpsReport
<1>3. seen.review = NoFile /\ seen.at = clock /\ seen.killSwitch = killSwitch
  BY DEF NothingSeen
<1> HIDE DEF seen
<1>4. clock \in Since
  BY NowIsSince DEF QuietAt
<1>5. QuietSeen(seen, "queue", place)
  BY <1>1, <1>3, <1>4 DEF QuietSeen
<1> QED
  BY <1>2, <1>5, ReadKeepsQuiet

LEMMA QuietReadQueue ==
  ASSUME NEW c, NEW place, QuietAt(c, place), ReadQueue(c, "ops-report")
  PROVE  QuietTyped' /\ QuietHolds'
<1>1. place = 6
  <2>1. place \in 1..7 /\ FirstOrder[place] = "ops-report"
    BY QuietPlace DEF ReadQueue, At
  <2> QED
    BY <2>1, CommandAt
<1>2. /\ check[c].seen.review = NoFile /\ check[c].seen.at \in Since
      /\ check[c].seen.killSwitch = killSwitch
      /\ DOMAIN check[c].seen = DOMAIN NothingSeen
  BY <1>1 DEF QuietAt, QuietSeen, ReadQueue, At, CheckTyped
<1> DEFINE seen == [check[c].seen EXCEPT !.next = Oldest]
<1>3. Read(c, "audit", seen)
  BY DEF ReadQueue
<1>4. /\ seen.review = NoFile /\ seen.at \in Since /\ seen.killSwitch = killSwitch
      /\ seen.next = Oldest
  BY <1>2 DEF NothingSeen
<1> HIDE DEF seen
<1>5. QuietSeen(seen, "audit", place)
  BY <1>1, <1>4 DEF QuietSeen
<1> QED
  BY <1>3, <1>5, ReadKeepsQuiet

LEMMA QuietWriteOpsReport ==
  ASSUME NEW c, NEW place, QuietAt(c, place), WriteOpsReport(c, "ops-report")
  PROVE  QuietTyped' /\ QuietHolds'
<1>1. place = 6
  <2>1. place \in 1..7 /\ FirstOrder[place] = "ops-report"
    BY QuietPlace DEF WriteOpsReport, At
  <2> QED
    BY <2>1, CommandAt
<1>2. PICK request \in Flags : request = quiet.request /\ request = check[c].request
  BY DEF QuietAt
<1>3. PICK switch, next, audit, at :
        /\ switch = killSwitch /\ next = Oldest /\ at = check[c].seen.at
        /\ audit = AuditOf(runs, request.readinessLimit, "all")
  OBVIOUS
<1>4. /\ check[c].seen.review = NoFile /\ check[c].seen.killSwitch = switch
      /\ check[c].seen.next = next /\ at \in Since
  BY <1>1, <1>3 DEF QuietAt, QuietSeen, WriteOpsReport, At
<1>5. PICK report : report = OpsReportOf(switch, next, FALSE, FALSE, audit, NoFile, at)
  OBVIOUS
<1>6. Return(c, report.status = "CLEAR") /\ file' = [file EXCEPT !["opsReport"] = report]
  BY <1>1, <1>2, <1>3, <1>4, <1>5 DEF WriteOpsReport, Leave
<1>7. DOMAIN file = Slots
  BY DEF QuietAt, Settled, FilesTyped
<1>8. /\ file'["opsReport"] = report
      /\ file'["killSwitch"] = file["killSwitch"] /\ file'["plan"] = file["plan"]
      /\ file'["readiness"] = file["readiness"] /\ file'["audit"] = file["audit"]
      /\ file'["deployCheck"] = file["deployCheck"]
  BY <1>6, <1>7 DEF Slots
<1>9. /\ UNCHANGED <<clock, database, smoke>> /\ quiet'.since = quiet.since
      /\ quiet'.request = quiet.request /\ Since' = Since /\ Oldest' = Oldest
      /\ killSwitch' = killSwitch /\ runs' = runs
  BY <1>6, ReturnUnmoved
<1>10. Wanted => report.status = "CLEAR"
  <2>1. SUFFICES ASSUME Wanted PROVE report.status = "CLEAR"
    OBVIOUS
  <2>2. /\ ~switch.active /\ next # NoDecision /\ audit.review = "CLEAR"
    BY <1>2, <1>3, <2>1, FitSays DEF Wanted, QuietAt
  <2>3. OpsFails(switch, FALSE, FALSE, audit, NoFile, at) = {}
    BY <2>2 DEF OpsFails, KillSwitchFails, AuditFails, ReviewFails
  <2>4. OpsWarns(next, FALSE, audit) = {}
    BY <2>2 DEF OpsWarns, PendingWarns, AuditWarns
  <2> QED
    BY <1>5, <2>3, <2>4 DEF OpsReportOf, OpsStatus
<1>11. ASSUME report.status = "CLEAR" PROVE QuietFiles(request, 7)'
  <2>1. QuietOpsReport(request)'
    BY <1>3, <1>4, <1>5, <1>8, <1>9, <1>11 DEF QuietOpsReport
  <2>2. place > 1 /\ place > 2 /\ place > 3 /\ place > 4 /\ place > 5
    BY <1>1
  <2>3. QuietKillSwitch' /\ QuietPlan(request)' /\ QuietReadiness(request)'
        /\ QuietAudit(request)' /\ QuietDeployCheck(request)'
    BY <1>2, <1>8, <1>9, <2>2, EarlierFiles
  <2> QED
    BY <2>1, <2>3 DEF QuietFiles
<1>12. PICK good : good = (report.status = "CLEAR")
  OBVIOUS
<1>13. Return(c, good) /\ (Wanted => good) /\ place # 7
  <2>1. Return(c, good)
    BY <1>6, <1>12, Zenon
  <2>2. Wanted => good
    BY <1>10, <1>12, Zenon
  <2> QED
    BY <1>1, <2>1, <2>2
<1>14. good => QuietFiles(quiet.request, place + 1)'
  <2>1. PICK after : after = 7
    OBVIOUS
  <2>2. good => QuietFiles(request, after)'
    BY <1>11, <1>12, <2>1
  <2>3. place + 1 = after
    BY <1>1, <2>1
  <2>4. quiet'.request = request
    BY <1>2, <1>9
  <2> QED
    BY <2>2, <2>3, <2>4
<1> QED
  BY <1>13, <1>14, ReturnKeepsQuiet
\* live-handoff-verify: what it finds when the check should pass,
LEMMA QuietFilesAgree ==
  ASSUME NEW c, NEW place, QuietAt(c, place), place = 7
  PROVE  LET request == quiet.request IN
         /\ QuietKillSwitch /\ QuietPlan(request) /\ QuietReadiness(request)
         /\ QuietAudit(request) /\ QuietDeployCheck(request) /\ QuietOpsReport(request)
BY DEF QuietAt, QuietFiles

LEMMA QuietVerifyPasses ==
  ASSUME NEW c, NEW place, QuietAt(c, place), place = 7, Wanted
  PROVE  LET request == quiet.request IN
         /\ Loaded(AllFiles, file) /\ FilesAdmit(AllFiles, file, clock)
         /\ SourceHolds(file["plan"], request.source, request.decision)
         /\ ReadinessHolds(AllFiles, file, file["plan"].decision)
         /\ DeployHolds(AllFiles, file, request.source, file["plan"].decision,
                        request.bound)
<1>1. PICK request \in Flags : request = quiet.request
  BY DEF QuietAt
<1>2. PICK plan, readiness, audit, report, state, ops :
        /\ plan = file["plan"] /\ readiness = file["readiness"] /\ audit = file["audit"]
        /\ report = file["deployCheck"] /\ state = file["killSwitch"]
        /\ ops = file["opsReport"]
  OBVIOUS
<1>3. Settled /\ clock - quiet.since <= MaxAge
  BY DEF QuietAt, Wanted
<1>4. /\ QuietKillSwitch /\ QuietPlan(request) /\ QuietReadiness(request)
      /\ QuietAudit(request) /\ QuietDeployCheck(request) /\ QuietOpsReport(request)
  BY <1>1, QuietFilesAgree
<1>5. ~killSwitch.active /\ PlannedDecision(request) = Oldest
  BY <1>1, FitSays DEF Wanted, QuietAt
<1>6. /\ plan # NoFile /\ ValidPlan(plan) /\ plan.source = request.source
      /\ plan.decision = Oldest /\ plan.at \in Since
  BY <1>2, <1>3, <1>4, <1>5, PlanSays
<1>7. state # NoFile /\ state.killSwitch = killSwitch /\ state.at \in Since
  BY <1>2, <1>4, KillSwitchSays
<1>8. /\ readiness # NoFile /\ ValidReadiness(readiness)
      /\ readiness.killSwitch = killSwitch /\ readiness.at \in Since
  BY <1>2, <1>3, <1>4, ReadinessSays
<1>9. audit # NoFile /\ ValidAudit(audit.audit) /\ audit.at \in Since
  BY <1>2, <1>3, <1>4, AuditSays
<1>10. /\ report # NoFile /\ ValidDeployCheck(report) /\ Ready(report)
       /\ report.plan = plan /\ report.readiness = readiness /\ report.audit = audit
       /\ report.source = request.source /\ report.selected = plan.decision
       /\ report.at \in Since
       /\ ReadinessAdmits(readiness, plan, audit, plan.decision)
  BY <1>2, <1>3, <1>4, DeployCheckSays
<1>11. /\ ops # NoFile /\ ValidOpsReport(ops) /\ ops.status = "CLEAR" /\ ops.at \in Since
  BY <1>2, <1>3, <1>4, OpsReportSays
<1>12. Loaded(AllFiles, file)
  BY <1>2, <1>6, <1>7, <1>8, <1>9, <1>10, <1>11 DEF Loaded, AllFiles
<1>13. /\ PlanFresh(plan, clock) /\ ReadinessFresh(readiness, clock)
       /\ Fresh(state, clock, MaxAge) /\ AuditFresh(audit, clock)
       /\ DeployCheckFresh(report, clock) /\ OpsReportFresh(ops, clock)
  BY <1>3, <1>6, <1>7, <1>8, <1>9, <1>10, <1>11, YoungIsFresh
     DEF PlanFresh, ReadinessFresh, AuditFresh, DeployCheckFresh, OpsReportFresh
<1>14. FilesAdmit(AllFiles, file, clock)
  BY <1>2, <1>5, <1>6, <1>7, <1>11, <1>13
     DEF FilesAdmit, KillSwitchAdmits, InactiveState, OpsAdmits
<1>15. SourceHolds(plan, request.source, request.decision)
  BY <1>5, <1>6 DEF SourceHolds, PlannedDecision
<1>16. ReadinessHolds(AllFiles, file, plan.decision)
  BY <1>2, <1>7, <1>8, <1>10 DEF ReadinessHolds, Given, AllFiles, SameKillSwitch
<1>17. DeployHolds(AllFiles, file, request.source, plan.decision, request.bound)
  <2>1. request.bound = 1
    BY <1>1 DEF QuietAt, FirstOrderFlags
  <2> QED
    BY <1>2, <1>10, <2>1 DEF DeployHolds, DeployAdmits, CheckedPlan, CheckedReadiness,
       CheckedAudit, CheckedExecution
<1> QED
  BY <1>1, <1>2, <1>12, <1>14, <1>15, <1>16, <1>17

\* and what it says of the database when it passes.
LEMMA QuietVerifyMeans ==
  ASSUME NEW c, NEW place, QuietAt(c, place), place = 7,
         FilesAdmit(AllFiles, file, clock)
  PROVE  Fit(quiet.request)
<1>1. PICK request \in Flags : request = quiet.request
  BY DEF QuietAt
<1>2. PICK plan, readiness, content, report, state, audit :
        /\ plan = file["plan"] /\ readiness = file["readiness"] /\ content = file["audit"]
        /\ report = file["deployCheck"] /\ state = file["killSwitch"]
        /\ audit = AuditOf(runs, request.readinessLimit, "all")
  OBVIOUS
<1>3. Settled
  BY DEF QuietAt
<1>4. /\ QuietKillSwitch /\ QuietPlan(request) /\ QuietReadiness(request)
      /\ QuietAudit(request) /\ QuietDeployCheck(request)
  BY <1>1, QuietFilesAgree
<1>5. plan.source = request.source /\ plan.decision = PlannedDecision(request)
      /\ plan # NoFile
  BY <1>2, <1>3, <1>4, PlanSays
<1>6. readiness.next = Oldest /\ readiness.audit = audit
  BY <1>2, <1>3, <1>4, ReadinessSays
<1>7. readiness.required = request.required
  BY <1>2, <1>3, <1>4, ReadinessSays
<1>8. content # NoFile /\ content.audit = AuditOf(runs, request.auditLimit, request.filter)
  BY <1>2, <1>3, <1>4, AuditSays
<1>9. /\ CapitalFits(plan) /\ ReviewedReadiness(readiness)
      /\ ReadinessAdmits(readiness, plan, content, plan.decision)
  BY <1>2, <1>3, <1>4, DeployCheckSays
<1>10. plan.decision \in MicroSized /\ plan.decision # NoDecision
  BY <1>9, DecisionsAssumption DEF CapitalFits, NoDecision
<1>11. Oldest = plan.decision /\ readiness.required /\ SameAudit(readiness, content)
  BY <1>6, <1>8, <1>9, <1>10 DEF ReadinessAdmits
<1>12. ~killSwitch.active
  <2>1. state.killSwitch = killSwitch
    BY <1>2, <1>4, KillSwitchSays
  <2>2. InactiveState(state)
    BY <1>2 DEF FilesAdmit, KillSwitchAdmits, AllFiles
  <2> QED
    BY <2>1, <2>2 DEF InactiveState
<1>13. request.source = "decision-id" => request.decision = Oldest
  BY <1>5, <1>11 DEF PlannedDecision
<1>14. audit.review = "CLEAR"
  BY <1>6, <1>9 DEF ReviewedReadiness
<1>15. AuditOf(runs, request.auditLimit, request.filter) = audit
  <2>1. PICK other : other = AuditOf(runs, request.auditLimit, request.filter)
    OBVIOUS
  <2>2. /\ audit.limit = other.limit /\ audit.running = other.running
        /\ audit.completed = other.completed /\ audit.failed = other.failed
        /\ audit.review = other.review /\ audit.run = other.run
    BY <1>6, <1>8, <1>11, <2>1 DEF SameAudit
  <2>3. /\ DOMAIN audit = {"limit", "running", "failed", "completed", "review", "run"}
        /\ audit = [n \in DOMAIN audit |-> audit[n]]
    BY <1>2 DEF AuditOf
  <2>4. /\ DOMAIN other = {"limit", "running", "failed", "completed", "review", "run"}
        /\ other = [n \in DOMAIN other |-> other[n]]
    BY <2>1 DEF AuditOf
  <2>5. \A n \in DOMAIN audit : audit[n] = other[n]
    BY <2>2, <2>3
  <2> QED
    BY <2>1, <2>3, <2>4, <2>5
<1>16. request.required
  BY <1>7, <1>11
<1> QED
  BY <1>1, <1>2, <1>10, <1>11, <1>12, <1>13, <1>14, <1>15, <1>16 DEF Fit

LEMMA QuietVerify ==
  ASSUME NEW c, NEW place, QuietAt(c, place), Verify(c)
  PROVE  QuietTyped' /\ QuietHolds'
<1>1. place = 7
  <2>1. place \in 1..7 /\ FirstOrder[place] = "verify"
    BY QuietPlace DEF Verify, At
  <2> QED
    BY <2>1, CommandAt
<1>2. check[c].request = quiet.request
  BY DEF QuietAt
<1> DEFINE request == quiet.request
           passes == /\ Loaded(AllFiles, file)
                     /\ FilesAdmit(AllFiles, file, clock)
                     /\ SourceHolds(file["plan"], request.source, request.decision)
                     /\ ReadinessHolds(AllFiles, file, file["plan"].decision)
                     /\ DeployHolds(AllFiles, file, request.source,
                                    file["plan"].decision, request.bound)
<1>3. Return(c, passes)
  BY <1>2 DEF Verify
<1>4. Wanted => passes
  BY <1>1, QuietVerifyPasses
<1>5. passes => Fit(quiet.request)
  BY <1>1, QuietVerifyMeans
<1> HIDE DEF passes
<1>6. PICK good : good = passes
  OBVIOUS
<1>7. Return(c, good)
  BY <1>3, <1>6
<1>8. (Wanted => good) /\ ~(good /\ place # 7) /\ (good /\ place = 7 => Fit(quiet.request))
  BY <1>1, <1>4, <1>5, <1>6
<1> QED
  BY <1>7, <1>8, ReturnKeepsQuiet

\* Every step of its own keeps an undisturbed check on its way.
LEMMA QuietStep ==
  ASSUME NEW c, NEW place, QuietAt(c, place), Command(c)
  PROVE  QuietTyped' /\ QuietHolds'
<1>1. ASSUME NEW script \in Scripts[c],
             BeginFirstOrder(c, script) \/ BeginPostOrder(c, script) \/ BeginOne(c, script)
      PROVE  FALSE
  BY <1>1 DEF BeginFirstOrder, BeginPostOrder, BeginOne, Begin, QuietAt
<1>2. CASE KillSwitchState(c)
  BY <1>2, QuietKillSwitchState
<1>3. CASE OrderPlan(c)
  BY <1>3, QuietOrderPlan
<1>4. CASE LoadPlan(c)
  BY <1>4, QuietLoadPlan
<1>5. CASE HashPlan(c)
  BY <1>5, QuietHashPlan
<1>6. CASE CheckPlan(c)
  BY <1>6, QuietCheckPlan
<1>7. CASE WriteReadiness(c)
  BY <1>7, QuietWriteReadiness
<1>8. CASE LoopAudit(c)
  BY <1>8, QuietLoopAudit
<1>9. CASE DeployCheck(c)
  BY <1>9, QuietDeployCheckStep
<1>10. ASSUME NEW command \in {"ops-report", "post-order-ops"},
              \/ BeginOpsReport(c, command) \/ ReadQueue(c, command)
              \/ WriteOpsReport(c, command)
       PROVE  QuietTyped' /\ QuietHolds'
  <2>1. place \in 1..7 /\ FirstOrder[place] = command
    BY <1>10, QuietPlace DEF BeginOpsReport, ReadQueue, WriteOpsReport, At
  <2>2. command = "ops-report"
    BY <2>1, CommandAt
  <2> QED
    BY <1>10, <2>2, QuietBeginOpsReport, QuietReadQueue, QuietWriteOpsReport
<1>11. CASE Verify(c)
  BY <1>11, QuietVerify
<1>12. CASE FirstOrderReview(c)
  <2>1. place \in 1..7 /\ FirstOrder[place] = "review"
    BY <1>12, QuietPlace DEF FirstOrderReview, At
  <2> QED
    BY <2>1, CommandAt
<1> QED
  BY <1>1, <1>2, <1>3, <1>4, <1>5, <1>6, <1>7, <1>8, <1>9, <1>10, <1>11, <1>12 DEF Command
\* A new first-order check has everything before it.
LEMMA BeginQuiet ==
  ASSUME clock \in Times, NEW c \in Checks, DOMAIN check = Checks, NEW script \in Scripts[c],
         BeginFirstOrder(c, script) \/ BeginPostOrder(c, script) \/ BeginOne(c, script)
  PROVE  QuietTyped' /\ QuietHolds'
<1>1. clock \in Nat /\ clock' = clock
  BY BoundsAssumption DEF Times, BeginFirstOrder, BeginPostOrder, BeginOne, Begin
<1>2. CASE quiet' = Disturbed
  BY <1>1, <1>2 DEF Disturbed, QuietTyped, QuietHolds
<1>3. CASE BeginFirstOrder(c, script)
  <2>1. quiet' = [check |-> c, request |-> script.request, since |-> clock,
                  status |-> "running"]
    BY <1>3 DEF BeginFirstOrder
  <2>2. /\ DOMAIN quiet' = DOMAIN Disturbed /\ quiet'.check = c /\ quiet'.status = "running"
        /\ quiet'.request = script.request /\ quiet'.since = clock
    BY <2>1 DEF Disturbed
  <2>3. QuietTyped'
    BY <1>1, <2>2 DEF QuietTyped
  <2>4. check' = [check EXCEPT ![c] = [Idle EXCEPT
          !.status = "running", !.todo = script.commands, !.request = script.request]]
    BY <1>3 DEF BeginFirstOrder, Begin
  <2>5. /\ check'[c].status = "running" /\ check'[c].request = script.request
        /\ check'[c].todo = FirstOrder /\ check'[c].stage = "start"
    BY <1>3, <2>4 DEF Idle, BeginFirstOrder
  <2>6. script.request \in Flags /\ FirstOrderFlags(script.request)
    BY <1>3, RequestsAssumption DEF BeginFirstOrder
  <2>7. Remaining(FirstOrder, 1)
    <3>1. Len(FirstOrder) = 7
      BY DEF FirstOrder
    <3>2. ASSUME NEW i \in 1..8 - 1 PROVE FirstOrder[i] = FirstOrder[1 - 1 + i]
      OBVIOUS
    <3> QED
      BY <3>1, <3>2 DEF Remaining
  <2>8. PICK request : request = script.request
    OBVIOUS
  <2>9. QuietFiles(request, 1)'
    BY DEF QuietFiles
  <2>10. QuietSeen(check[c].seen, check[c].stage, 1)'
    BY DEF QuietSeen
  <2>11. QuietRuns'
    BY <2>2, <2>5, <2>7, <2>8, <2>9, <2>10 DEF QuietRuns
  <2> QED
    BY <2>2, <2>3, <2>6, <2>11 DEF QuietHolds
<1> QED
  BY <1>2, <1>3 DEF BeginPostOrder, BeginOne

\* As time passes less is wanted of it.
LEMMA TickQuiet ==
  ASSUME Settled, QuietTyped, QuietHolds, Tick
  PROVE  QuietTyped' /\ QuietHolds'
<1>1. /\ clock \in Nat /\ clock' = clock + 1 /\ quiet.since \in 0..clock
      /\ UNCHANGED <<database, smoke, file, check, loop, quiet>>
  BY BoundsAssumption DEF Settled, Times, Tick
<1>2. QuietTyped'
  <2>1. PICK since \in 0..clock : since = quiet.since
    BY <1>1
  <2>2. since \in 0..clock + 1
    BY <1>1
  <2> QED
    BY <1>1, <2>1, <2>2 DEF QuietTyped
<1>3. CASE quiet.check = NoCheck
  BY <1>1, <1>2, <1>3 DEF QuietHolds
<1>4. CASE quiet.check # NoCheck
  <2>1. PICK request \in Flags : request = quiet.request
    BY <1>4 DEF QuietHolds
  <2>2. \A t \in Since : t \in Since'
    BY <1>1 DEF Since
  <2>3. /\ Oldest' = Oldest /\ PlannedDecision(request)' = PlannedDecision(request)
        /\ (Fit(request)' <=> Fit(request)) /\ Born' = Born
        /\ killSwitch' = killSwitch /\ runs' = runs /\ recorded' = recorded
    <3>1. Oldest' = Oldest
      BY <1>1 DEF database, Oldest, Pending
    <3>2. Born' = Born
      BY <1>1 DEF Born
    <3> QED
      BY <1>1, <3>1, <3>2 DEF database, PlannedDecision, Fit
  <2>4. Wanted' => Wanted
    <3>1. clock + 1 - quiet.since <= MaxAge => clock - quiet.since <= MaxAge
      BY <1>1, AgesAssumption
    <3> QED
      BY <1>1, <2>1, <2>3, <3>1 DEF Wanted
  <2>5. ASSUME NEW place \in 1..7, QuietFiles(request, place)
        PROVE  QuietFiles(request, place)'
    <3>1. QuietKillSwitch => QuietKillSwitch'
      BY <1>1, <2>2, <2>3 DEF QuietKillSwitch
    <3>2. QuietPlan(request) => QuietPlan(request)'
      BY <1>1, <2>2, <2>3 DEF QuietPlan
    <3>3. QuietReadiness(request) => QuietReadiness(request)'
      BY <1>1, <2>2, <2>3 DEF QuietReadiness
    <3>4. QuietAudit(request) => QuietAudit(request)'
      BY <1>1, <2>2, <2>3 DEF QuietAudit
    <3>5. QuietDeployCheck(request) => QuietDeployCheck(request)'
      BY <1>1, <2>2 DEF QuietDeployCheck
    <3>6. QuietOpsReport(request) => QuietOpsReport(request)'
      BY <1>1, <2>2, <2>3 DEF QuietOpsReport
    <3> QED
      BY <2>5, <3>1, <3>2, <3>3, <3>4, <3>5, <3>6 DEF QuietFiles
  <2>6. ASSUME quiet.status = "running" PROVE QuietRuns'
    <3>1. PICK mine : mine = check[quiet.check]
      OBVIOUS
    <3>2. mine.status = "running" /\ mine.request = quiet.request
      BY <1>4, <2>6, <3>1 DEF QuietHolds, QuietRuns
    <3>3. PICK place \in 1..7 :
            /\ Remaining(mine.todo, place) /\ QuietFiles(request, place)
            /\ QuietSeen(mine.seen, mine.stage, place)
      BY <1>4, <2>1, <2>6, <3>1 DEF QuietHolds, QuietRuns
    <3>4. PICK seen, stage : seen = mine.seen /\ stage = mine.stage
      OBVIOUS
    <3>5. QuietSeen(seen, stage, place)'
      BY <1>1, <2>2, <2>3, <2>4, <3>3, <3>4 DEF QuietSeen
    <3>6. QuietFiles(request, place)'
      BY <2>5, <3>3
    <3>7. mine = check'[quiet'.check] /\ quiet'.request = request
      BY <1>1, <2>1, <3>1
    <3> QED
      BY <2>1, <3>2, <3>3, <3>4, <3>5, <3>6, <3>7 DEF QuietRuns
  <2> QED
    BY <1>1, <1>2, <1>4, <2>1, <2>3, <2>4, <2>6 DEF QuietHolds
<1> QED
  BY <1>3, <1>4

LEMMA QuietHoldsStep ==
  ASSUME Settled, DOMAIN check = Checks, \A c \in Checks : CheckTyped(c),
         QuietTyped, QuietHolds, [Next]_vars
  PROVE  QuietTyped' /\ QuietHolds'
<1>1. CASE Outside
  <2>1. quiet' = Disturbed /\ clock' = clock /\ clock \in Nat
    BY <1>1, OutsideDisturbs, BoundsAssumption DEF Disturbing, Settled, Times
  <2> QED
    BY <2>1 DEF QuietTyped, QuietHolds, Disturbed
<1>2. CASE UNCHANGED vars
  <2>1. UNCHANGED <<clock, recorded, order, killSwitch, runs, smoke, file, check, quiet>>
    BY <1>2 DEF vars, database
  <2>2. Oldest' = Oldest /\ Since' = Since /\ Born' = Born
    BY <2>1 DEF Oldest, Pending, Since, Born
  <2>3. QuietTyped'
    BY <2>1 DEF QuietTyped
  <2>4. CASE quiet.check = NoCheck
    BY <2>1, <2>3, <2>4 DEF QuietHolds
  <2>5. CASE quiet.check # NoCheck
    <3>1. PICK request \in Flags : request = quiet.request
      BY <2>5 DEF QuietHolds
    <3>2. /\ PlannedDecision(request)' = PlannedDecision(request)
          /\ (Fit(request)' <=> Fit(request)) /\ (Wanted' <=> Wanted)
      <4>1. /\ PlannedDecision(request)' = PlannedDecision(request)
            /\ (Fit(request)' <=> Fit(request))
        BY <2>1, <2>2 DEF PlannedDecision, Fit
      <4> QED
        BY <2>1, <3>1, <4>1 DEF Wanted
    <3>3. ASSUME NEW place \in 1..7, QuietFiles(request, place)
          PROVE  QuietFiles(request, place)'
      <4>1. QuietKillSwitch => QuietKillSwitch'
        BY <2>1, <2>2 DEF QuietKillSwitch
      <4>2. QuietPlan(request) => QuietPlan(request)'
        BY <2>1, <2>2, <3>2 DEF QuietPlan
      <4>3. QuietReadiness(request) => QuietReadiness(request)'
        BY <2>1, <2>2 DEF QuietReadiness
      <4>4. QuietAudit(request) => QuietAudit(request)'
        BY <2>1, <2>2 DEF QuietAudit
      <4>5. QuietDeployCheck(request) => QuietDeployCheck(request)'
        BY <2>1, <2>2 DEF QuietDeployCheck
      <4>6. QuietOpsReport(request) => QuietOpsReport(request)'
        BY <2>1, <2>2 DEF QuietOpsReport
      <4> QED
        BY <3>3, <4>1, <4>2, <4>3, <4>4, <4>5, <4>6 DEF QuietFiles
    <3>4. ASSUME quiet.status = "running" PROVE QuietRuns'
      <4>1. PICK mine : mine = check[quiet.check]
        OBVIOUS
      <4>2. mine.status = "running" /\ mine.request = quiet.request
        BY <2>5, <3>4, <4>1 DEF QuietHolds, QuietRuns
      <4>3. PICK place \in 1..7 :
              /\ Remaining(mine.todo, place) /\ QuietFiles(request, place)
              /\ QuietSeen(mine.seen, mine.stage, place)
        BY <2>5, <3>1, <3>4, <4>1 DEF QuietHolds, QuietRuns
      <4>4. PICK seen, stage : seen = mine.seen /\ stage = mine.stage
        OBVIOUS
      <4>5. QuietSeen(seen, stage, place)'
        BY <2>1, <2>2, <3>2, <4>3, <4>4 DEF QuietSeen
      <4>6. QuietFiles(request, place)'
        BY <3>3, <4>3
      <4>7. mine = check'[quiet'.check] /\ quiet'.request = request
        BY <2>1, <3>1, <4>1
      <4> QED
        BY <3>1, <4>2, <4>3, <4>4, <4>5, <4>6, <4>7 DEF QuietRuns
    <3> QED
      BY <2>1, <2>3, <2>5, <3>1, <3>2, <3>4 DEF QuietHolds
  <2> QED
    BY <2>4, <2>5
<1>3. CASE Tick
  BY <1>3, TickQuiet
<1>4. ASSUME NEW c \in Checks, Command(c) PROVE QuietTyped' /\ QuietHolds'
  <2>1. CASE \E script \in Scripts[c] :
               BeginFirstOrder(c, script) \/ BeginPostOrder(c, script) \/ BeginOne(c, script)
    BY <2>1, BeginQuiet DEF Settled
  <2>2. ASSUME ~(\E script \in Scripts[c] :
                   BeginFirstOrder(c, script) \/ BeginPostOrder(c, script) \/ BeginOne(c, script))
        PROVE  QuietTyped' /\ QuietHolds'
    <3>1. /\ check[c].status = "running"
          /\ (\E stage, seen : Read(c, stage, seen)) \/ (\E good : Return(c, good))
      BY <1>4, <2>2 DEF Command, KillSwitchState, OrderPlan, LoadPlan, HashPlan, CheckPlan,
         WriteReadiness, LoopAudit, DeployCheck, BeginOpsReport, ReadQueue,
         WriteOpsReport, Verify, FirstOrderReview, Leave, At
    <3>2. CASE quiet.check # c
      <4>1. clock \in Nat
        BY BoundsAssumption DEF Settled, Times
      <4>2. CASE \E stage, seen : Read(c, stage, seen)
        <5>1. quiet' = Disturbed /\ clock' = clock
          BY <3>2, <4>2 DEF Read
        <5> QED
          BY <4>1, <5>1 DEF QuietTyped, QuietHolds, Disturbed
      <4>3. CASE \E good : Return(c, good)
        <5>1. quiet' = Disturbed /\ clock' = clock
          BY <3>2, <4>3 DEF Return
        <5> QED
          BY <4>1, <5>1 DEF QuietTyped, QuietHolds, Disturbed
      <4> QED
        BY <3>1, <4>2, <4>3
    <3>3. CASE quiet.check = c /\ c = NoCheck
      <4>1. CASE \E stage, seen : Read(c, stage, seen)
        BY <3>3, <4>1 DEF Read, QuietTyped, QuietHolds
      <4>2. ASSUME NEW good, Return(c, good) PROVE QuietTyped' /\ QuietHolds'
        <5>1. PICK status \in {"running", "passed", "failed"} :
                quiet' = [quiet EXCEPT !.status = status]
          BY <3>3, <4>2 DEF Return
        <5>2. /\ DOMAIN quiet' = DOMAIN Disturbed /\ quiet'.check = c
              /\ quiet'.status = status /\ quiet'.since = quiet.since
          BY <3>3, <5>1 DEF QuietTyped, Disturbed
        <5>3. clock' = clock
          BY <4>2 DEF Return
        <5> QED
          BY <3>3, <5>2, <5>3 DEF QuietTyped, QuietHolds
      <4> QED
        BY <3>1, <4>1, <4>2
    <3>4. CASE quiet.check = c /\ c # NoCheck
      <4>1. quiet.status = "running"
        BY <3>1, <3>4 DEF QuietHolds
      <4>2. PICK place \in 1..7 :
              /\ Remaining(check[c].todo, place)
              /\ QuietFiles(quiet.request, place)
              /\ QuietSeen(check[c].seen, check[c].stage, place)
        BY <3>4, <4>1 DEF QuietHolds, QuietRuns
      <4>3. QuietAt(c, place)
        BY <3>1, <3>4, <4>1, <4>2 DEF QuietAt, QuietHolds, QuietRuns
      <4> QED
        BY <1>4, <4>3, QuietStep
    <3> QED
      BY <3>2, <3>3, <3>4
  <2> QED
    BY <2>1, <2>2
<1> QED
  BY <1>1, <1>2, <1>3, <1>4, NextSplits

-----------------------------------------------------------------------------
(* The invariant.                                                           *)

LEMMA InitIInv == Init => IInv
<1> SUFFICES ASSUME Init PROVE IInv
  OBVIOUS
<1>1. /\ DOMAIN file = Slots /\ \A s \in Slots : file[s] = NoFile
  BY DEF Init
<1>2. /\ file["plan"] = NoFile /\ file["readiness"] = NoFile /\ file["audit"] = NoFile
      /\ file["deployCheck"] = NoFile /\ file["review"] = NoFile
      /\ file["opsReport"] = NoFile /\ file["postOps"] = NoFile
  BY <1>1 DEF Slots
<1>3. FilesTyped /\ ReadyMeans(file["deployCheck"]) /\ Earned(file["review"])
  BY <1>1, <1>2 DEF FilesTyped, KnownReview, ReadyMeans, Earned
<1>4. ASSUME NEW c \in Checks
      PROVE  CheckTyped(c) /\ SeenHolds(c) /\ Earned(check[c].seen.review)
  <2>1. check[c] = Idle
    BY DEF Init
  <2>2. /\ Idle.seen = NothingSeen /\ Idle.status = "idle" /\ Idle.stage = "start"
        /\ Idle.todo = <<>>
    BY DEF Idle
  <2>3. /\ NothingSeen.plan = NoFile /\ NothingSeen.hash = NoFile
        /\ NothingSeen.review = NoFile /\ NothingSeen.fails = {}
    BY DEF NothingSeen
  <2>4. <<>> \in Seq(STRING)
    BY EmptySeq
  <2> QED
    BY <2>1, <2>2, <2>3, <2>4 DEF CheckTyped, SeenHolds, Earned, KnownReview
<1>5. runs = <<>> /\ Len(runs) = 0 /\ runs \in Seq(RunRows) /\ DOMAIN runs = {}
  <2>1. runs = <<>> /\ runs \in Seq(RunRows) /\ Len(runs) = 0
    BY EmptySeq DEF Init
  <2> QED
    BY <2>1, LenProperties
<1>6. LoopTyped /\ LoopHolds /\ LoopArmed /\ HandoffHolds
  <2>1. loop = NoLoop
    BY DEF Init
  <2> QED
    BY <1>5, <2>1 DEF NoLoop, LoopTyped, LoopHolds, LoopArmed, HandoffHolds
<1>7. QuietTyped /\ QuietHolds
  BY DEF Init, Disturbed, QuietTyped, QuietHolds
<1>8. /\ clock \in Times /\ recorded \subseteq Decisions
      /\ killSwitch \in [active: BOOLEAN, since: 0..MaxEvents]
      /\ lots \in Nat /\ positionRow \in Nat
      /\ smoke \in [stage: {"none", "cleaned", "seeded", "rehearsed", "done"},
                   seeds: 0..MaxSmokes]
      /\ smoke.stage = "none" /\ DOMAIN check = Checks
  BY BoundsAssumption DEF Init, Times
<1>9. order \in [Decisions -> Orders] /\ \A d \in Decisions : order[d] = NoOrder
  <2>1. NoOrder \in Orders
    BY BoundsAssumption DEF NoOrder, Orders, Times
  <2> QED
    BY <2>1 DEF Init
<1>10. JournalsHold
  BY <1>9 DEF JournalsHold, NoOrder, Init
<1>11. RowsHold /\ NoOrderAfterSmoke
  BY <1>5, <1>8 DEF RowsHold, NoOrderAfterSmoke
<1>12. ReviewsHold /\ FilesHold
  BY <1>2, <1>3, <1>4, <1>6 DEF ReviewsHold, FilesHold
<1> QED
  BY <1>3, <1>4, <1>5, <1>6, <1>7, <1>8, <1>9, <1>10, <1>11, <1>12 DEF IInv, TypeOK

\* A smoke that completes journals the order under a row after the loop's, and
\* as long as no other one begins that order stays as it is.
LEMMA NoOrderAfterSmokeStep ==
  ASSUME TypeOK, LedgerHolds, clock \in Times, NoOrderAfterSmoke, [Next]_vars
  PROVE  NoOrderAfterSmoke'
<1>0. /\ runs \in Seq(RunRows) /\ Len(runs) \in Nat /\ loop.row \in 0..Len(runs)
      /\ order \in [Decisions -> Orders] /\ LoopTyped /\ JournalsHold /\ LoopHolds
  BY RunsTyped DEF LedgerHolds, LedgerTyped, LoopTyped
<1>1. CASE SmokeExecute
  <2>1. PICK n \in Nat : n = Len(runs) + 1
    BY <1>0
  <2>2. order' = [order EXCEPT ![Rehearsed] = SmokeOrder("filled")]
        /\ runs' = Append(runs, [Row(SmokeRun, "COMPLETED", 1, Rehearsed)
                                   EXCEPT !.outcome = "submitted"])
        /\ loop' = loop
    BY <1>1 DEF SmokeExecute, SmokeStep
  <2>3. order'[Rehearsed].journal = "filled" /\ order'[Rehearsed].by = n
    BY <1>0, <2>1, <2>2, SmokeOrderTyped, Constants DEF LedgerHolds
  <2>4. runs' \in Seq(RunRows) /\ Len(runs') = n /\ runs'[n].id = SmokeRun
    BY <1>0, <2>1, <2>2, SmokeAppends DEF SmokeRows
  <2>5. n \in DOMAIN runs' /\ loop.row < n
    BY <1>0, <2>1, <2>4, LenProperties
  <2> QED
    BY <2>2, <2>3, <2>4, <2>5 DEF NoOrderAfterSmoke
<1>2. CASE Smoke /\ ~SmokeExecute
  <2>1. smoke'.stage # "done"
    <3>1. PICK stage \in {"none", "cleaned", "seeded", "rehearsed"} :
            \E seeds : SmokeStep(stage, seeds)
      BY <1>2, SmokeStages
    <3> QED
      BY <3>1 DEF SmokeStep
  <2> QED
    BY <2>1 DEF NoOrderAfterSmoke
<1>3. CASE EnvironmentStep \/ Loop
  <2>1. smoke' = smoke
    BY <1>3 DEF EnvironmentStep, RecordDecision, SubmitElsewhere, FillOrder,
       ToggleKillSwitch, ClosePosition, HealthRun, Loop, Arm, Select, Start,
       Preflight, Journal, Post, Observe, Complete, Stop, Crash, LoopStep, Beside
  <2>2. SUFFICES ASSUME smoke.stage = "done" PROVE NoOrderAfterSmoke'
    BY <2>1 DEF NoOrderAfterSmoke
  <2>3. /\ JournalForward(Rehearsed) /\ \A i \in 1..Len(runs) : RowForward(i)
    BY <1>3, EnvironmentOrders, LoopOrders, RunsForward, Constants DEF AllForward, Outside
  <2>4. PICK i \in 1..Len(runs) : i = order[Rehearsed].by /\ runs[i].id = SmokeRun
    BY <1>0, <2>2, LenProperties DEF NoOrderAfterSmoke
  <2>5. order[Rehearsed].journal # "none"
    BY <2>2 DEF NoOrderAfterSmoke
  <2>6. /\ order'[Rehearsed].journal # "none" /\ order'[Rehearsed].by = i
        /\ i \in 1..Len(runs') /\ runs'[i].id = SmokeRun
    BY <2>3, <2>4, <2>5 DEF JournalForward, RowForward
  <2>7. runs' \in Seq(RunRows)
    BY <1>0, <1>3, EnvironmentTyped, LoopTypedStep DEF LedgerTyped
  <2>8. i \in DOMAIN runs'
    BY <2>6, <2>7, LenProperties
  <2>9. ASSUME loop'.phase = "post", loop'.request.decision = Rehearsed
        PROVE  loop'.row < i
    <3>1. CASE loop' = loop
      BY <2>2, <2>4, <2>9, <3>1 DEF NoOrderAfterSmoke
    <3>2. CASE loop' # loop
      <4>1. ~EnvironmentStep
        BY <3>2 DEF EnvironmentStep, RecordDecision, SubmitElsewhere, FillOrder,
           ToggleKillSwitch, ClosePosition, HealthRun
      <4>2. ~(Select \/ Start \/ Observe)
        BY <1>0, <2>9, SelectMoves, StartMoves, ObserveMoves
      <4>3. ~(Complete \/ Stop \/ Crash)
        BY <2>9 DEF Complete, Stop, Crash, NoLoop
      <4>4. ~(\E given \in Handoffs, request \in Requests : Arm(given, request))
        BY <2>9 DEF Arm, NoLoop
      <4>5. ~(Preflight \/ Post)
        BY <1>0, <2>9, PhaseMoves DEF Preflight, Post
      <4>6. Journal
        BY <1>3, <4>1, <4>2, <4>3, <4>4, <4>5 DEF Loop
      <4>7. CASE LoopStep("post") /\ order[loop.request.decision].journal = "none"
        <5>1. loop'.request = loop.request
          BY <1>0, <4>7, PhaseMoves
        <5> QED
          BY <2>5, <2>9, <4>7, <5>1
      <4>8. CASE loop' = [loop EXCEPT !.phase = "observe", !.already = TRUE]
        BY <1>0, <2>9, <4>8 DEF LoopTyped, NoLoop
      <4> QED
        BY <4>6, <4>7, <4>8 DEF Journal
    <3> QED
      BY <3>1, <3>2
  <2> QED
    BY <2>6, <2>8, <2>9, Zenon DEF NoOrderAfterSmoke
<1>4. CASE UNCHANGED ledger
  BY <1>4 DEF ledger, database, NoOrderAfterSmoke
<1> QED
  BY <1>1, <1>2, <1>3, <1>4, NextSplits, CommandKeepsLedger DEF Outside, Tick, vars, ledger

LEMMA StepIInv == IInv /\ [Next]_vars => IInv'
<1> SUFFICES ASSUME IInv, [Next]_vars PROVE IInv'
  OBVIOUS
<1>1. TypeOK /\ JournalsHold /\ RowsHold /\ LoopHolds /\ NoOrderAfterSmoke
      /\ ReviewsHold /\ FilesHold
      /\ HandoffHolds /\ QuietHolds /\ \A c \in Checks : SeenHolds(c)
  BY DEF IInv
<1>2. LedgerHolds /\ LedgerHolds'
  BY <1>1, LedgerStep DEF LedgerHolds, LedgerTyped, TypeOK
<1>3. /\ clock \in Times /\ FilesTyped /\ LoopTyped /\ QuietTyped
      /\ DOMAIN check = Checks /\ \A c \in Checks : CheckTyped(c)
  BY <1>1 DEF TypeOK
<1>4. FilesSafe
  BY <1>1, <1>3 DEF FilesSafe, ReviewsHold, FilesHold
<1>5. \A c \in Checks : RunningHolds(c)
  BY <1>1, <1>3 DEF RunningHolds, ReviewsHold, Known, CheckTyped
<1>6. FilesSafe'
  BY <1>2, <1>3, <1>4, <1>5, FilesStep
<1>7. DOMAIN check' = Checks /\ \A c \in Checks : RunningHolds(c)'
  BY <1>2, <1>3, <1>4, <1>5, FilesSafeFit, ChecksStep
<1>8. LoopSafe'
  BY <1>1, <1>2, <1>3, <1>4, LoopSafeMeans, LoopSafeStep DEF FilesHold, FilesSafe
<1>9. (LoopArmed /\ HandoffHolds)'
  <2>1. (LoopSafe <=> LoopArmed /\ HandoffHolds)'
    BY LoopSafeMeans, PTL
  <2> QED
    BY <1>8, <2>1
<1>10. QuietTyped' /\ QuietHolds'
  <2>1. Settled
    BY <1>2, <1>3 DEF Settled, QuietTyped
  <2> QED
    BY <1>1, <1>3, <2>1, QuietHoldsStep
<1>11. clock' \in Times
  BY <1>3, NextSplits, OutsideDisturbs, CommandKeepsLedger, BoundsAssumption
     DEF Times, Tick, Disturbing, vars
<1>12. TypeOK'
  BY <1>2, <1>6, <1>7, <1>10, <1>11 DEF TypeOK, LedgerHolds, LedgerTyped, FilesSafe, RunningHolds
<1>13. (ReviewsHold /\ FilesHold /\ \A c \in Checks : SeenHolds(c))'
  BY <1>6, <1>7, <1>9 DEF ReviewsHold, FilesHold, FilesSafe, RunningHolds, Known
<1>14. NoOrderAfterSmoke'
  BY <1>1, <1>2, <1>3, NoOrderAfterSmokeStep
<1> QED
  BY <1>2, <1>9, <1>10, <1>12, <1>13, <1>14 DEF IInv, LedgerHolds

\* Whatever the commands read, write and check at whatever instants, every step
\* of scripts, loop, smoke and surroundings keeps the whole invariant.
THEOREM InductiveInvariant == Spec => []IInv
BY InitIInv, StepIInv, PTL DEF Spec

\* Every artifact that a command leaves is one the commands after it can load,
\* and every row and every invocation keeps its shape.
THEOREM TypeCorrect == Spec => []TypeOK
<1>1. IInv => TypeOK
  BY DEF IInv
<1> QED
  BY <1>1, InductiveInvariant, PTL

\* A live-loop that was given all six files submits the order they agree on: at
\* whatever instants they were written and replaced, one plan, one readiness
\* report, one audit, one Kill Switch state and one deployment check.
THEOREM HandoffsHold == Spec => []HandoffHolds
<1>1. IInv => HandoffHolds
  BY DEF IInv
<1> QED
  BY <1>1, InductiveInvariant, PTL

\* A first-order review that is ready is of an order which was placed by the run
\* its plan names, whatever live-submit and the smoke have journaled.
THEOREM ReviewsAreEarned == Spec => []ReviewIsEarned
<1>1. IInv => ReviewIsEarned
  BY DEF IInv, ReviewsHold, Earned, ReviewIsEarned
<1> QED
  BY <1>1, InductiveInvariant, PTL

\* A clear report over an empty queue after the order rests on such a review.
THEOREM IdleReportsAreReviewed == Spec => []IdleIsReviewed
<1>1. IInv => IdleIsReviewed
  BY DEF IInv, ReviewsHold, Earned, IdleIsReviewed
<1> QED
  BY <1>1, InductiveInvariant, PTL

\* However often live-loop-smoke is stopped, cleans up what anybody has done with
\* its decision and makes it up again: once it has completed, no loop and no
\* live-submit begins to order that decision.
THEOREM SmokesEndOrders == Spec => []NoOrderAfterSmoke
<1>1. IInv => NoOrderAfterSmoke
  BY DEF IInv
<1> QED
  BY <1>1, InductiveInvariant, PTL

\* A first-order check that nobody disturbs passes exactly when Kill Switch,
\* queue and audit allow it: no two of its seven commands contradict each other.
THEOREM QuietChecksAreRight == Spec => []QuietCheckIsRight
<1>1. IInv => QuietCheckIsRight
  BY DEF IInv, QuietHolds, Wanted, QuietCheckIsRight
<1> QED
  BY <1>1, InductiveInvariant, PTL
=====
