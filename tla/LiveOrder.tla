------------------------------ MODULE LiveOrder ------------------------------
(***************************************************************************)
(* Submission of approved LIVE risk decisions to the exchange.             *)
(*                                                                         *)
(* Several operator commands may run at once against one PostgreSQL        *)
(* database and one exchange account: live-loop -select-pending (one at a  *)
(* time, guarded by an advisory lock), live-loop -decision-id and          *)
(* live-submit (no lock).  Each run loads one decision, reads the Kill     *)
(* Switch, journals the submission, posts the order with bounded HTTP      *)
(* retries, journals the acknowledgement, then reconciles order status and *)
(* position.  A run may fail or crash between any two of these steps, and  *)
(* a posted request may be lost, delayed past the run's end, or answered   *)
(* by a response nobody receives.                                          *)
(*                                                                         *)
(* A run is one invocation of a command; a rerun is another element of     *)
(* Runs.  The submission and client order identifiers are a function of    *)
(* the decision identifier alone (order_identity.go), so they are          *)
(* represented by the decision itself.  Decisions are numbered in the      *)
(* order of their created_at column, and recorded in any order.            *)
(***************************************************************************)
EXTENDS Naturals, FiniteSets

CONSTANTS Runs,         \* invocations of live-loop and live-submit
          Decisions,    \* risk decisions, numbered by created_at
          Eligible,     \* those that are approved and of mode LIVE
          MaxRetries,   \* Client.maxRetries: POST attempts after the first
          MaxQuantity,  \* final quantity of a decision, in order lots
          MaxClock,     \* bound on the clock readings explored
          None          \* no run, no decision, no order

ASSUME DecisionsAssumption ==
  Decisions \subseteq Nat /\ Eligible \subseteq Decisions
ASSUME BoundsAssumption == /\ MaxRetries \in Nat
                           /\ MaxQuantity \in Nat \ {0}
                           /\ MaxClock \in Nat
ASSUME NoneAssumption == None \notin Runs /\ None \notin Nat

VARIABLES
  recorded,      \* risk_decisions rows
  killSwitch,    \* the current state of the Kill Switch is active
  clock,         \* the clock the runs read
  lock,          \* holder of the pending-selection advisory lock
  pc, mode, target, stamp, attempt, reply, seen,    \* local state of each run
  writer,        \* live_order_submissions: the run whose INSERT won, or None
  createdAt,     \* live_order_submissions.created_at
  acks,          \* live_order_acknowledgements: decisions with a row
  statusRows,    \* live_order_status_snapshots: decision and executed quantity
  positionRows,  \* live_position_snapshots written by reconciliation
  net,           \* POST requests on their way to the exchange
  orders,        \* exchange: None or the order's executed quantity
  working,       \* exchange: orders that may still execute
  position,      \* exchange: net position size of the symbol
  exposed        \* history: runs past the Kill Switch check at activation

journalVars == <<writer, createdAt, acks, statusRows, positionRows>>
exchangeVars == <<orders, working, position>>
runVars == <<pc, mode, target, stamp, attempt, reply, seen>>
vars == <<recorded, killSwitch, clock, lock, runVars, journalVars, net,
          exchangeVars, exposed>>

Modes == {"select", "loop", "submit"}
Ended == {"done", "failed", "crashed"}
Active == {"select", "preflight", "loop", "load", "gate", "journal", "send",
           "await", "ack", "status", "position"}
Requests == Runs \X (1..MaxRetries + 1)
Quantities == 0..MaxQuantity
Snapshot == [decision: Decisions, executed: Quantities]

TypeOK ==
  /\ recorded \subseteq Decisions
  /\ killSwitch \in BOOLEAN
  /\ clock \in 0..MaxClock
  /\ lock \in Runs \cup {None}
  /\ pc \in [Runs -> Active \cup Ended \cup {"idle"}]
  /\ mode \in [Runs -> Modes]
  /\ target \in [Runs -> Decisions \cup {None}]
  /\ stamp \in [Runs -> 0..MaxClock]
  /\ attempt \in [Runs -> 0..MaxRetries + 1]
  /\ reply \in [Runs -> {"none", "accepted", "refused"}]
  /\ seen \in [Runs -> Quantities]
  /\ writer \in [Decisions -> Runs \cup {None}]
  /\ createdAt \in [Decisions -> 0..MaxClock]
  /\ acks \subseteq Decisions
  /\ statusRows \subseteq Snapshot
  /\ positionRows \subseteq [decision: Decisions, size: Nat]
  /\ net \subseteq Requests
  /\ orders \in [Decisions -> Quantities \cup {None}]
  /\ working \subseteq Decisions
  /\ position \in Nat
  /\ exposed \subseteq Runs

Init ==
  /\ recorded = {}
  /\ killSwitch = FALSE
  /\ clock = 0
  /\ lock = None
  /\ pc = [r \in Runs |-> "idle"]
  /\ mode = [r \in Runs |-> "submit"]
  /\ target = [r \in Runs |-> None]
  /\ stamp = [r \in Runs |-> 0]
  /\ attempt = [r \in Runs |-> 0]
  /\ reply = [r \in Runs |-> "none"]
  /\ seen = [r \in Runs |-> 0]
  /\ writer = [d \in Decisions |-> None]
  /\ createdAt = [d \in Decisions |-> 0]
  /\ acks = {}
  /\ statusRows = {}
  /\ positionRows = {}
  /\ net = {}
  /\ orders = [d \in Decisions |-> None]
  /\ working = {}
  /\ position = 0
  /\ exposed = {}

-----------------------------------------------------------------------------
(* The surroundings of a run: risk engine, operator, time.                  *)

\* The risk engine records the audit row of a decision.
RecordDecision(d) ==
  /\ d \notin recorded
  /\ recorded' = recorded \cup {d}
  /\ UNCHANGED <<killSwitch, clock, lock, runVars, journalVars, net,
                 exchangeVars, exposed>>

\* Runs that have read an inactive Kill Switch and can still post.
PastGate == {r \in Runs : pc[r] \in {"journal", "send", "await"}}

ActivateKillSwitch ==
  /\ ~killSwitch
  /\ killSwitch' = TRUE
  /\ exposed' = PastGate
  /\ UNCHANGED <<recorded, clock, lock, runVars, journalVars, net,
                 exchangeVars>>

ReleaseKillSwitch ==
  /\ killSwitch
  /\ killSwitch' = FALSE
  /\ exposed' = {}
  /\ UNCHANGED <<recorded, clock, lock, runVars, journalVars, net,
                 exchangeVars>>

Tick ==
  /\ clock < MaxClock
  /\ clock' = clock + 1
  /\ UNCHANGED <<recorded, killSwitch, lock, runVars, journalVars, net,
                 exchangeVars, exposed>>

-----------------------------------------------------------------------------
(* Starting a run.                                                          *)

\* Approved LIVE decisions that no submission row refers to.
Pending == {d \in recorded \cap Eligible : writer[d] = None}

\* Leave the lock to others: the deferred unlock, or the end of the session.
Unlocked(r) == IF lock = r THEN None ELSE lock

\* Fault: the lock is taken without asking whether it is free.
StartSelectingAnyway(r) ==
  /\ pc[r] = "idle"
  /\ lock' = r
  /\ pc' = [pc EXCEPT ![r] = "select"]
  /\ mode' = [mode EXCEPT ![r] = "select"]
  /\ UNCHANGED <<recorded, killSwitch, clock, target, stamp, attempt, reply,
                 seen, journalVars, net, exchangeVars, exposed>>

\* live-loop -select-pending: pg_try_advisory_lock, which does not wait.
StartSelecting(r) ==
  /\ pc[r] = "idle"
  /\ lock = None
  /\ lock' = r
  /\ pc' = [pc EXCEPT ![r] = "select"]
  /\ mode' = [mode EXCEPT ![r] = "select"]
  /\ UNCHANGED <<recorded, killSwitch, clock, target, stamp, attempt, reply,
                 seen, journalVars, net, exchangeVars, exposed>>

\* live-loop -decision-id and live-submit take no lock.
StartExplicit(r, d) ==
  /\ pc[r] = "idle"
  /\ \E m \in {"loop", "submit"} : mode' = [mode EXCEPT ![r] = m]
  /\ target' = [target EXCEPT ![r] = d]
  /\ pc' = [pc EXCEPT ![r] = "preflight"]
  /\ UNCHANGED <<recorded, killSwitch, clock, lock, stamp, attempt, reply,
                 seen, journalVars, net, exchangeVars, exposed>>

\* SelectNextPendingLiveDecision: the oldest candidate; none ends in Fail.
SelectPending(r) ==
  /\ pc[r] = "select"
  /\ \E d \in Pending :
       /\ \A e \in Pending : d <= e
       /\ target' = [target EXCEPT ![r] = d]
  /\ pc' = [pc EXCEPT ![r] = "preflight"]
  /\ UNCHANGED <<recorded, killSwitch, clock, lock, mode, stamp, attempt,
                 reply, seen, journalVars, net, exchangeVars, exposed>>

\* A step of run r that only moves its program counter.
Advance(r, next) ==
  /\ pc' = [pc EXCEPT ![r] = next]
  /\ UNCHANGED <<recorded, killSwitch, clock, lock, mode, target, stamp,
                 attempt, reply, seen, journalVars, net, exchangeVars,
                 exposed>>

\* PreflightLiveStartup passes: inactive Kill Switch and flat position.
Preflight(r) ==
  /\ pc[r] = "preflight"
  /\ ~killSwitch
  /\ position = 0
  /\ Advance(r, IF mode[r] = "submit" THEN "load" ELSE "loop")

\* RunBoundedLiveLoop reads the Kill Switch again before the iteration.
LoopCheck(r) ==
  /\ pc[r] = "loop"
  /\ ~killSwitch
  /\ Advance(r, "load")

\* loadUniqueRiskDecision finds the one audit row.
LoadDecision(r) ==
  /\ pc[r] = "load"
  /\ target[r] \in recorded
  /\ Advance(r, "gate")

-----------------------------------------------------------------------------
(* SubmitApprovedEntryOrder.                                                *)

\* Fault: the submission relies on the loop's earlier Kill Switch check.
GateUnchecked(r) ==
  /\ pc[r] = "gate"
  /\ target[r] \in Eligible
  /\ stamp' = [stamp EXCEPT ![r] = clock]
  /\ pc' = [pc EXCEPT ![r] = "journal"]
  /\ UNCHANGED <<recorded, killSwitch, clock, lock, mode, target, attempt,
                 reply, seen, journalVars, net, exchangeVars, exposed>>

\* Read the clock, build the submission, read the Kill Switch.
Gate(r) ==
  /\ pc[r] = "gate"
  /\ target[r] \in Eligible
  /\ ~killSwitch
  /\ stamp' = [stamp EXCEPT ![r] = clock]
  /\ pc' = [pc EXCEPT ![r] = "journal"]
  /\ UNCHANGED <<recorded, killSwitch, clock, lock, mode, target, attempt,
                 reply, seen, journalVars, net, exchangeVars, exposed>>

\* RecordOrderSubmission inserts the row.
JournalSubmission(r) ==
  /\ pc[r] = "journal"
  /\ writer[target[r]] = None
  /\ writer' = [writer EXCEPT ![target[r]] = r]
  /\ createdAt' = [createdAt EXCEPT ![target[r]] = stamp[r]]
  /\ pc' = [pc EXCEPT ![r] = "send"]
  /\ UNCHANGED <<recorded, killSwitch, clock, lock, mode, target, stamp,
                 attempt, reply, seen, acks, statusRows, positionRows, net,
                 exchangeVars, exposed>>

\* Fault: a run that finds the row submits the order again.
FindSubmissionResends(r) ==
  /\ pc[r] = "journal"
  /\ writer[target[r]] # None
  /\ createdAt[target[r]] = stamp[r]
  /\ Advance(r, "send")

\* RecordOrderSubmission meets the row of the same submission_id.  Only an
\* equal payload, created_at included, is AlreadySubmitted: the run goes on
\* to reconcile and posts nothing.  Any other payload ends in Fail.
FindSubmission(r) ==
  /\ pc[r] = "journal"
  /\ writer[target[r]] # None
  /\ createdAt[target[r]] = stamp[r]
  /\ Advance(r, "status")

\* One more HTTP POST leaves the client, carrying the order of run r.
Post(r) ==
  /\ attempt' = [attempt EXCEPT ![r] = @ + 1]
  /\ net' = net \cup {<<r, attempt[r] + 1>>}

\* Fault: the order is posted before its submission is journaled.
SubmitOrderFirst(r) ==
  /\ pc[r] \in {"journal", "send"}
  /\ Post(r)
  /\ pc' = [pc EXCEPT ![r] = "await"]
  /\ UNCHANGED <<recorded, killSwitch, clock, lock, mode, target, stamp,
                 reply, seen, journalVars, exchangeVars, exposed>>

SubmitOrder(r) ==
  /\ pc[r] = "send"
  /\ Post(r)
  /\ pc' = [pc EXCEPT ![r] = "await"]
  /\ UNCHANGED <<recorded, killSwitch, clock, lock, mode, target, stamp,
                 reply, seen, journalVars, exchangeVars, exposed>>

\* Fault: the attempt counter starts again instead of ending the loop.
RetryPostForever(r) ==
  /\ pc[r] = "await"
  /\ reply[r] = "none"
  /\ attempt' = [attempt EXCEPT ![r] = IF @ > MaxRetries THEN 1 ELSE @ + 1]
  /\ net' = net \cup {<<r, attempt'[r]>>}
  /\ UNCHANGED <<recorded, killSwitch, clock, lock, pc, mode, target, stamp,
                 reply, seen, journalVars, exchangeVars, exposed>>

\* postAuthenticated: a transport error, 429 or 5xx is retried with the same
\* body while attempts remain.
RetryPost(r) ==
  /\ pc[r] = "await"
  /\ reply[r] = "none"
  /\ attempt[r] <= MaxRetries
  /\ Post(r)
  /\ UNCHANGED <<recorded, killSwitch, clock, lock, pc, mode, target, stamp,
                 reply, seen, journalVars, exchangeVars, exposed>>

\* Fault: a refused duplicate is taken for the acceptance of the order.
ReceiveAnyAnswer(r) ==
  /\ pc[r] = "await"
  /\ reply[r] # "none"
  /\ Advance(r, "ack")

ReceiveAcceptance(r) ==
  /\ pc[r] = "await"
  /\ reply[r] = "accepted"
  /\ Advance(r, "ack")

\* RecordOrderAcknowledgement.
JournalAcknowledgement(r) ==
  /\ pc[r] = "ack"
  /\ target[r] \notin acks
  /\ acks' = acks \cup {target[r]}
  /\ pc' = [pc EXCEPT ![r] = "status"]
  /\ UNCHANGED <<recorded, killSwitch, clock, lock, mode, target, stamp,
                 attempt, reply, seen, writer, createdAt, statusRows, positionRows,
                 net, exchangeVars, exposed>>

-----------------------------------------------------------------------------
(* Reconciliation.                                                          *)

\* ReconcileSubmittedOrderStatus: read the order by client order id, journal
\* what was read.  An order the exchange does not know ends in Fail.
ReconcileStatus(r) ==
  /\ pc[r] = "status"
  /\ orders[target[r]] # None
  /\ seen' = [seen EXCEPT ![r] = orders[target[r]]]
  /\ statusRows' = statusRows \cup
       {[decision |-> target[r], executed |-> orders[target[r]]]}
  /\ pc' = [pc EXCEPT ![r] = "position"]
  /\ UNCHANGED <<recorded, killSwitch, clock, lock, mode, target, stamp,
                 attempt, reply, writer, createdAt, acks, positionRows, net,
                 exchangeVars, exposed>>

\* Fault: an open position is accepted whatever its size.
PositionMatchesAnySize(executed, size) == executed = 0 <=> size = 0

\* ensurePositionMatchesSubmittedOrder
PositionMatches(executed, size) ==
  IF executed = 0 THEN size = 0 ELSE size = executed

\* ReconcileSubmittedOrderPosition: journal the position only if it matches
\* the executed quantity read before.  A mismatch ends in Fail.
ReconcilePosition(r) ==
  /\ pc[r] = "position"
  /\ PositionMatches(seen[r], position)
  /\ positionRows' = positionRows \cup
       {[decision |-> target[r], size |-> position]}
  /\ pc' = [pc EXCEPT ![r] = "done"]
  /\ lock' = Unlocked(r)
  /\ UNCHANGED <<recorded, killSwitch, clock, mode, target, stamp, attempt,
                 reply, seen, writer, createdAt, acks, statusRows, net,
                 exchangeVars, exposed>>

\* The local memory of a process that is gone.
Forget(r) ==
  /\ mode' = [mode EXCEPT ![r] = "submit"]
  /\ stamp' = [stamp EXCEPT ![r] = 0]
  /\ reply' = [reply EXCEPT ![r] = "none"]
  /\ seen' = [seen EXCEPT ![r] = 0]

\* Any step may return an error: a refused check, a database or exchange
\* error, the command's timeout.  The deferred unlock then runs.
Fail(r) ==
  /\ pc[r] \in Active
  /\ pc' = [pc EXCEPT ![r] = "failed"]
  /\ lock' = Unlocked(r)
  /\ Forget(r)
  /\ UNCHANGED <<recorded, killSwitch, clock, target, attempt, journalVars,
                 net, exchangeVars, exposed>>

\* The process dies; PostgreSQL notices the end of its session later.
Crash(r) ==
  /\ pc[r] \in Active
  /\ pc' = [pc EXCEPT ![r] = "crashed"]
  /\ Forget(r)
  /\ UNCHANGED <<recorded, killSwitch, clock, lock, target, attempt,
                 journalVars, net, exchangeVars, exposed>>

SessionEnds(r) ==
  /\ pc[r] = "crashed"
  /\ lock = r
  /\ lock' = None
  /\ UNCHANGED <<recorded, killSwitch, clock, runVars, journalVars, net,
                 exchangeVars, exposed>>

-----------------------------------------------------------------------------
(* The exchange, as the REST client relies on it: an orderLinkId names at   *)
(* most one order, a duplicate is refused with a non-retryable error.       *)

\* The response reaches the run only while it waits for that very attempt.
Respond(request, answer) ==
  LET r == request[1] IN
  reply' = IF pc[r] = "await" /\ attempt[r] = request[2]
             THEN [reply EXCEPT ![r] = answer] ELSE reply

ExchangeAccepts(request) ==
  LET d == target[request[1]] IN
  /\ orders[d] = None
  /\ orders' = [orders EXCEPT ![d] = 0]
  /\ working' = working \cup {d}
  /\ net' = net \ {request}
  /\ Respond(request, "accepted") \/ UNCHANGED reply
  /\ UNCHANGED <<recorded, killSwitch, clock, lock, pc, mode, target, stamp,
                 attempt, seen, journalVars, position, exposed>>

\* A duplicate orderLinkId, or an order the exchange does not take.
ExchangeRefuses(request) ==
  /\ net' = net \ {request}
  /\ Respond(request, "refused") \/ UNCHANGED reply
  /\ UNCHANGED <<recorded, killSwitch, clock, lock, pc, mode, target, stamp,
                 attempt, seen, journalVars, exchangeVars, exposed>>

Fill(d) ==
  /\ d \in working
  /\ orders[d] < MaxQuantity
  /\ orders' = [orders EXCEPT ![d] = @ + 1]
  /\ position' = position + 1
  /\ UNCHANGED <<recorded, killSwitch, clock, lock, runVars, journalVars, net,
                 working, exposed>>

\* The order is complete, or its remainder is cancelled.
OrderCloses(d) ==
  /\ d \in working
  /\ working' = working \ {d}
  /\ UNCHANGED <<recorded, killSwitch, clock, lock, runVars, journalVars, net,
                 orders, position, exposed>>

\* Stop loss, take profit or the operator close the whole position.
Flatten ==
  /\ position > 0
  /\ position' = 0
  /\ UNCHANGED <<recorded, killSwitch, clock, lock, runVars, journalVars, net,
                 orders, working, exposed>>

-----------------------------------------------------------------------------
RunStep(r) ==
  \/ SelectPending(r) \/ Preflight(r) \/ LoopCheck(r) \/ LoadDecision(r)
  \/ Gate(r) \/ JournalSubmission(r) \/ FindSubmission(r) \/ SubmitOrder(r)
  \/ RetryPost(r) \/ ReceiveAcceptance(r) \/ JournalAcknowledgement(r)
  \/ ReconcileStatus(r) \/ ReconcilePosition(r) \/ Fail(r)

StartRun(r) == StartSelecting(r) \/ \E d \in Decisions : StartExplicit(r, d)

ExchangeStep ==
  \/ \E request \in net : ExchangeAccepts(request) \/ ExchangeRefuses(request)
  \/ \E d \in Decisions : Fill(d) \/ OrderCloses(d)
  \/ Flatten

Next ==
  \/ \E d \in Decisions : RecordDecision(d)
  \/ ActivateKillSwitch \/ ReleaseKillSwitch \/ Tick
  \/ \E r \in Runs : StartRun(r) \/ RunStep(r) \/ Crash(r) \/ SessionEnds(r)
  \/ ExchangeStep

Spec == Init /\ [][Next]_vars

\* A running process keeps executing, and PostgreSQL notices a dead session.
Fairness == \A r \in Runs : WF_vars(RunStep(r)) /\ WF_vars(SessionEnds(r))

FairSpec == Spec /\ Fairness

-----------------------------------------------------------------------------
(* Safety.                                                                  *)

\* Runs that have sent at least one POST.
Posted == {r \in Runs : attempt[r] > 0}

\* README "duplicate-decision prevention": only the run whose INSERT created
\* the submission row ever posts the order of a decision, so no rerun or
\* concurrent command posts it again, and an order on the exchange always has
\* a submission row written before it.
OnlyWriterPosts ==
  /\ \A r \in Posted : writer[target[r]] = r
  /\ \A d \in Decisions : orders[d] # None => \E r \in Posted : target[r] = d

\* While the Kill Switch is active, the only runs that post are those that
\* had already passed their last Kill Switch check when it was activated.
ExposureBounded ==
  [][killSwitch => \A request \in net' \ net : request[1] \in exposed]_vars

\* The advisory lock admits one pending-decision selector at a time, through
\* failures and crashes of the earlier ones.
OneSelector ==
  \A r, s \in Runs :
    /\ mode[r] = "select" /\ pc[r] \in Active
    /\ mode[s] = "select" /\ pc[s] \in Active
    => r = s

\* An acknowledgement row is never written for an order the exchange does not
\* have, whatever was retried, lost or refused on the way.
AckIsTruthful ==
  \A d \in acks : orders[d] # None /\ writer[d] # None

\* A run that reports success has left the complete trail of its decision:
\* submission, acknowledgement if it posted the order, the status it read and
\* a position of the same size, on an order that executed at least that much.
DoneIsReconciled ==
  \A r \in Runs : pc[r] = "done" =>
    LET d == target[r] IN
    /\ writer[d] # None
    /\ writer[d] = r <=> r \in Posted
    /\ r \in Posted => d \in acks
    /\ [decision |-> d, executed |-> seen[r]] \in statusRows
    /\ [decision |-> d, size |-> seen[r]] \in positionRows
    /\ orders[d] # None
    /\ orders[d] >= seen[r]

-----------------------------------------------------------------------------
(* Strengthening that makes the invariants above inductive.                 *)

\* Where a run has a decision, and where it has posted nothing yet.
TargetKnown ==
  \A r \in Runs :
    /\ pc[r] \notin {"idle", "select", "failed", "crashed"} => target[r] # None
    /\ pc[r] \in {"idle", "select", "preflight", "loop", "load", "gate",
                  "journal", "send"} => attempt[r] = 0 /\ reply[r] = "none"
    /\ pc[r] \in {"await", "ack"} => attempt[r] > 0
    /\ attempt[r] > 0 => target[r] # None

\* Who wrote a submission row, and how far that run has come.
WriterKnown ==
  /\ \A r \in Runs : pc[r] \in {"send", "await", "ack"} =>
       writer[target[r]] = r
  /\ \A d \in Decisions : writer[d] # None =>
       LET w == writer[d] IN
       /\ target[w] = d
       /\ pc[w] \in {"send", "await", "ack", "status", "position"} \cup Ended

\* Every request and answer on its way belongs to a posted order.
NetIsPosted ==
  /\ \A request \in net : attempt[request[1]] > 0
  /\ \A r \in Runs : (pc[r] = "await" /\ reply[r] = "accepted") \/ pc[r] = "ack"
                     => orders[target[r]] # None
  /\ \A d \in working : orders[d] # None

\* What a run in reconciliation has left behind.
TrailKept ==
  \A r \in Runs :
    LET d == target[r] IN
    /\ pc[r] \in {"status", "position", "done"} =>
         /\ writer[d] # None
         /\ writer[d] = r <=> r \in Posted
         /\ r \in Posted => d \in acks
    /\ pc[r] \in {"position", "done"} =>
         /\ [decision |-> d, executed |-> seen[r]] \in statusRows
         /\ orders[d] # None
         /\ orders[d] >= seen[r]
    /\ pc[r] = "done" => [decision |-> d, size |-> seen[r]] \in positionRows

\* The selector holds the lock; whoever may still post under an active Kill
\* Switch was past the gate at its activation.
LockHeld == \A r \in Runs : mode[r] = "select" /\ pc[r] \in Active => lock = r
GateClosed == killSwitch => PastGate \subseteq exposed

IInv ==
  /\ TypeOK /\ TargetKnown /\ WriterKnown /\ NetIsPosted /\ TrailKept
  /\ LockHeld /\ GateClosed /\ OnlyWriterPosts /\ AckIsTruthful

-----------------------------------------------------------------------------
(* Implementation of the abstract lifecycle of an order.                    *)

stage == [d \in Decisions |->
            IF d \in acks THEN "acknowledged"
            ELSE IF orders[d] # None THEN "placed"
            ELSE IF writer[d] # None THEN "journaled"
            ELSE "undecided"]

Lifecycle == INSTANCE OrderLifecycle

\* Each decision moves through journaled, placed and acknowledged in that
\* order, one stage at a time, and never back.
ImplementsLifecycle == Lifecycle!Spec

-----------------------------------------------------------------------------
(* Liveness.                                                                *)

\* Every run ends by its own bounded steps, whatever the exchange answers, and
\* leaves the selection lock to others, also when it fails or crashes.
EveryRunEnds ==
  \A r \in Runs :
    pc[r] \in Active \/ lock = r ~> pc[r] \in Ended /\ lock # r
=============================================================================
