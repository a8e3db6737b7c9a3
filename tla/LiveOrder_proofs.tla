-------------------------- MODULE LiveOrder_proofs --------------------------
(***************************************************************************)
(* Safety of the live order submission for any number of runs, decisions   *)
(* and HTTP retries, any fills and any interleaving of failures, crashes,  *)
(* late requests and Kill Switch operations.                               *)
(*                                                                         *)
(* IInv is inductive.  One lemma per conjunct shows that every step keeps  *)
(* it; each lemma has one step for the actions that leave its variables    *)
(* alone and one for each action that does not.                            *)
(*                                                                         *)
(* The last part bounds the work of a run: a measure that every step of    *)
(* the run lowers and nothing raises.                                      *)
(***************************************************************************)
EXTENDS LiveOrder, TLAPS

\* A run about to journal has a decision and has posted nothing.
LEMMA JournalFacts ==
  ASSUME IInv, NEW r \in Runs, pc[r] = "journal"
  PROVE  target[r] \in Decisions /\ attempt[r] = 0
BY NoneAssumption DEF IInv, TypeOK, TargetKnown

\* Every step keeps the types of the journal, the runs and the exchange.
LEMMA TypeOKStep == IInv /\ [Next]_vars => TypeOK'
<1> SUFFICES ASSUME IInv, [Next]_vars PROVE TypeOK'
  OBVIOUS
<1> USE BoundsAssumption DEF IInv, TypeOK, TargetKnown, NetIsPosted, Active,
      Ended, Modes, Requests, Quantities, Snapshot
<1>1. CASE UNCHANGED vars
  BY <1>1 DEF vars, runVars, journalVars, exchangeVars
<1>2. ASSUME NEW d \in Decisions, RecordDecision(d) PROVE TypeOK'
  BY <1>2 DEF RecordDecision, runVars, journalVars, exchangeVars
<1>3. CASE ActivateKillSwitch
  BY <1>3 DEF ActivateKillSwitch, PastGate, runVars, journalVars, exchangeVars
<1>4. CASE ReleaseKillSwitch
  BY <1>4 DEF ReleaseKillSwitch, runVars, journalVars, exchangeVars
<1>5. CASE Tick
  BY <1>5 DEF Tick, runVars, journalVars, exchangeVars
<1>6. ASSUME NEW r \in Runs, StartSelecting(r) PROVE TypeOK'
  BY <1>6 DEF StartSelecting, runVars, journalVars, exchangeVars
<1>7. ASSUME NEW r \in Runs, NEW d \in Decisions, StartExplicit(r, d)
      PROVE  TypeOK'
  BY <1>7 DEF StartExplicit, runVars, journalVars, exchangeVars
<1>8. ASSUME NEW r \in Runs, SelectPending(r) PROVE TypeOK'
  BY <1>8 DEF SelectPending, Pending, runVars, journalVars, exchangeVars
<1>9. ASSUME NEW r \in Runs, Preflight(r) PROVE TypeOK'
  BY <1>9 DEF Preflight, Advance, runVars, journalVars, exchangeVars
<1>10. ASSUME NEW r \in Runs, LoopCheck(r) PROVE TypeOK'
  BY <1>10 DEF LoopCheck, Advance, runVars, journalVars, exchangeVars
<1>11. ASSUME NEW r \in Runs, LoadDecision(r) PROVE TypeOK'
  BY <1>11 DEF LoadDecision, Advance, runVars, journalVars, exchangeVars
<1>12. ASSUME NEW r \in Runs, Gate(r) PROVE TypeOK'
  BY <1>12 DEF Gate, runVars, journalVars, exchangeVars
<1>13. ASSUME NEW r \in Runs, JournalSubmission(r) PROVE TypeOK'
  BY <1>13 DEF JournalSubmission, runVars, journalVars, exchangeVars
<1>14. ASSUME NEW r \in Runs, FindSubmission(r) PROVE TypeOK'
  BY <1>14 DEF FindSubmission, Advance, runVars, journalVars, exchangeVars
<1>15. ASSUME NEW r \in Runs, SubmitOrder(r) PROVE TypeOK'
  BY <1>15 DEF SubmitOrder, Post, runVars, journalVars, exchangeVars
<1>16. ASSUME NEW r \in Runs, RetryPost(r) PROVE TypeOK'
  BY <1>16 DEF RetryPost, Post, runVars, journalVars, exchangeVars
<1>17. ASSUME NEW r \in Runs, ReceiveAcceptance(r) PROVE TypeOK'
  BY <1>17 DEF ReceiveAcceptance, Advance, runVars, journalVars, exchangeVars
<1>18. ASSUME NEW r \in Runs, JournalAcknowledgement(r) PROVE TypeOK'
  BY <1>18 DEF JournalAcknowledgement, runVars, journalVars, exchangeVars
<1>19. ASSUME NEW r \in Runs, ReconcileStatus(r) PROVE TypeOK'
  <2>1. target[r] \in Decisions /\ orders[target[r]] \in Quantities
    BY <1>19 DEF ReconcileStatus, runVars, journalVars, exchangeVars
  <2> QED
    BY <1>19, <2>1 DEF ReconcileStatus, runVars, journalVars, exchangeVars
<1>20. ASSUME NEW r \in Runs, ReconcilePosition(r) PROVE TypeOK'
  BY <1>20 DEF ReconcilePosition, PositionMatches, Unlocked, runVars, journalVars, exchangeVars
<1>21. ASSUME NEW r \in Runs, Fail(r) PROVE TypeOK'
  BY <1>21 DEF Fail, Unlocked, Forget, runVars, journalVars, exchangeVars
<1>22. ASSUME NEW r \in Runs, Crash(r) PROVE TypeOK'
  BY <1>22 DEF Crash, Forget, runVars, journalVars, exchangeVars
<1>23. ASSUME NEW r \in Runs, SessionEnds(r) PROVE TypeOK'
  BY <1>23 DEF SessionEnds, runVars, journalVars, exchangeVars
<1>24. ASSUME NEW request \in net, ExchangeAccepts(request) PROVE TypeOK'
  <2>1. request[1] \in Runs /\ target[request[1]] \in Decisions
    BY <1>24 DEF ExchangeAccepts, runVars, journalVars, exchangeVars
  <2>2. orders' \in [Decisions -> Quantities \cup {None}]
    BY <1>24, <2>1 DEF ExchangeAccepts, runVars, journalVars, exchangeVars
  <2>3. reply' \in [Runs -> {"none", "accepted", "refused"}]
    BY <1>24, <2>1 DEF ExchangeAccepts, runVars, journalVars, exchangeVars, Respond
  <2>4. working' \subseteq Decisions /\ net' \subseteq Requests
    BY <1>24, <2>1 DEF ExchangeAccepts, runVars, journalVars, exchangeVars
  <2> QED
    BY <1>24, <2>2, <2>3, <2>4 DEF ExchangeAccepts, runVars, journalVars, exchangeVars
<1>25. ASSUME NEW request \in net, ExchangeRefuses(request) PROVE TypeOK'
  BY <1>25 DEF ExchangeRefuses, Respond, runVars, journalVars, exchangeVars
<1>26. ASSUME NEW d \in Decisions, Fill(d) PROVE TypeOK'
  BY <1>26 DEF Fill, runVars, journalVars, exchangeVars
<1>27. ASSUME NEW d \in Decisions, OrderCloses(d) PROVE TypeOK'
  BY <1>27 DEF OrderCloses, runVars, journalVars, exchangeVars
<1>28. CASE Flatten
  BY <1>28 DEF Flatten, runVars, journalVars, exchangeVars
<1> QED BY <1>1, <1>2, <1>3, <1>4, <1>5, <1>6, <1>7, <1>8, <1>9, <1>10, <1>11,
         <1>12, <1>13, <1>14, <1>15, <1>16, <1>17, <1>18, <1>19, <1>20, <1>21,
         <1>22, <1>23, <1>24, <1>25, <1>26, <1>27, <1>28
         DEF Next, RunStep, StartRun, ExchangeStep

\* Every step keeps a run's decision and its count of POST attempts in line
\* with how far the run has come.
LEMMA TargetKnownStep == IInv /\ TypeOK' /\ [Next]_vars => TargetKnown'
<1> SUFFICES ASSUME IInv, TypeOK', [Next]_vars PROVE TargetKnown'
  OBVIOUS
<1> USE NoneAssumption, DecisionsAssumption DEF IInv, TypeOK, TargetKnown,
      Active, Ended
<1>1. CASE UNCHANGED <<pc, target, attempt, reply>>
  BY <1>1
<1>2. ASSUME NEW r \in Runs, StartSelecting(r) PROVE TargetKnown'
  BY <1>2 DEF StartSelecting, runVars, journalVars, exchangeVars
<1>3. ASSUME NEW r \in Runs, NEW d \in Decisions, StartExplicit(r, d)
      PROVE  TargetKnown'
  BY <1>3 DEF StartExplicit, runVars, journalVars, exchangeVars
<1>4. ASSUME NEW r \in Runs, SelectPending(r) PROVE TargetKnown'
  BY <1>4 DEF SelectPending, Pending, runVars, journalVars, exchangeVars
<1>5. ASSUME NEW r \in Runs, Preflight(r) PROVE TargetKnown'
  BY <1>5 DEF Preflight, Advance, runVars, journalVars, exchangeVars
<1>6. ASSUME NEW r \in Runs, LoopCheck(r) PROVE TargetKnown'
  BY <1>6 DEF LoopCheck, Advance, runVars, journalVars, exchangeVars
<1>7. ASSUME NEW r \in Runs, LoadDecision(r) PROVE TargetKnown'
  BY <1>7 DEF LoadDecision, Advance, runVars, journalVars, exchangeVars
<1>8. ASSUME NEW r \in Runs, Gate(r) PROVE TargetKnown'
  BY <1>8 DEF Gate, runVars, journalVars, exchangeVars
<1>9. ASSUME NEW r \in Runs, JournalSubmission(r) PROVE TargetKnown'
  BY <1>9 DEF JournalSubmission, runVars, journalVars, exchangeVars
<1>10. ASSUME NEW r \in Runs, FindSubmission(r) PROVE TargetKnown'
  BY <1>10 DEF FindSubmission, Advance, runVars, journalVars, exchangeVars
<1>11. ASSUME NEW r \in Runs, SubmitOrder(r) PROVE TargetKnown'
  BY <1>11 DEF SubmitOrder, Post, runVars, journalVars, exchangeVars
<1>12. ASSUME NEW r \in Runs, RetryPost(r) PROVE TargetKnown'
  BY <1>12 DEF RetryPost, Post, runVars, journalVars, exchangeVars
<1>13. ASSUME NEW r \in Runs, ReceiveAcceptance(r) PROVE TargetKnown'
  BY <1>13 DEF ReceiveAcceptance, Advance, runVars, journalVars, exchangeVars
<1>14. ASSUME NEW r \in Runs, JournalAcknowledgement(r) PROVE TargetKnown'
  BY <1>14 DEF JournalAcknowledgement, runVars, journalVars, exchangeVars
<1>15. ASSUME NEW r \in Runs, ReconcileStatus(r) PROVE TargetKnown'
  BY <1>15 DEF ReconcileStatus, runVars, journalVars, exchangeVars
<1>16. ASSUME NEW r \in Runs, ReconcilePosition(r) PROVE TargetKnown'
  BY <1>16 DEF ReconcilePosition, PositionMatches, Unlocked, runVars, journalVars, exchangeVars
<1>17. ASSUME NEW r \in Runs, Fail(r) PROVE TargetKnown'
  BY <1>17 DEF Fail, Unlocked, Forget, runVars, journalVars, exchangeVars
<1>18. ASSUME NEW r \in Runs, Crash(r) PROVE TargetKnown'
  BY <1>18 DEF Crash, Forget, runVars, journalVars, exchangeVars
<1>19. ASSUME NEW request \in net, ExchangeAccepts(request) PROVE TargetKnown'
  BY <1>19 DEF ExchangeAccepts, Respond, runVars, journalVars, exchangeVars
<1>20. ASSUME NEW request \in net, ExchangeRefuses(request) PROVE TargetKnown'
  BY <1>20 DEF ExchangeRefuses, Respond, runVars, journalVars, exchangeVars
<1> QED BY <1>1, <1>2, <1>3, <1>4, <1>5, <1>6, <1>7, <1>8, <1>9, <1>10, <1>11,
         <1>12, <1>13, <1>14, <1>15, <1>16, <1>17, <1>18, <1>19, <1>20
         DEF Next, RunStep, StartRun, ExchangeStep, vars, runVars,
             journalVars, exchangeVars, RecordDecision, ActivateKillSwitch,
             ReleaseKillSwitch, Tick, SessionEnds, Fill, OrderCloses, Flatten

\* Every step keeps the link between a submission row and the one run that
\* inserted it: the UNIQUE constraint of the journal at work.
LEMMA WriterKnownStep == IInv /\ TypeOK' /\ [Next]_vars => WriterKnown'
<1> SUFFICES ASSUME IInv, TypeOK', [Next]_vars PROVE WriterKnown'
  OBVIOUS
<1> USE NoneAssumption, DecisionsAssumption DEF IInv, TypeOK, TargetKnown,
      WriterKnown, Active, Ended, OnlyWriterPosts, Posted
<1>1. CASE UNCHANGED <<pc, target, writer>>
  BY <1>1
<1>2. ASSUME NEW r \in Runs, StartSelecting(r) PROVE WriterKnown'
  BY <1>2 DEF StartSelecting, runVars, journalVars, exchangeVars
<1>3. ASSUME NEW r \in Runs, NEW d \in Decisions, StartExplicit(r, d)
      PROVE  WriterKnown'
  BY <1>3 DEF StartExplicit, runVars, journalVars, exchangeVars
<1>4. ASSUME NEW r \in Runs, SelectPending(r) PROVE WriterKnown'
  BY <1>4 DEF SelectPending, Pending, runVars, journalVars, exchangeVars
<1>5. ASSUME NEW r \in Runs, Preflight(r) PROVE WriterKnown'
  BY <1>5 DEF Preflight, Advance, runVars, journalVars, exchangeVars
<1>6. ASSUME NEW r \in Runs, LoopCheck(r) PROVE WriterKnown'
  BY <1>6 DEF LoopCheck, Advance, runVars, journalVars, exchangeVars
<1>7. ASSUME NEW r \in Runs, LoadDecision(r) PROVE WriterKnown'
  BY <1>7 DEF LoadDecision, Advance, runVars, journalVars, exchangeVars
<1>8. ASSUME NEW r \in Runs, Gate(r) PROVE WriterKnown'
  BY <1>8 DEF Gate, runVars, journalVars, exchangeVars
<1>9. ASSUME NEW r \in Runs, JournalSubmission(r) PROVE WriterKnown'
  BY <1>9 DEF JournalSubmission, runVars, journalVars, exchangeVars
<1>10. ASSUME NEW r \in Runs, FindSubmission(r) PROVE WriterKnown'
  BY <1>10 DEF FindSubmission, Advance, runVars, journalVars, exchangeVars
<1>11. ASSUME NEW r \in Runs, SubmitOrder(r) PROVE WriterKnown'
  BY <1>11 DEF SubmitOrder, Post, runVars, journalVars, exchangeVars
<1>12. ASSUME NEW r \in Runs, ReceiveAcceptance(r) PROVE WriterKnown'
  BY <1>12 DEF ReceiveAcceptance, Advance, runVars, journalVars, exchangeVars
<1>13. ASSUME NEW r \in Runs, JournalAcknowledgement(r) PROVE WriterKnown'
  BY <1>13 DEF JournalAcknowledgement, runVars, journalVars, exchangeVars
<1>14. ASSUME NEW r \in Runs, ReconcileStatus(r) PROVE WriterKnown'
  BY <1>14 DEF ReconcileStatus, runVars, journalVars, exchangeVars
<1>15. ASSUME NEW r \in Runs, ReconcilePosition(r) PROVE WriterKnown'
  BY <1>15 DEF ReconcilePosition, PositionMatches, Unlocked, runVars, journalVars, exchangeVars
<1>16. ASSUME NEW r \in Runs, Fail(r) PROVE WriterKnown'
  BY <1>16 DEF Fail, Unlocked, Forget, runVars, journalVars, exchangeVars
<1>17. ASSUME NEW r \in Runs, Crash(r) PROVE WriterKnown'
  BY <1>17 DEF Crash, Forget, runVars, journalVars, exchangeVars
<1> QED BY <1>1, <1>2, <1>3, <1>4, <1>5, <1>6, <1>7, <1>8, <1>9, <1>10, <1>11,
         <1>12, <1>13, <1>14, <1>15, <1>16, <1>17
         DEF Next, RunStep, StartRun, ExchangeStep, vars, runVars,
             journalVars, exchangeVars, RecordDecision, ActivateKillSwitch,
             ReleaseKillSwitch, Tick, RetryPost, SessionEnds, ExchangeAccepts,
             ExchangeRefuses, Fill, OrderCloses, Flatten, Post

\* Every step keeps requests, answers and working orders tied to posted orders.
LEMMA NetIsPostedStep == IInv /\ TypeOK' /\ [Next]_vars => NetIsPosted'
<1> SUFFICES ASSUME IInv, TypeOK', [Next]_vars PROVE NetIsPosted'
  OBVIOUS
<1> USE NoneAssumption, DecisionsAssumption DEF IInv, TypeOK, TargetKnown,
      NetIsPosted, Requests, Quantities, AckIsTruthful, Posted,
      OnlyWriterPosts
<1>1. CASE UNCHANGED <<net, attempt, pc, reply, orders, working, target>>
  BY <1>1
<1>2. ASSUME NEW r \in Runs, StartSelecting(r) PROVE NetIsPosted'
  BY <1>2 DEF StartSelecting, runVars, journalVars, exchangeVars
<1>3. ASSUME NEW r \in Runs, NEW d \in Decisions, StartExplicit(r, d)
      PROVE  NetIsPosted'
  BY <1>3 DEF StartExplicit, runVars, journalVars, exchangeVars
<1>4. ASSUME NEW r \in Runs, SelectPending(r) PROVE NetIsPosted'
  BY <1>4 DEF SelectPending, Pending, runVars, journalVars, exchangeVars
<1>5. ASSUME NEW r \in Runs, Preflight(r) PROVE NetIsPosted'
  BY <1>5 DEF Preflight, Advance, runVars, journalVars, exchangeVars
<1>6. ASSUME NEW r \in Runs, LoopCheck(r) PROVE NetIsPosted'
  BY <1>6 DEF LoopCheck, Advance, runVars, journalVars, exchangeVars
<1>7. ASSUME NEW r \in Runs, LoadDecision(r) PROVE NetIsPosted'
  BY <1>7 DEF LoadDecision, Advance, runVars, journalVars, exchangeVars
<1>8. ASSUME NEW r \in Runs, Gate(r) PROVE NetIsPosted'
  BY <1>8 DEF Gate, runVars, journalVars, exchangeVars
<1>9. ASSUME NEW r \in Runs, JournalSubmission(r) PROVE NetIsPosted'
  BY <1>9 DEF JournalSubmission, runVars, journalVars, exchangeVars
<1>10. ASSUME NEW r \in Runs, FindSubmission(r) PROVE NetIsPosted'
  BY <1>10 DEF FindSubmission, Advance, runVars, journalVars, exchangeVars
<1>11. ASSUME NEW r \in Runs, SubmitOrder(r) PROVE NetIsPosted'
  <2>1. attempt'[r] = 1 /\ \A q \in Runs : q # r => attempt'[q] = attempt[q]
    BY <1>11 DEF SubmitOrder, runVars, journalVars, exchangeVars, Post
  <2>2. \A request \in net' : request[1] \in Runs /\ attempt'[request[1]] > 0
    BY <1>11, <2>1 DEF SubmitOrder, runVars, journalVars, exchangeVars, Post
  <2>3. reply[r] # "accepted"
    BY <1>11 DEF SubmitOrder, runVars, journalVars, exchangeVars
  <2> QED
    BY <1>11, <2>2, <2>3 DEF SubmitOrder, runVars, journalVars, exchangeVars
<1>12. ASSUME NEW r \in Runs, RetryPost(r) PROVE NetIsPosted'
  BY <1>12 DEF RetryPost, Post, runVars, journalVars, exchangeVars
<1>13. ASSUME NEW r \in Runs, ReceiveAcceptance(r) PROVE NetIsPosted'
  BY <1>13 DEF ReceiveAcceptance, Advance, runVars, journalVars, exchangeVars
<1>14. ASSUME NEW r \in Runs, JournalAcknowledgement(r) PROVE NetIsPosted'
  BY <1>14 DEF JournalAcknowledgement, runVars, journalVars, exchangeVars
<1>15. ASSUME NEW r \in Runs, ReconcileStatus(r) PROVE NetIsPosted'
  BY <1>15 DEF ReconcileStatus, runVars, journalVars, exchangeVars
<1>16. ASSUME NEW r \in Runs, ReconcilePosition(r) PROVE NetIsPosted'
  BY <1>16 DEF ReconcilePosition, PositionMatches, Unlocked, runVars, journalVars, exchangeVars
<1>17. ASSUME NEW r \in Runs, Fail(r) PROVE NetIsPosted'
  BY <1>17 DEF Fail, Unlocked, Forget, runVars, journalVars, exchangeVars
<1>18. ASSUME NEW r \in Runs, Crash(r) PROVE NetIsPosted'
  BY <1>18 DEF Crash, Forget, runVars, journalVars, exchangeVars
<1>19. ASSUME NEW request \in net, ExchangeAccepts(request) PROVE NetIsPosted'
  BY <1>19 DEF ExchangeAccepts, Respond, runVars, journalVars, exchangeVars
<1>20. ASSUME NEW request \in net, ExchangeRefuses(request) PROVE NetIsPosted'
  BY <1>20 DEF ExchangeRefuses, Respond, runVars, journalVars, exchangeVars
<1>21. ASSUME NEW d \in Decisions, Fill(d) PROVE NetIsPosted'
  <2>1. orders[d] \in Nat /\ orders'[d] \in Nat /\ orders'[d] # None
    BY <1>21 DEF Fill, runVars, journalVars, exchangeVars
  <2>2. \A e \in Decisions : e # d => orders'[e] = orders[e]
    BY <1>21 DEF Fill, runVars, journalVars, exchangeVars
  <2> QED
    BY <1>21, <2>1, <2>2 DEF Fill, runVars, journalVars, exchangeVars
<1>22. ASSUME NEW d \in Decisions, OrderCloses(d) PROVE NetIsPosted'
  BY <1>22 DEF OrderCloses, runVars, journalVars, exchangeVars
<1> QED BY <1>1, <1>2, <1>3, <1>4, <1>5, <1>6, <1>7, <1>8, <1>9, <1>10, <1>11,
         <1>12, <1>13, <1>14, <1>15, <1>16, <1>17, <1>18, <1>19, <1>20, <1>21,
         <1>22
         DEF Next, RunStep, StartRun, ExchangeStep, vars, runVars,
             journalVars, exchangeVars, RecordDecision, ActivateKillSwitch,
             ReleaseKillSwitch, Tick, SessionEnds, Flatten

\* Every step keeps the rows a reconciling run has left behind.
LEMMA TrailKeptStep == IInv /\ TypeOK' /\ [Next]_vars => TrailKept'
<1> SUFFICES ASSUME IInv, TypeOK', [Next]_vars PROVE TrailKept'
  OBVIOUS
<1> USE NoneAssumption, DecisionsAssumption DEF IInv, TypeOK, TargetKnown,
      WriterKnown, TrailKept, Posted, OnlyWriterPosts, Snapshot, Quantities,
      AckIsTruthful, Ended, NetIsPosted
<1>1. CASE UNCHANGED <<pc, target, writer, attempt, acks, seen, statusRows,
        positionRows, orders>>
  BY <1>1
<1>2. ASSUME NEW r \in Runs, StartSelecting(r) PROVE TrailKept'
  BY <1>2 DEF StartSelecting, runVars, journalVars, exchangeVars
<1>3. ASSUME NEW r \in Runs, NEW d \in Decisions, StartExplicit(r, d)
      PROVE  TrailKept'
  BY <1>3 DEF StartExplicit, runVars, journalVars, exchangeVars
<1>4. ASSUME NEW r \in Runs, SelectPending(r) PROVE TrailKept'
  BY <1>4 DEF SelectPending, Pending, runVars, journalVars, exchangeVars
<1>5. ASSUME NEW r \in Runs, Preflight(r) PROVE TrailKept'
  BY <1>5 DEF Preflight, Advance, runVars, journalVars, exchangeVars
<1>6. ASSUME NEW r \in Runs, LoopCheck(r) PROVE TrailKept'
  BY <1>6 DEF LoopCheck, Advance, runVars, journalVars, exchangeVars
<1>7. ASSUME NEW r \in Runs, LoadDecision(r) PROVE TrailKept'
  BY <1>7 DEF LoadDecision, Advance, runVars, journalVars, exchangeVars
<1>8. ASSUME NEW r \in Runs, Gate(r) PROVE TrailKept'
  BY <1>8 DEF Gate, runVars, journalVars, exchangeVars
<1>9. ASSUME NEW r \in Runs, JournalSubmission(r) PROVE TrailKept'
  BY <1>9 DEF JournalSubmission, runVars, journalVars, exchangeVars
<1>10. ASSUME NEW r \in Runs, FindSubmission(r) PROVE TrailKept'
  <2>0. pc[r] = "journal" /\ writer[target[r]] # None
    BY <1>10 DEF FindSubmission, runVars, journalVars, exchangeVars
  <2>1. target[r] \in Decisions /\ attempt[r] = 0
    BY <2>0, JournalFacts
  <2>2. writer[target[r]] # r
    BY <2>0, <2>1
  <2>3. pc' = [pc EXCEPT ![r] = "status"]
    BY <1>10 DEF FindSubmission, runVars, journalVars, exchangeVars, Advance
  <2> QED
    BY <2>0, <2>1, <2>2, <2>3, <1>10 DEF FindSubmission, runVars, journalVars, exchangeVars, Advance
<1>11. ASSUME NEW r \in Runs, SubmitOrder(r) PROVE TrailKept'
  BY <1>11 DEF SubmitOrder, Post, runVars, journalVars, exchangeVars
<1>12. ASSUME NEW r \in Runs, RetryPost(r) PROVE TrailKept'
  BY <1>12 DEF RetryPost, Post, runVars, journalVars, exchangeVars
<1>13. ASSUME NEW r \in Runs, ReceiveAcceptance(r) PROVE TrailKept'
  BY <1>13 DEF ReceiveAcceptance, Advance, runVars, journalVars, exchangeVars
<1>14. ASSUME NEW r \in Runs, JournalAcknowledgement(r) PROVE TrailKept'
  BY <1>14 DEF JournalAcknowledgement, runVars, journalVars, exchangeVars
<1>15. ASSUME NEW r \in Runs, ReconcileStatus(r) PROVE TrailKept'
  BY <1>15 DEF ReconcileStatus, runVars, journalVars, exchangeVars
<1>16. ASSUME NEW r \in Runs, ReconcilePosition(r) PROVE TrailKept'
  BY <1>16 DEF ReconcilePosition, PositionMatches, Unlocked, runVars, journalVars, exchangeVars
<1>17. ASSUME NEW r \in Runs, Fail(r) PROVE TrailKept'
  BY <1>17 DEF Fail, Unlocked, Forget, runVars, journalVars, exchangeVars
<1>18. ASSUME NEW r \in Runs, Crash(r) PROVE TrailKept'
  BY <1>18 DEF Crash, Forget, runVars, journalVars, exchangeVars
<1>19. ASSUME NEW request \in net, ExchangeAccepts(request) PROVE TrailKept'
  BY <1>19 DEF ExchangeAccepts, Respond, runVars, journalVars, exchangeVars
<1>20. ASSUME NEW d \in Decisions, Fill(d) PROVE TrailKept'
  BY <1>20 DEF Fill, runVars, journalVars, exchangeVars
<1> QED BY <1>1, <1>2, <1>3, <1>4, <1>5, <1>6, <1>7, <1>8, <1>9, <1>10, <1>11,
         <1>12, <1>13, <1>14, <1>15, <1>16, <1>17, <1>18, <1>19, <1>20
         DEF Next, RunStep, StartRun, ExchangeStep, vars, runVars,
             journalVars, exchangeVars, RecordDecision, ActivateKillSwitch,
             ReleaseKillSwitch, Tick, SessionEnds, ExchangeRefuses,
             OrderCloses, Flatten

\* Every step keeps the selection lock with the selector that runs.
LEMMA LockHeldStep == IInv /\ TypeOK' /\ [Next]_vars => LockHeld'
<1> SUFFICES ASSUME IInv, TypeOK', [Next]_vars PROVE LockHeld'
  OBVIOUS
<1> USE NoneAssumption DEF IInv, TypeOK, LockHeld, Active, Ended
<1>1. CASE UNCHANGED <<mode, pc, lock>>
  BY <1>1
<1>2. ASSUME NEW r \in Runs, StartSelecting(r) PROVE LockHeld'
  BY <1>2 DEF StartSelecting, runVars, journalVars, exchangeVars
<1>3. ASSUME NEW r \in Runs, NEW d \in Decisions, StartExplicit(r, d)
      PROVE  LockHeld'
  BY <1>3 DEF StartExplicit, runVars, journalVars, exchangeVars
<1>4. ASSUME NEW r \in Runs, SelectPending(r) PROVE LockHeld'
  BY <1>4 DEF SelectPending, Pending, runVars, journalVars, exchangeVars
<1>5. ASSUME NEW r \in Runs, Preflight(r) PROVE LockHeld'
  BY <1>5 DEF Preflight, Advance, runVars, journalVars, exchangeVars
<1>6. ASSUME NEW r \in Runs, LoopCheck(r) PROVE LockHeld'
  BY <1>6 DEF LoopCheck, Advance, runVars, journalVars, exchangeVars
<1>7. ASSUME NEW r \in Runs, LoadDecision(r) PROVE LockHeld'
  BY <1>7 DEF LoadDecision, Advance, runVars, journalVars, exchangeVars
<1>8. ASSUME NEW r \in Runs, Gate(r) PROVE LockHeld'
  BY <1>8 DEF Gate, runVars, journalVars, exchangeVars
<1>9. ASSUME NEW r \in Runs, JournalSubmission(r) PROVE LockHeld'
  BY <1>9 DEF JournalSubmission, runVars, journalVars, exchangeVars
<1>10. ASSUME NEW r \in Runs, FindSubmission(r) PROVE LockHeld'
  BY <1>10 DEF FindSubmission, Advance, runVars, journalVars, exchangeVars
<1>11. ASSUME NEW r \in Runs, SubmitOrder(r) PROVE LockHeld'
  BY <1>11 DEF SubmitOrder, Post, runVars, journalVars, exchangeVars
<1>12. ASSUME NEW r \in Runs, ReceiveAcceptance(r) PROVE LockHeld'
  BY <1>12 DEF ReceiveAcceptance, Advance, runVars, journalVars, exchangeVars
<1>13. ASSUME NEW r \in Runs, JournalAcknowledgement(r) PROVE LockHeld'
  BY <1>13 DEF JournalAcknowledgement, runVars, journalVars, exchangeVars
<1>14. ASSUME NEW r \in Runs, ReconcileStatus(r) PROVE LockHeld'
  BY <1>14 DEF ReconcileStatus, runVars, journalVars, exchangeVars
<1>15. ASSUME NEW r \in Runs, ReconcilePosition(r) PROVE LockHeld'
  BY <1>15 DEF ReconcilePosition, PositionMatches, Unlocked, runVars, journalVars, exchangeVars
<1>16. ASSUME NEW r \in Runs, Fail(r) PROVE LockHeld'
  BY <1>16 DEF Fail, Unlocked, Forget, runVars, journalVars, exchangeVars
<1>17. ASSUME NEW r \in Runs, Crash(r) PROVE LockHeld'
  BY <1>17 DEF Crash, Forget, runVars, journalVars, exchangeVars
<1>18. ASSUME NEW r \in Runs, SessionEnds(r) PROVE LockHeld'
  BY <1>18 DEF SessionEnds, runVars, journalVars, exchangeVars
<1> QED BY <1>1, <1>2, <1>3, <1>4, <1>5, <1>6, <1>7, <1>8, <1>9, <1>10, <1>11,
         <1>12, <1>13, <1>14, <1>15, <1>16, <1>17, <1>18
         DEF Next, RunStep, StartRun, ExchangeStep, vars, runVars,
             journalVars, exchangeVars, RecordDecision, ActivateKillSwitch,
             ReleaseKillSwitch, Tick, RetryPost, ExchangeAccepts,
             ExchangeRefuses, Fill, OrderCloses, Flatten, Post

\* No run passes the Kill Switch check while the Kill Switch is active.
LEMMA GateClosedStep == IInv /\ TypeOK' /\ [Next]_vars => GateClosed'
<1> SUFFICES ASSUME IInv, TypeOK', [Next]_vars PROVE GateClosed'
  OBVIOUS
<1> USE DEF IInv, TypeOK, GateClosed, PastGate
<1>1. CASE UNCHANGED <<killSwitch, pc, exposed>>
  BY <1>1
<1>2. CASE ActivateKillSwitch
  BY <1>2 DEF ActivateKillSwitch, PastGate, runVars, journalVars, exchangeVars
<1>3. CASE ReleaseKillSwitch
  BY <1>3 DEF ReleaseKillSwitch, runVars, journalVars, exchangeVars
<1>4. ASSUME NEW r \in Runs, StartSelecting(r) PROVE GateClosed'
  BY <1>4 DEF StartSelecting, runVars, journalVars, exchangeVars
<1>5. ASSUME NEW r \in Runs, NEW d \in Decisions, StartExplicit(r, d)
      PROVE  GateClosed'
  BY <1>5 DEF StartExplicit, runVars, journalVars, exchangeVars
<1>6. ASSUME NEW r \in Runs, SelectPending(r) PROVE GateClosed'
  BY <1>6 DEF SelectPending, Pending, runVars, journalVars, exchangeVars
<1>7. ASSUME NEW r \in Runs, Preflight(r) PROVE GateClosed'
  BY <1>7 DEF Preflight, Advance, runVars, journalVars, exchangeVars
<1>8. ASSUME NEW r \in Runs, LoopCheck(r) PROVE GateClosed'
  BY <1>8 DEF LoopCheck, Advance, runVars, journalVars, exchangeVars
<1>9. ASSUME NEW r \in Runs, LoadDecision(r) PROVE GateClosed'
  BY <1>9 DEF LoadDecision, Advance, runVars, journalVars, exchangeVars
<1>10. ASSUME NEW r \in Runs, Gate(r) PROVE GateClosed'
  BY <1>10 DEF Gate, runVars, journalVars, exchangeVars
<1>11. ASSUME NEW r \in Runs, JournalSubmission(r) PROVE GateClosed'
  BY <1>11 DEF JournalSubmission, runVars, journalVars, exchangeVars
<1>12. ASSUME NEW r \in Runs, FindSubmission(r) PROVE GateClosed'
  BY <1>12 DEF FindSubmission, Advance, runVars, journalVars, exchangeVars
<1>13. ASSUME NEW r \in Runs, SubmitOrder(r) PROVE GateClosed'
  BY <1>13 DEF SubmitOrder, Post, runVars, journalVars, exchangeVars
<1>14. ASSUME NEW r \in Runs, ReceiveAcceptance(r) PROVE GateClosed'
  BY <1>14 DEF ReceiveAcceptance, Advance, runVars, journalVars, exchangeVars
<1>15. ASSUME NEW r \in Runs, JournalAcknowledgement(r) PROVE GateClosed'
  BY <1>15 DEF JournalAcknowledgement, runVars, journalVars, exchangeVars
<1>16. ASSUME NEW r \in Runs, ReconcileStatus(r) PROVE GateClosed'
  BY <1>16 DEF ReconcileStatus, runVars, journalVars, exchangeVars
<1>17. ASSUME NEW r \in Runs, ReconcilePosition(r) PROVE GateClosed'
  BY <1>17 DEF ReconcilePosition, PositionMatches, Unlocked, runVars, journalVars, exchangeVars
<1>18. ASSUME NEW r \in Runs, Fail(r) PROVE GateClosed'
  BY <1>18 DEF Fail, Unlocked, Forget, runVars, journalVars, exchangeVars
<1>19. ASSUME NEW r \in Runs, Crash(r) PROVE GateClosed'
  BY <1>19 DEF Crash, Forget, runVars, journalVars, exchangeVars
<1> QED BY <1>1, <1>2, <1>3, <1>4, <1>5, <1>6, <1>7, <1>8, <1>9, <1>10, <1>11,
         <1>12, <1>13, <1>14, <1>15, <1>16, <1>17, <1>18, <1>19
         DEF Next, RunStep, StartRun, ExchangeStep, vars, runVars,
             journalVars, exchangeVars, RecordDecision, Tick, RetryPost,
             SessionEnds, ExchangeAccepts, ExchangeRefuses, Fill, OrderCloses,
             Flatten, Post

\* Every POST is made by the run that inserted the submission row.
LEMMA OnlyWriterPostsStep == IInv /\ TypeOK' /\ [Next]_vars => OnlyWriterPosts'
<1> SUFFICES ASSUME IInv, TypeOK', [Next]_vars PROVE OnlyWriterPosts'
  OBVIOUS
<1> USE NoneAssumption, DecisionsAssumption DEF IInv, TypeOK, TargetKnown,
      WriterKnown, OnlyWriterPosts, Posted, NetIsPosted, Requests, Ended
<1>1. CASE UNCHANGED <<attempt, target, writer, orders>>
  BY <1>1
<1>2. ASSUME NEW r \in Runs, NEW d \in Decisions, StartExplicit(r, d)
      PROVE  OnlyWriterPosts'
  BY <1>2 DEF StartExplicit, runVars, journalVars, exchangeVars
<1>3. ASSUME NEW r \in Runs, SelectPending(r) PROVE OnlyWriterPosts'
  BY <1>3 DEF SelectPending, Pending, runVars, journalVars, exchangeVars
<1>4. ASSUME NEW r \in Runs, JournalSubmission(r) PROVE OnlyWriterPosts'
  BY <1>4 DEF JournalSubmission, runVars, journalVars, exchangeVars
<1>5. ASSUME NEW r \in Runs, SubmitOrder(r) PROVE OnlyWriterPosts'
  BY <1>5 DEF SubmitOrder, Post, runVars, journalVars, exchangeVars
<1>6. ASSUME NEW r \in Runs, RetryPost(r) PROVE OnlyWriterPosts'
  BY <1>6 DEF RetryPost, Post, runVars, journalVars, exchangeVars
<1>7. ASSUME NEW request \in net, ExchangeAccepts(request) PROVE OnlyWriterPosts'
  BY <1>7 DEF ExchangeAccepts, Respond, runVars, journalVars, exchangeVars
<1>8. ASSUME NEW d \in Decisions, Fill(d) PROVE OnlyWriterPosts'
  BY <1>8 DEF Fill, runVars, journalVars, exchangeVars
<1> QED BY <1>1, <1>2, <1>3, <1>4, <1>5, <1>6, <1>7, <1>8
         DEF Next, RunStep, StartRun, ExchangeStep, vars, runVars,
             journalVars, exchangeVars, RecordDecision, ActivateKillSwitch,
             ReleaseKillSwitch, Tick, StartSelecting, Preflight, LoopCheck,
             LoadDecision, Gate, FindSubmission, ReceiveAcceptance,
             JournalAcknowledgement, ReconcileStatus, ReconcilePosition, Fail,
             Crash, SessionEnds, ExchangeRefuses, OrderCloses, Flatten,
             Advance

\* An acknowledgement row is written only for an order the exchange has.
LEMMA AckIsTruthfulStep == IInv /\ TypeOK' /\ [Next]_vars => AckIsTruthful'
<1> SUFFICES ASSUME IInv, TypeOK', [Next]_vars PROVE AckIsTruthful'
  OBVIOUS
<1> USE NoneAssumption, DecisionsAssumption DEF IInv, TypeOK, TargetKnown,
      WriterKnown, AckIsTruthful, NetIsPosted, Quantities, Ended
<1>1. CASE UNCHANGED <<acks, orders, writer>>
  BY <1>1
<1>2. ASSUME NEW r \in Runs, JournalSubmission(r) PROVE AckIsTruthful'
  BY <1>2 DEF JournalSubmission, runVars, journalVars, exchangeVars
<1>3. ASSUME NEW r \in Runs, JournalAcknowledgement(r) PROVE AckIsTruthful'
  BY <1>3 DEF JournalAcknowledgement, runVars, journalVars, exchangeVars
<1>4. ASSUME NEW request \in net, ExchangeAccepts(request) PROVE AckIsTruthful'
  BY <1>4 DEF ExchangeAccepts, Respond, runVars, journalVars, exchangeVars
<1>5. ASSUME NEW d \in Decisions, Fill(d) PROVE AckIsTruthful'
  <2>1. orders[d] \in Nat /\ orders'[d] \in Nat /\ orders'[d] # None
    BY <1>5 DEF Fill, runVars, journalVars, exchangeVars
  <2>2. \A e \in Decisions : e # d => orders'[e] = orders[e]
    BY <1>5 DEF Fill, runVars, journalVars, exchangeVars
  <2> QED
    BY <1>5, <2>1, <2>2 DEF Fill, runVars, journalVars, exchangeVars
<1> QED BY <1>1, <1>2, <1>3, <1>4, <1>5
         DEF Next, RunStep, StartRun, ExchangeStep, vars, runVars,
             journalVars, exchangeVars, RecordDecision, ActivateKillSwitch,
             ReleaseKillSwitch, Tick, StartSelecting, StartExplicit,
             SelectPending, Preflight, LoopCheck, LoadDecision, Gate,
             FindSubmission, SubmitOrder, RetryPost, ReceiveAcceptance,
             ReconcileStatus, ReconcilePosition, Fail, Crash, SessionEnds,
             ExchangeRefuses, OrderCloses, Flatten, Advance, Post
\* The initial state satisfies every conjunct.
LEMMA IInvInit == Init => IInv
<1> SUFFICES ASSUME Init PROVE IInv
  OBVIOUS
<1> USE BoundsAssumption, NoneAssumption DEF Init
<1>1. TypeOK
  <2>1. /\ clock \in 0..MaxClock /\ stamp \in [Runs -> 0..MaxClock]
        /\ createdAt \in [Decisions -> 0..MaxClock]
        /\ attempt \in [Runs -> 0..MaxRetries + 1] /\ seen \in [Runs -> Quantities]
    BY DEF Quantities
  <2>2. /\ pc \in [Runs -> Active \cup Ended \cup {"idle"}] /\ mode \in [Runs -> Modes]
        /\ reply \in [Runs -> {"none", "accepted", "refused"}]
    BY DEF Modes
  <2>3. /\ target \in [Runs -> Decisions \cup {None}]
        /\ writer \in [Decisions -> Runs \cup {None}]
        /\ orders \in [Decisions -> Quantities \cup {None}]
    OBVIOUS
  <2> QED
    BY <2>1, <2>2, <2>3 DEF TypeOK
<1>2. TargetKnown /\ WriterKnown /\ NetIsPosted /\ TrailKept
  BY DEF TargetKnown, WriterKnown, NetIsPosted, TrailKept, Posted
<1>3. LockHeld /\ GateClosed /\ OnlyWriterPosts /\ AckIsTruthful
  BY DEF LockHeld, GateClosed, OnlyWriterPosts, AckIsTruthful, Posted, Active
<1> QED BY <1>1, <1>2, <1>3 DEF IInv

\* IInv is an invariant of the specification.
THEOREM Invariance == Spec => []IInv
<1>1. IInv /\ [Next]_vars => IInv'
  BY TypeOKStep, TargetKnownStep, WriterKnownStep, NetIsPostedStep,
     TrailKeptStep, LockHeldStep, GateClosedStep, OnlyWriterPostsStep,
     AckIsTruthfulStep DEF IInv
<1> QED BY IInvInit, <1>1, PTL DEF Spec

\* Types.
THEOREM TypeCorrect == Spec => []TypeOK
<1>1. IInv => TypeOK
  BY DEF IInv
<1> QED BY Invariance, <1>1, PTL

\* Only the run whose INSERT created the submission row posts the order of a
\* decision, whatever is rerun, retried or run at the same time.
THEOREM PostedOnce == Spec => []OnlyWriterPosts
<1>1. IInv => OnlyWriterPosts
  BY DEF IInv
<1> QED BY Invariance, <1>1, PTL

\* The advisory lock admits one selector at a time.
THEOREM SelectorExclusion == Spec => []OneSelector
<1>1. IInv => OneSelector
  BY DEF IInv, LockHeld, OneSelector
<1> QED BY Invariance, <1>1, PTL

\* Acknowledgement rows are about orders the exchange has.
THEOREM Acknowledged == Spec => []AckIsTruthful
<1>1. IInv => AckIsTruthful
  BY DEF IInv
<1> QED BY Invariance, <1>1, PTL

\* A run that reports success has left the complete trail of its decision.
THEOREM Reconciled == Spec => []DoneIsReconciled
<1>1. IInv => DoneIsReconciled
  BY DEF IInv, TrailKept, DoneIsReconciled
<1> QED BY Invariance, <1>1, PTL

\* A POST sent while the Kill Switch is active comes from a run that was past
\* its last check when the Kill Switch was activated.
THEOREM KillSwitchBound == Spec => ExposureBounded
<1> DEFINE Bound == killSwitch => \A request \in net' \ net : request[1] \in exposed
<1>1. IInv /\ [Next]_vars => [Bound]_vars
  <2> SUFFICES ASSUME IInv, Next PROVE Bound
    OBVIOUS
  <2>1. CASE net' = net
    BY <2>1
  <2>2. ASSUME NEW r \in Runs, SubmitOrder(r) \/ RetryPost(r) PROVE Bound
    <3>1. net' = net \cup {<<r, attempt[r] + 1>>} /\ r \in PastGate
      BY <2>2 DEF SubmitOrder, RetryPost, Post, PastGate
    <3> QED
      BY <3>1 DEF IInv, GateClosed
  <2>3. ASSUME NEW request \in net, ExchangeAccepts(request) \/ ExchangeRefuses(request)
        PROVE  Bound
    BY <2>3 DEF ExchangeAccepts, ExchangeRefuses
  <2> QED
    BY <2>1, <2>2, <2>3 DEF Next, RunStep, StartRun, ExchangeStep,
       RecordDecision, ActivateKillSwitch, ReleaseKillSwitch, Tick,
       StartSelecting, StartExplicit, SelectPending, Preflight, LoopCheck,
       LoadDecision, Gate, JournalSubmission, FindSubmission,
       ReceiveAcceptance, JournalAcknowledgement, ReconcileStatus,
       ReconcilePosition, Fail, Crash, SessionEnds, Fill, OrderCloses,
       Flatten, Advance
<1> QED BY Invariance, <1>1, PTL DEF Spec, ExposureBounded

\* The stage of a decision depends on three tables only.
LEMMA StageSame ==
  UNCHANGED <<writer, orders, acks>> => UNCHANGED stage
BY DEF stage

\* A step that changes one decision's stage from a to b.
LEMMA StageMoves ==
  ASSUME NEW d \in Decisions, NEW a, NEW b,
         stage[d] = a, stage'[d] = b,
         \A e \in Decisions : e # d => stage'[e] = stage[e]
  PROVE  stage' = [stage EXCEPT ![d] = b]
BY DEF stage

\* The live order journal implements the abstract lifecycle of an order.
THEOREM Refinement == Spec => ImplementsLifecycle
<1>1. Init => Lifecycle!Init
  BY DEF Init, Lifecycle!Init, stage
<1>2. IInv /\ [Next]_vars => [Lifecycle!Next]_stage
  <2> SUFFICES ASSUME IInv, [Next]_vars PROVE [Lifecycle!Next]_stage
    OBVIOUS
  <2> USE DEF Lifecycle!Next, Lifecycle!Move
  <2>1. CASE UNCHANGED <<writer, orders, acks>>
    BY <2>1, StageSame
  <2>2. ASSUME NEW r \in Runs, JournalSubmission(r) PROVE Lifecycle!Next
    <3> DEFINE d == target[r]
    <3>1. d \in Decisions /\ writer[d] = None
      BY <2>2, JournalFacts DEF JournalSubmission
    <3>2. d \notin acks /\ orders[d] = None
      BY <3>1, NoneAssumption DEF IInv, TypeOK, AckIsTruthful, OnlyWriterPosts, Posted
    <3>3. stage[d] = "undecided" /\ stage'[d] = "journaled"
      BY <2>2, <3>1, <3>2, NoneAssumption DEF IInv, TypeOK, stage, JournalSubmission, exchangeVars
    <3>4. \A e \in Decisions : e # d => stage'[e] = stage[e]
      BY <2>2 DEF IInv, TypeOK, stage, JournalSubmission, exchangeVars
    <3> QED
      BY <3>1, <3>3, <3>4, StageMoves
  <2>3. ASSUME NEW request \in net, ExchangeAccepts(request) PROVE Lifecycle!Next
    <3> DEFINE d == target[request[1]]
    <3>1. request[1] \in Posted /\ d \in Decisions
      BY <2>3, NoneAssumption DEF IInv, TypeOK, NetIsPosted, TargetKnown, Posted, Requests
    <3>2. writer[d] # None /\ d \notin acks /\ orders[d] = None
      BY <2>3, <3>1, NoneAssumption DEF IInv, TypeOK, OnlyWriterPosts, AckIsTruthful,
         ExchangeAccepts, Posted
    <3>3. orders' = [orders EXCEPT ![d] = 0] /\ writer' = writer /\ acks' = acks
      BY <2>3 DEF ExchangeAccepts, journalVars
    <3>4. stage[d] = "journaled" /\ stage'[d] = "placed"
      BY <3>1, <3>2, <3>3, NoneAssumption DEF IInv, TypeOK, stage
    <3>5. \A e \in Decisions : e # d => stage'[e] = stage[e]
      BY <3>3 DEF IInv, TypeOK, stage
    <3> QED
      BY <3>1, <3>4, <3>5, StageMoves
  <2>4. ASSUME NEW r \in Runs, JournalAcknowledgement(r) PROVE Lifecycle!Next
    <3> DEFINE d == target[r]
    <3>1. d \in Decisions /\ orders[d] # None /\ d \notin acks /\ writer[d] = r
      BY <2>4, NoneAssumption DEF IInv, TypeOK, TargetKnown, NetIsPosted, WriterKnown,
         JournalAcknowledgement
    <3>2. acks' = acks \cup {d} /\ orders' = orders /\ writer' = writer
      BY <2>4 DEF JournalAcknowledgement, exchangeVars
    <3>3. stage[d] = "placed" /\ stage'[d] = "acknowledged"
      BY <3>1, <3>2 DEF stage
    <3>4. \A e \in Decisions : e # d => stage'[e] = stage[e]
      BY <3>2 DEF stage
    <3> QED
      BY <3>1, <3>3, <3>4, StageMoves
  <2>5. ASSUME NEW d \in Decisions, Fill(d) PROVE UNCHANGED stage
    <3>1. orders[d] # None /\ orders'[d] # None
      BY <2>5, NoneAssumption DEF IInv, TypeOK, NetIsPosted, Quantities, Fill
    <3>2. \A e \in Decisions : e # d => orders'[e] = orders[e]
      BY <2>5 DEF IInv, TypeOK, Fill
    <3>3. writer' = writer /\ acks' = acks
      BY <2>5 DEF Fill, journalVars
    <3> QED
      BY <3>1, <3>2, <3>3 DEF stage
  <2> QED
    BY <2>1, <2>2, <2>3, <2>4, <2>5 DEF Next, RunStep, StartRun, ExchangeStep,
       RecordDecision, ActivateKillSwitch, ReleaseKillSwitch, Tick,
       StartSelecting, StartExplicit, SelectPending, Preflight, LoopCheck,
       LoadDecision, Gate, FindSubmission, SubmitOrder, RetryPost,
       ReceiveAcceptance, ReconcileStatus, ReconcilePosition, Fail, Crash,
       SessionEnds, ExchangeRefuses, OrderCloses, Flatten, Advance, vars,
       journalVars, exchangeVars
<1> QED BY Invariance, <1>1, <1>2, PTL DEF Spec, ImplementsLifecycle, Lifecycle!Spec

-----------------------------------------------------------------------------
(***************************************************************************)
(* Bounded work.  That a run ends (EveryRunEnds) takes fairness, and TLC   *)
(* checks it; what it rests on holds for any constants: a measure that     *)
(* every step of a run lowers and no other step raises.                    *)
(***************************************************************************)
Stage(place) ==
  CASE place = "select" -> 12 [] place = "preflight" -> 11
    [] place = "loop" -> 10 [] place = "load" -> 9 [] place = "gate" -> 8
    [] place = "journal" -> 7 [] place = "send" -> 6 [] place = "await" -> 5
    [] place = "ack" -> 4 [] place = "status" -> 3 [] place = "position" -> 2
    [] OTHER -> 0

Held(r) == IF lock = r THEN 1 ELSE 0

\* The most steps run r can still take, once it has started.
Remaining(r) == Stage(pc[r]) + (MaxRetries + 1 - attempt[r]) + Held(r)

RunsAreBounded ==
  [][\A r \in Runs :
       /\ RunStep(r) \/ Crash(r) \/ SessionEnds(r) => Remaining(r)' < Remaining(r)
       /\ ~StartRun(r) => Remaining(r)' <= Remaining(r)]_vars

\* Only a run in progress, or one that has crashed, keeps the lock.
LockIsLive == \A r \in Runs : lock = r => pc[r] \in Active \cup {"crashed"}

\* A run is somewhere, has posted so many times and holds the lock or does not.
LEMMA RemainingType ==
  ASSUME TypeOK, NEW r \in Runs
  PROVE  /\ Stage(pc[r]) \in 0..12 /\ attempt[r] \in 0..(MaxRetries + 1)
         /\ Held(r) \in 0..1 /\ MaxRetries \in Nat
<1>1. attempt[r] \in 0..(MaxRetries + 1) /\ MaxRetries \in Nat
  BY BoundsAssumption DEF TypeOK
<1>2. Stage(pc[r]) \in 0..12
  BY DEF Stage
<1>3. Held(r) \in 0..1
  BY DEF Held
<1> QED BY <1>1, <1>2, <1>3

\* A step that moves a run on, and neither takes the lock nor forgets a POST,
\* leaves it fewer steps.
LEMMA MovedOn ==
  ASSUME TypeOK, TypeOK', NEW r \in Runs,
         Stage(pc[r])' < Stage(pc[r]), attempt'[r] >= attempt[r],
         lock' \in {lock, None}
  PROVE  Remaining(r)' < Remaining(r)
<1>1. /\ Stage(pc[r]) \in 0..12 /\ attempt[r] \in 0..(MaxRetries + 1)
      /\ Stage(pc[r])' \in 0..12 /\ attempt'[r] \in 0..(MaxRetries + 1)
      /\ MaxRetries \in Nat
  <2>1. Stage(pc'[r]) \in 0..12 /\ attempt'[r] \in 0..(MaxRetries + 1)
    BY BoundsAssumption DEF TypeOK, Stage
  <2> QED BY <2>1, RemainingType
<1>2. Held(r) \in 0..1 /\ Held(r)' \in 0..1 /\ Held(r)' <= Held(r)
  BY NoneAssumption DEF Held
<1> QED BY <1>1, <1>2 DEF Remaining

\* A run that moves on goes to a later stage.
LEMMA LaterStages ==
  /\ Stage("select") = 12 /\ Stage("preflight") = 11 /\ Stage("loop") = 10
  /\ Stage("load") = 9 /\ Stage("gate") = 8 /\ Stage("journal") = 7
  /\ Stage("send") = 6 /\ Stage("await") = 5 /\ Stage("ack") = 4
  /\ Stage("status") = 3 /\ Stage("position") = 2
  /\ \A place \in Ended \cup {"idle"} : Stage(place) = 0
  /\ \A place \in Active : Stage(place) > 1
BY DEF Stage, Ended, Active

\* Each step of a run, and the end of its session, leaves it fewer steps.
LEMMA StepsAreCounted ==
  ASSUME IInv, TypeOK', NEW r \in Runs, RunStep(r) \/ Crash(r) \/ SessionEnds(r)
  PROVE  Remaining(r)' < Remaining(r)
<1>1. TypeOK /\ pc \in [Runs -> Active \cup Ended \cup {"idle"}]
      /\ attempt \in [Runs -> 0..(MaxRetries + 1)] /\ MaxRetries \in Nat
  BY BoundsAssumption DEF IInv, TypeOK
<1> DEFINE Moves(from, to) ==
             /\ pc[r] = from /\ pc' = [pc EXCEPT ![r] = to]
             /\ attempt'[r] >= attempt[r] /\ lock' \in {lock, None}
<1>2. ASSUME NEW from \in Active, NEW to, Moves(from, to), Stage(to) < Stage(from)
      PROVE  Remaining(r)' < Remaining(r)
  <2>1. pc'[r] = to /\ pc[r] = from
    BY <1>1, <1>2
  <2> QED BY <1>1, <1>2, <2>1, MovedOn
<1> HIDE DEF Moves
<1>3. CASE SelectPending(r)
  <2>1. Moves("select", "preflight")
    BY <1>1, <1>3 DEF Moves, SelectPending
  <2> QED BY <1>2, <2>1, LaterStages DEF Active
<1>4. ASSUME NEW from \in Active, NEW to, pc[r] = from, Advance(r, to),
             Stage(to) < Stage(from)
      PROVE  Remaining(r)' < Remaining(r)
  <2>1. Moves(from, to)
    BY <1>1, <1>4 DEF Moves, Advance
  <2> QED BY <1>2, <1>4, <2>1
<1>5. CASE Preflight(r)
  BY <1>4, <1>5, LaterStages DEF Preflight, Active
<1>6. CASE LoopCheck(r)
  BY <1>4, <1>6, LaterStages DEF LoopCheck, Active
<1>7. CASE LoadDecision(r)
  BY <1>4, <1>7, LaterStages DEF LoadDecision, Active
<1>8. CASE Gate(r)
  <2>1. Moves("gate", "journal")
    BY <1>1, <1>8 DEF Moves, Gate
  <2> QED BY <1>2, <2>1, LaterStages DEF Active
<1>9. CASE JournalSubmission(r)
  <2>1. Moves("journal", "send")
    BY <1>1, <1>9 DEF Moves, JournalSubmission
  <2> QED BY <1>2, <2>1, LaterStages DEF Active
<1>10. CASE FindSubmission(r)
  BY <1>4, <1>10, LaterStages DEF FindSubmission, Active
<1>11. CASE SubmitOrder(r)
  <2>1. Moves("send", "await")
    BY <1>1, <1>11 DEF Moves, SubmitOrder, Post
  <2> QED BY <1>2, <2>1, LaterStages DEF Active
<1>12. CASE ReceiveAcceptance(r)
  BY <1>4, <1>12, LaterStages DEF ReceiveAcceptance, Active
<1>13. CASE JournalAcknowledgement(r)
  <2>1. Moves("ack", "status")
    BY <1>1, <1>13 DEF Moves, JournalAcknowledgement
  <2> QED BY <1>2, <2>1, LaterStages DEF Active
<1>14. CASE ReconcileStatus(r)
  <2>1. Moves("status", "position")
    BY <1>1, <1>14 DEF Moves, ReconcileStatus
  <2> QED BY <1>2, <2>1, LaterStages DEF Active
<1>15. CASE ReconcilePosition(r)
  <2>1. Moves("position", "done")
    BY <1>1, <1>15 DEF Moves, ReconcilePosition, Unlocked
  <2> QED BY <1>2, <2>1, LaterStages DEF Active, Ended
<1>16. CASE Fail(r) \/ Crash(r)
  <2>1. PICK from \in Active, to \in Ended : Moves(from, to)
    BY <1>1, <1>16 DEF Moves, Fail, Crash, Unlocked, Ended
  <2>2. Stage(to) < Stage(from)
    BY LaterStages DEF Stage, Active
  <2> QED BY <1>2, <2>1, <2>2
<1>17. CASE RetryPost(r)
  <2>1. /\ pc' = pc /\ lock' = lock /\ attempt'[r] = attempt[r] + 1
    BY <1>1, <1>17 DEF RetryPost, Post
  <2>2. Stage(pc[r])' = Stage(pc[r]) /\ Held(r)' = Held(r)
    BY <2>1 DEF Held
  <2> QED BY <1>1, <2>1, <2>2, RemainingType DEF Remaining
<1>18. CASE SessionEnds(r)
  <2>1. pc' = pc /\ attempt' = attempt /\ lock = r /\ lock' = None
    BY <1>18 DEF SessionEnds, runVars
  <2>2. Stage(pc[r])' = Stage(pc[r]) /\ Held(r) = 1 /\ Held(r)' = 0
    BY <2>1, NoneAssumption DEF Held
  <2> QED BY <1>1, <2>1, <2>2, RemainingType DEF Remaining
<1> QED
  BY <1>3, <1>5, <1>6, <1>7, <1>8, <1>9, <1>10, <1>11, <1>12, <1>13, <1>14,
     <1>15, <1>16, <1>17, <1>18 DEF RunStep

\* A step of one run leaves the others where they are.
LEMMA OneRunMoves ==
  ASSUME TypeOK, NEW s \in Runs, NEW r \in Runs \ {s},
         StartRun(s) \/ RunStep(s) \/ Crash(s) \/ SessionEnds(s)
  PROVE  pc'[r] = pc[r] /\ attempt'[r] = attempt[r] /\ lock' \in {lock, None, s}
<1> DEFINE Alone ==
             /\ pc'[r] = pc[r] /\ attempt'[r] = attempt[r]
             /\ lock' \in {lock, None, s}
<1> USE DEF TypeOK
<1>1. ASSUME StartRun(s) PROVE Alone
  BY <1>1 DEF StartRun, StartSelecting, StartExplicit
<1>2. ASSUME NEW to, Advance(s, to) PROVE Alone
  BY <1>2 DEF Advance
<1>3. ASSUME Preflight(s) \/ LoopCheck(s) \/ LoadDecision(s) \/ FindSubmission(s)
             \/ ReceiveAcceptance(s)
      PROVE  Alone
  BY <1>2, <1>3 DEF Preflight, LoopCheck, LoadDecision, FindSubmission,
     ReceiveAcceptance
<1>4. ASSUME SelectPending(s) \/ Gate(s) \/ JournalSubmission(s)
             \/ JournalAcknowledgement(s) \/ ReconcileStatus(s)
      PROVE  Alone
  BY <1>4 DEF SelectPending, Gate, JournalSubmission, JournalAcknowledgement,
     ReconcileStatus
<1>5. ASSUME SubmitOrder(s) \/ RetryPost(s) PROVE Alone
  BY <1>5 DEF SubmitOrder, RetryPost, Post
<1>6. ASSUME ReconcilePosition(s) \/ Fail(s) \/ Crash(s) PROVE Alone
  BY <1>6 DEF ReconcilePosition, Fail, Crash, Unlocked
<1>7. ASSUME SessionEnds(s) PROVE Alone
  BY <1>7 DEF SessionEnds, runVars
<1> QED BY <1>1, <1>3, <1>4, <1>5, <1>6, <1>7 DEF RunStep

\* No step of anything else gives a run more to do, or takes the lock for it.
LEMMA OthersDoNotAdd ==
  ASSUME IInv, NEW r \in Runs, [Next]_vars,
         ~StartRun(r), ~RunStep(r), ~Crash(r), ~SessionEnds(r)
  PROVE  Remaining(r)' <= Remaining(r)
<1>1. TypeOK
  BY DEF IInv
<1>2. pc'[r] = pc[r] /\ attempt'[r] = attempt[r] /\ (lock' = r => lock = r)
  <2>1. CASE UNCHANGED <<pc, attempt, lock>>
    BY <2>1
  <2>2. ASSUME NEW s \in Runs,
               StartRun(s) \/ RunStep(s) \/ Crash(s) \/ SessionEnds(s)
        PROVE  /\ pc'[r] = pc[r] /\ attempt'[r] = attempt[r]
               /\ lock' = r => lock = r
    <3>1. s # r
      BY <2>2
    <3> QED BY <1>1, <2>2, <3>1, OneRunMoves, NoneAssumption
  <2>3. CASE ExchangeStep
    BY <2>1, <2>3 DEF ExchangeStep, ExchangeAccepts, ExchangeRefuses, Fill,
       OrderCloses, Flatten, runVars
  <2>4. CASE \/ \E d \in Decisions : RecordDecision(d)
             \/ ActivateKillSwitch \/ ReleaseKillSwitch \/ Tick \/ UNCHANGED vars
    BY <2>1, <2>4 DEF RecordDecision, ActivateKillSwitch, ReleaseKillSwitch, Tick,
       vars, runVars
  <2> QED BY <2>2, <2>3, <2>4 DEF Next
<1>3. Stage(pc[r])' = Stage(pc[r])
  BY <1>2
<1>4. Held(r) \in 0..1 /\ Held(r)' \in 0..1 /\ Held(r)' <= Held(r)
  BY <1>2 DEF Held
<1> QED BY <1>1, <1>2, <1>3, <1>4, RemainingType DEF Remaining

\* Every step of a run leaves it fewer steps and no step of anything else gives
\* it more: whatever the exchange answers, a run that has started is over after
\* at most MaxRetries + 14 steps of its own, the release of the lock included
\* (SubmitApprovedEntryOrder and the bounded retries of the REST client).
THEOREM BoundedRuns ==
  Spec => []( \A r \in Runs : Remaining(r) \in 0..(MaxRetries + 14)) /\ RunsAreBounded
<1>1. IInv => \A r \in Runs : Remaining(r) \in 0..(MaxRetries + 14)
  <2> SUFFICES ASSUME IInv, NEW r \in Runs
               PROVE  Remaining(r) \in 0..(MaxRetries + 14)
    OBVIOUS
  <2> QED BY RemainingType DEF IInv, Remaining
<1>2. IInv /\ IInv' /\ [Next]_vars =>
        [\A r \in Runs :
           /\ RunStep(r) \/ Crash(r) \/ SessionEnds(r) => Remaining(r)' < Remaining(r)
           /\ ~StartRun(r) => Remaining(r)' <= Remaining(r)]_vars
  <2> SUFFICES ASSUME IInv, IInv', [Next]_vars, NEW r \in Runs
               PROVE  /\ RunStep(r) \/ Crash(r) \/ SessionEnds(r)
                            => Remaining(r)' < Remaining(r)
                      /\ ~StartRun(r) => Remaining(r)' <= Remaining(r)
    OBVIOUS
  <2>1. TypeOK /\ TypeOK'
    BY DEF IInv
  <2>2. RunStep(r) \/ Crash(r) \/ SessionEnds(r) => Remaining(r)' < Remaining(r)
    BY <2>1, StepsAreCounted
  <2>3. Remaining(r) \in Nat /\ Remaining(r)' \in Nat
    <3>1. Remaining(r) \in Nat
      BY <1>1
    <3>2. Remaining(r)' \in Nat
      <4>1. \A s \in Runs : TypeOK' => Remaining(s)' \in Nat
        BY BoundsAssumption DEF TypeOK, Remaining, Stage, Held
      <4> QED BY <2>1, <4>1
    <3> QED BY <3>1, <3>2
  <2>4. ~StartRun(r) => Remaining(r)' <= Remaining(r)
    BY <2>2, <2>3, OthersDoNotAdd
  <2> QED BY <2>2, <2>4
<1> QED BY <1>1, <1>2, Invariance, PTL DEF Spec, RunsAreBounded

\* The lock is never left behind by a run that has returned: only a run in
\* progress holds it, or one that crashed and whose session PostgreSQL is about
\* to end (the deferred release in the live-loop command).
THEOREM LockIsReleased == Spec => []LockIsLive
<1>1. Init => LockIsLive
  BY NoneAssumption DEF Init, LockIsLive
<1>2. IInv /\ LockIsLive /\ [Next]_vars => LockIsLive'
  <2> SUFFICES ASSUME IInv, LockIsLive, [Next]_vars, NEW r \in Runs, lock' = r
               PROVE  pc'[r] \in Active \cup {"crashed"}
    BY DEF LockIsLive
  <2> USE DEF Active
  <2>1. TypeOK
    BY DEF IInv
  <2>2. CASE UNCHANGED <<pc, lock>>
    BY <2>2 DEF LockIsLive
  <2>3. CASE StartRun(r)
    BY <2>1, <2>3 DEF StartRun, StartSelecting, StartExplicit, TypeOK
  <2>4. CASE RunStep(r) \/ Crash(r) \/ SessionEnds(r)
    <3>1. ASSUME NEW to, Advance(r, to), to \in Active
          PROVE  pc'[r] \in Active \cup {"crashed"}
      BY <2>1, <3>1 DEF Advance, TypeOK
    <3>2. CASE Preflight(r) \/ LoopCheck(r) \/ LoadDecision(r) \/ FindSubmission(r)
               \/ ReceiveAcceptance(r)
      BY <3>1, <3>2 DEF Preflight, LoopCheck, LoadDecision, FindSubmission,
         ReceiveAcceptance
    <3>3. CASE SelectPending(r) \/ Gate(r) \/ JournalSubmission(r)
               \/ JournalAcknowledgement(r) \/ ReconcileStatus(r) \/ Crash(r)
      BY <2>1, <3>3 DEF SelectPending, Gate, JournalSubmission,
         JournalAcknowledgement, ReconcileStatus, Crash, TypeOK
    <3>4. CASE SubmitOrder(r) \/ RetryPost(r)
      BY <2>1, <3>4 DEF SubmitOrder, RetryPost, Post, TypeOK
    <3>5. CASE ReconcilePosition(r) \/ Fail(r) \/ SessionEnds(r)
      BY <3>5, NoneAssumption DEF ReconcilePosition, Fail, SessionEnds, Unlocked
    <3> QED BY <2>4, <3>2, <3>3, <3>4, <3>5 DEF RunStep
  <2>5. ASSUME NEW s \in Runs \ {r},
               StartRun(s) \/ RunStep(s) \/ Crash(s) \/ SessionEnds(s)
        PROVE  pc'[r] \in Active \cup {"crashed"}
    <3>1. pc'[r] = pc[r] /\ lock = r
      BY <2>1, <2>5, OneRunMoves, NoneAssumption
    <3> QED BY <3>1 DEF LockIsLive
  <2>6. CASE ExchangeStep
    BY <2>2, <2>6 DEF ExchangeStep, ExchangeAccepts, ExchangeRefuses, Fill,
       OrderCloses, Flatten, runVars
  <2>7. CASE \/ \E d \in Decisions : RecordDecision(d)
             \/ ActivateKillSwitch \/ ReleaseKillSwitch \/ Tick \/ UNCHANGED vars
    BY <2>2, <2>7 DEF RecordDecision, ActivateKillSwitch, ReleaseKillSwitch, Tick,
       vars, runVars
  <2> QED BY <2>3, <2>4, <2>5, <2>6, <2>7 DEF Next
<1> QED BY <1>1, <1>2, Invariance, PTL DEF Spec
=============================================================================
