------------------------------- MODULE LiveGuard -------------------------------
(***************************************************************************)
(* What keeps live orders from an unsafe account: the Kill Switch and its  *)
(* append-only events, the startup preflight, and the position drift       *)
(* report with the guard that activates the Kill Switch.                   *)
(*                                                                         *)
(* The commands are processes of their own.  They meet in                  *)
(* risk_kill_switch_events, in live_position_snapshots and on the account. *)
(* A command stamps its event with a reading of the clock that it took     *)
(* when it began; the exchange client stamps a snapshot when it has mapped *)
(* the answer, which is later than the exchange gave it.  All commands     *)
(* read one clock, and a reading may repeat.                               *)
(***************************************************************************)
EXTENDS Integers, FiniteSets, Sequences

CONSTANTS Commands,
          Kinds,            \* what the commands may be
          Symbols,          \* symbols of the configuration
          Exposures,        \* what a position is compared by
          Flat,             \* the exposure without a position
          Abnormal,         \* exposures the exchange calls LIQ or ADL
          Ids,              \* explicit event ids
          MaxAge,           \* MaxAccountSnapshotAge
          BaselineMaxAge,   \* LivePositionDriftReportRequest.BaselineMaxAge
          MaxClock,         \* bound on the clock
          None

ASSUME KindsAssumption ==
  Kinds \subseteq {"preflight", "drift", "activate", "release"}
ASSUME ExposuresAssumption ==
  Flat \in Exposures \ Abnormal /\ Abnormal \subseteq Exposures
    /\ None \notin Exposures
ASSUME AgesAssumption ==
  MaxAge \in Nat /\ BaselineMaxAge \in Nat /\ MaxClock \in Nat

VARIABLES
  clock,
  position,     \* the account: exposure of each symbol
  journal,      \* live_position_snapshots, by symbol and observed_at
  events,       \* risk_kill_switch_events in the order of their ids
  kind, pc, id, verdict,
  now,          \* commandNow, reportNow: what snapshots are measured by
  began,        \* the reading of the clock at the beginning
  todo,         \* queries not answered yet
  target,       \* the symbol that was asked for
  seen,         \* the exchange's answer
  observed,     \* ObservedAt of the snapshot in hand
  problems,     \* problems of the preflight, checks that did not pass
  known,        \* history: how many events there were at the beginning
  place         \* history: which event the command appended, 0 for none

account == <<clock, position>>
started == <<kind, id, began, known>>
query == <<todo, target, seen>>
vars == <<account, journal, events, pc, verdict, now, observed, problems,
          place, started, query>>

Times == 0..MaxClock
Writers == {"activate", "release"}
Failing == {"future", "baseline in the future", "status", "exposure"}
Warning == {"no baseline", "stale baseline"}
Refusing == {"policy", "kill switch", "account", "stale account", "open"}
EventIds == Ids \cup (Kinds \X Times)
Event == [id : EventIds, by : Kinds, active : BOOLEAN, at : Times]

TypeOK ==
  /\ clock \in Times
  /\ position \in [Symbols -> Exposures]
  /\ journal \in [Symbols -> [Times -> Exposures \cup {None}]]
  /\ events \in Seq(Event)
  /\ kind \in [Commands -> Kinds \cup {None}]
  /\ pc \in [Commands -> {"idle", "kill switch", "account", "account check",
                          "ask", "answered", "record", "compare", "append",
                          "returned"}]
  /\ id \in [Commands -> EventIds \cup {None}]
  /\ verdict \in [Commands -> {"none", "ready", "refused", "CLEAR", "ATTENTION",
                               "BLOCKED", "appended", "skipped", "error"}]
  /\ now \in [Commands -> Times]
  /\ began \in [Commands -> Times]
  /\ todo \in [Commands -> SUBSET Symbols]
  /\ target \in [Commands -> Symbols \cup {None}]
  /\ seen \in [Commands -> Exposures \cup {None}]
  /\ observed \in [Commands -> Times]
  /\ problems \in [Commands -> SUBSET (Failing \cup Warning \cup Refusing)]
  /\ known \in [Commands -> Nat]
  /\ place \in [Commands -> Nat]

Init ==
  /\ clock = 0
  /\ position \in [Symbols -> Exposures]
  /\ journal = [s \in Symbols |-> [t \in Times |-> None]]
  /\ events = <<>>
  /\ kind = [c \in Commands |-> None]
  /\ pc = [c \in Commands |-> "idle"]
  /\ id = [c \in Commands |-> None]
  /\ verdict = [c \in Commands |-> "none"]
  /\ now = [c \in Commands |-> 0]
  /\ began = [c \in Commands |-> 0]
  /\ todo = [c \in Commands |-> {}]
  /\ target = [c \in Commands |-> None]
  /\ seen = [c \in Commands |-> None]
  /\ observed = [c \in Commands |-> 0]
  /\ problems = [c \in Commands |-> {}]
  /\ known = [c \in Commands |-> 0]
  /\ place = [c \in Commands |-> 0]

-----------------------------------------------------------------------------
(* The surroundings of the commands.                                        *)

Tick ==
  /\ clock < MaxClock
  /\ clock' = clock + 1
  /\ UNCHANGED <<position, journal, events, pc, verdict, now, observed,
                 problems, place, started, query>>

\* An order fills, a stop takes the position out, the exchange liquidates.
Trade(s) ==
  /\ \E e \in Exposures \ {position[s]} : position' = [position EXCEPT ![s] = e]
  /\ UNCHANGED <<clock, journal, events, pc, verdict, now, observed, problems,
                 place, started, query>>

-----------------------------------------------------------------------------
(* RiskKillSwitchRepository.                                                *)

Indices == 1..Len(events)

\* Fault: of the events of one instant the first is taken for the last.
LaterFirstId(i, j) ==
  events[i].at < events[j].at \/ (events[i].at = events[j].at /\ j < i)

\* ORDER BY created_at DESC, id DESC
Later(i, j) ==
  events[i].at < events[j].at \/ (events[i].at = events[j].at /\ i < j)

\* LIMIT 1
Latest == {i \in Indices : \A j \in Indices \ {i} : Later(j, i)}

\* CurrentKillSwitchState
KillSwitchActive == \E i \in Latest : events[i].active

\* INSERT ... ON CONFLICT (event_id) DO NOTHING, and the comparison with the
\* row that is there, whose reason may be another one.  The answer of the
\* insert may be lost.
AppendKillSwitchEvent(c) ==
  LET event == [id |-> id[c], by |-> kind[c], active |-> kind[c] # "release",
                at |-> began[c]]
      same == {i \in Indices : events[i].id = id[c]} IN
  /\ pc[c] = "append"
  /\ pc' = [pc EXCEPT ![c] = "returned"]
  /\ \/ /\ same = {}
        /\ events' = Append(events, event)
        /\ \/ /\ verdict' = [verdict EXCEPT ![c] = "appended"]
              /\ place' = [place EXCEPT ![c] = Len(events) + 1]
           \/ /\ verdict' = [verdict EXCEPT ![c] = "error"]
              /\ UNCHANGED place
     \/ /\ \E i \in same : events[i] = event
        /\ verdict' = [verdict EXCEPT ![c] = "skipped"]
        /\ UNCHANGED <<events, place>>
     \/ /\ same # {}
        /\ verdict' = [verdict EXCEPT ![c] = "error"]
        /\ UNCHANGED <<events, place>>
  /\ UNCHANGED <<account, journal, now, observed, problems, started, query>>

-----------------------------------------------------------------------------
(* The commands.                                                            *)

\* Whatever a command does next may fail, and a command may be stopped.
Fail(c) ==
  /\ pc[c] \notin {"idle", "returned"}
  /\ pc' = [pc EXCEPT ![c] = "returned"]
  /\ verdict' = [verdict EXCEPT ![c] = "error"]
  /\ UNCHANGED <<account, journal, events, now, observed, problems, place,
                 started, query>>

\* A command reads its flags, its configuration and the clock.
Begin(c, k) ==
  /\ pc[c] = "idle"
  /\ kind' = [kind EXCEPT ![c] = k]
  /\ began' = [began EXCEPT ![c] = clock]
  /\ now' = [now EXCEPT ![c] = clock]
  /\ \E i \in (IF k = "preflight" THEN {None} ELSE Ids \cup {<<k, clock>>}) :
       id' = [id EXCEPT ![c] = i]
  /\ pc' = [pc EXCEPT ![c] = CASE k = "preflight" -> "kill switch"
                               [] k = "drift" -> "ask"
                               [] OTHER -> "append"]
  /\ todo' = [todo EXCEPT ![c] = IF k \in Writers THEN {} ELSE Symbols]
  /\ known' = [known EXCEPT ![c] = Len(events)]
  /\ UNCHANGED <<account, journal, events, verdict, observed, problems, place,
                 target, seen>>

\* The command has found these problems: it goes on at `next' without any,
\* and reports them otherwise.
Unless(c, found, next) ==
  /\ problems' = [problems EXCEPT ![c] = found]
  /\ \/ /\ found = {}
        /\ pc' = [pc EXCEPT ![c] = next] /\ UNCHANGED verdict
     \/ /\ found # {}
        /\ pc' = [pc EXCEPT ![c] = "returned"]
        /\ verdict' = [verdict EXCEPT ![c] = "refused"]

\* Fault: the state of the Kill Switch is shown, and that is all.
CheckKillSwitchOnly(c) ==
  /\ pc[c] = "kill switch"
  /\ \E found \in {{}, {"policy"}} : Unless(c, found, "account")
  /\ UNCHANGED <<account, journal, events, now, observed, place, started,
                 query>>

\* PreflightLiveStartup: policy and environment, then the Kill Switch; any
\* problem so far leaves the account alone.
CheckKillSwitch(c) ==
  /\ pc[c] = "kill switch"
  /\ \E policy \in {{}, {"policy"}} :
       Unless(c, policy \cup (IF KillSwitchActive THEN {"kill switch"} ELSE {}),
              "account")
  /\ UNCHANGED <<account, journal, events, now, observed, place, started,
                 query>>

\* GetAccountSnapshot stamps the account, which is fit or not; the row of
\* live_account_snapshots is read by no one.
ReadAccount(c) ==
  /\ pc[c] = "account"
  /\ observed' = [observed EXCEPT ![c] = clock]
  /\ \E found \in {{}, {"account"}} :
       problems' = [problems EXCEPT ![c] = found]
  /\ pc' = [pc EXCEPT ![c] = "account check"]
  /\ UNCHANGED <<account, journal, events, verdict, now, place, started, query>>

\* validateStartupAccountReadiness; only a fit account gets to the positions,
\* which are measured by the clock before the first of them is asked for.
CheckAccount(c) ==
  /\ pc[c] = "account check"
  /\ Unless(c, problems[c] \cup (IF clock - observed[c] > MaxAge
                                 THEN {"stale account"} ELSE {}), "ask")
  /\ now' = [now EXCEPT ![c] = clock]
  /\ UNCHANGED <<account, journal, events, observed, place, started,
                 query>>

\* The exchange answers GetPositionSnapshot.
Ask(c) ==
  /\ pc[c] = "ask"
  /\ \E s \in todo[c] :
       /\ todo' = [todo EXCEPT ![c] = @ \ {s}]
       /\ target' = [target EXCEPT ![c] = s]
       /\ seen' = [seen EXCEPT ![c] = position[s]]
  /\ pc' = [pc EXCEPT ![c] = "answered"]
  /\ UNCHANGED <<account, journal, events, verdict, now, observed, problems,
                 place, started>>

\* mapPositionSnapshot stamps the snapshot.
Receive(c) ==
  /\ pc[c] = "answered"
  /\ observed' = [observed EXCEPT ![c] = clock]
  /\ pc' = [pc EXCEPT ![c] = IF kind[c] = "preflight" THEN "record"
                                                      ELSE "compare"]
  /\ UNCHANGED <<account, journal, events, verdict, now, problems, place,
                 started, query>>

Future(c) == IF observed[c] > now[c] THEN {"future"} ELSE {}

\* Fault: the problems of a position replace those of the one before.
PositionProblemsOfLast(c) ==
  Future(c) \cup (IF seen[c] # Flat THEN {"open"} ELSE {})

\* validateStartupFlatPosition
PositionProblems(c) ==
  problems[c] \cup Future(c) \cup (IF seen[c] # Flat THEN {"open"} ELSE {})

\* The next query, or the verdict.
Continue(c, found) ==
  /\ problems' = [problems EXCEPT ![c] = found]
  /\ \/ /\ todo[c] # {}
        /\ pc' = [pc EXCEPT ![c] = "ask"] /\ UNCHANGED verdict
     \/ /\ todo[c] = {}
        /\ pc' = [pc EXCEPT ![c] = "returned"]
        /\ verdict' = [verdict EXCEPT ![c] =
                         IF found = {} THEN "ready" ELSE "refused"]

\* Fault: a row with the same observed_at is taken for the same snapshot.
RecordPositionUncompared(c) ==
  /\ pc[c] = "record"
  /\ journal' = IF journal[target[c]][observed[c]] # None THEN journal
                ELSE [journal EXCEPT ![target[c]][observed[c]] = seen[c]]
  /\ Continue(c, PositionProblems(c))
  /\ UNCHANGED <<account, events, now, observed, place, started,
                 query>>

\* RecordPositionSnapshot: INSERT ... ON CONFLICT DO NOTHING and the
\* comparison with the row that is there.  The answer may be lost.
RecordPosition(c) ==
  /\ pc[c] = "record"
  /\ \/ /\ journal[target[c]][observed[c]] \in {None, seen[c]}
        /\ journal' = [journal EXCEPT ![target[c]][observed[c]] = seen[c]]
        /\ \/ Continue(c, PositionProblems(c))
           \/ /\ pc' = [pc EXCEPT ![c] = "returned"]
              /\ verdict' = [verdict EXCEPT ![c] = "error"]
              /\ UNCHANGED problems
     \/ /\ journal[target[c]][observed[c]] \notin {None, seen[c]}
        /\ pc' = [pc EXCEPT ![c] = "returned"]
        /\ verdict' = [verdict EXCEPT ![c] = "error"]
        /\ UNCHANGED <<journal, problems>>
  /\ UNCHANGED <<account, events, now, observed, place, started,
                 query>>

\* GetLatestPositionSnapshot: ORDER BY observed_at DESC LIMIT 1
Rows(s) == {t \in Times : journal[s][t] # None}
Baseline(s) == {t \in Rows(s) : \A u \in Rows(s) : u <= t}

\* Fault: an old baseline is as good as a new one.
BaselineProblemsAnyAge(c) ==
  IF Rows(target[c]) = {} THEN {"no baseline"}
  ELSE {p \in {"baseline in the future", "exposure"} :
         \E t \in Baseline(target[c]) :
           \/ p = "baseline in the future" /\ t > now[c]
           \/ p = "exposure" /\ journal[target[c]][t] # seen[c]}

\* positionDriftBaselineSnapshotCheck and positionDriftExposureCheck
BaselineProblems(c) ==
  IF Rows(target[c]) = {} THEN {"no baseline"}
  ELSE {p \in {"baseline in the future", "stale baseline", "exposure"} :
         \E t \in Baseline(target[c]) :
           \/ p = "baseline in the future" /\ t > now[c]
           \/ p = "stale baseline" /\ now[c] - t > BaselineMaxAge
           \/ p = "exposure" /\ journal[target[c]][t] # seen[c]}

\* BuildPositionDriftComparison
DriftProblems(c) ==
  problems[c] \cup Future(c) \cup BaselineProblems(c)
    \cup (IF seen[c] \in Abnormal THEN {"status"} ELSE {})

\* The next query, or the report, and what the guard makes of it.
Compare(c) ==
  LET found == DriftProblems(c) IN
  /\ pc[c] = "compare"
  /\ problems' = [problems EXCEPT ![c] = found]
  /\ \/ /\ todo[c] # {}
        /\ pc' = [pc EXCEPT ![c] = "ask"] /\ UNCHANGED verdict
     \/ /\ todo[c] = {}
        /\ pc' = [pc EXCEPT ![c] = "returned"]
        /\ verdict' = [verdict EXCEPT ![c] =
           CASE found = {} -> "CLEAR"
             [] found # {} /\ found \cap Failing = {} -> "ATTENTION"
             [] OTHER -> "BLOCKED"]
     \/ /\ todo[c] = {}
        /\ found \cap Failing # {}   \* -activate-kill-switch-on-blocked
        /\ pc' = [pc EXCEPT ![c] = "append"] /\ UNCHANGED verdict
  /\ UNCHANGED <<account, journal, events, now, observed, place, started,
                 query>>

Next ==
  \/ Tick
  \/ \E s \in Symbols : Trade(s)
  \/ \E c \in Commands :
       \/ \E k \in Kinds : Begin(c, k)
       \/ Fail(c)
       \/ CheckKillSwitch(c) \/ ReadAccount(c) \/ CheckAccount(c)
       \/ Ask(c) \/ Receive(c) \/ RecordPosition(c) \/ Compare(c)
       \/ AppendKillSwitchEvent(c)

Spec == Init /\ [][Next]_vars

-----------------------------------------------------------------------------
(* Properties.                                                              *)

\* A flat row of the symbol, stamped since the command began.
FlatRow(c, s) == \E t \in began[c]..clock : journal[s][t] = Flat

\* A row fit to be the baseline of the report.
NormalRow(c, s) ==
  \E t \in Times : /\ began[c] - BaselineMaxAge <= t /\ t <= began[c]
                   /\ journal[s][t] \in Exposures \ Abnormal

\* Every activation the command began with has been released.
Superseded(c) ==
  \A i \in 1..known[c] : events[i].active =>
    \E j \in Indices : ~events[j].active /\ Later(i, j)

\* An account the preflight calls ready has, for every symbol, a flat row in
\* live_position_snapshots stamped after the command began, though other
\* commands write the same rows and rows of one instant collide.
ReadyIsBacked ==
  \A c \in Commands : verdict[c] = "ready" =>
    \A s \in Symbols : FlatRow(c, s)

\* A position called CLEAR has, for every symbol, a row that was neither
\* older than BaselineMaxAge nor newer than the command, of a position the
\* exchange called normal.
ClearIsBacked ==
  \A c \in Commands : verdict[c] = "CLEAR" =>
    \A s \in Symbols : NormalRow(c, s)

\* Once a command has appended its event, none of the events that were there
\* when it began says whether the Kill Switch is active: neither the stamp,
\* taken before the append, nor events of one instant change that.
LastWordHolds ==
  \A c \in Commands : place[c] > 0 => Latest \cap 1..known[c] = {}

\* No preflight is ready over an activation that was there when it began,
\* unless a release has been appended that supersedes it.
GuardHolds ==
  \A c \in Commands : verdict[c] = "ready" => Superseded(c)

\* What a command's place in the code says about its own variables.
Follows(c) ==
  /\ pc[c] # "returned" => verdict[c] = "none" /\ place[c] = 0
  /\ pc[c] \in {"idle", "kill switch", "account"} => problems[c] = {}
  /\ pc[c] \in {"kill switch", "account", "account check", "record"} =>
       kind[c] = "preflight"
  /\ pc[c] = "compare" => kind[c] = "drift"
  /\ pc[c] \in {"ask", "answered"} => kind[c] \in {"preflight", "drift"}
  /\ pc[c] \in {"kill switch", "account", "account check"} => todo[c] = Symbols
  /\ pc[c] # "idle" /\ kind[c] # "preflight" =>
       kind[c] \in Kinds /\ id[c] \in EventIds
  /\ pc[c] = "append" => kind[c] # "preflight"
  /\ pc[c] \in {"answered", "record", "compare"} =>
       target[c] \in Symbols \ todo[c] /\ seen[c] \in Exposures

\* A command's stamps lie in its past, and the stamps of the events it began
\* with are not later than its own.
Stamped(c) ==
  /\ began[c] <= now[c] /\ now[c] <= clock /\ observed[c] <= clock
  /\ pc[c] = "record" => began[c] <= observed[c]
  /\ known[c] <= Len(events)
  /\ \A i \in 1..known[c] : events[i].at <= began[c]
  /\ kind[c] = "drift" => now[c] = began[c]
  /\ place[c] > 0 => /\ known[c] < place[c] /\ place[c] <= Len(events)
                     /\ events[place[c]].at = began[c]

EventsInThePast == \A i \in Indices : events[i].at <= clock

\* Tables have a newest row unless they are empty.
NewestIsThere ==
  /\ events # <<>> => Latest # {}
  /\ \A s \in Symbols : Rows(s) # {} => Baseline(s) # {}

\* The symbols the command has finished with.
Checked(c) ==
  Symbols \ (todo[c] \cup (IF pc[c] \in {"answered", "record", "compare"}
                           THEN {target[c]} ELSE {}))

CheckedWell(c) ==
  problems[c] = {} /\ pc[c] \notin {"idle", "returned"} =>
    \A s \in Checked(c) :
      /\ kind[c] = "preflight" => FlatRow(c, s)
      /\ kind[c] = "drift" => NormalRow(c, s)

PassedGuard(c) ==
  kind[c] = "preflight"
    /\ pc[c] \in {"account", "account check", "ask", "answered", "record"} =>
      Superseded(c)

CommandsFollow == \A c \in Commands : Follows(c)
CommandsStamped == \A c \in Commands : Stamped(c)
ChecksHold == \A c \in Commands : CheckedWell(c) /\ PassedGuard(c)

IInv ==
  /\ TypeOK /\ CommandsFollow /\ CommandsStamped /\ EventsInThePast
  /\ NewestIsThere /\ ChecksHold
  /\ ReadyIsBacked /\ ClearIsBacked /\ GuardHolds

\* A snapshot that the command itself has just taken is not in its future.
OwnSnapshotIsNotFuture == \A c \in Commands : "future" \notin problems[c]
=============================================================================
