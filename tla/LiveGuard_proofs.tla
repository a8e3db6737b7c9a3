--------------------------- MODULE LiveGuard_proofs ---------------------------
(***************************************************************************)
(* Proofs about LiveGuard, for any commands, symbols, exposures, ages and  *)
(* clock.                                                                  *)
(***************************************************************************)
EXTENDS LiveGuard, TLAPS

-----------------------------------------------------------------------------
(* Who changes what.                                                        *)

Step(c) ==
  \/ \E k \in Kinds : Begin(c, k)
  \/ Fail(c)
  \/ CheckKillSwitch(c) \/ ReadAccount(c) \/ CheckAccount(c)
  \/ Ask(c) \/ Receive(c) \/ RecordPosition(c) \/ Compare(c)
  \/ AppendKillSwitchEvent(c)

\* The variables of a command as they were.
Same(d) ==
  /\ kind'[d] = kind[d] /\ pc'[d] = pc[d] /\ id'[d] = id[d]
  /\ verdict'[d] = verdict[d] /\ now'[d] = now[d] /\ began'[d] = began[d]
  /\ todo'[d] = todo[d] /\ target'[d] = target[d] /\ seen'[d] = seen[d]
  /\ observed'[d] = observed[d] /\ problems'[d] = problems[d]
  /\ known'[d] = known[d] /\ place'[d] = place[d]

\* A step of the surroundings, or none.
Surroundings ==
  /\ clock' \in {clock, clock + 1} /\ clock' \in Times
  /\ position' \in [Symbols -> Exposures]
  /\ UNCHANGED <<journal, events, pc, verdict, now, observed, problems, place,
                 started, query>>

LEMMA NextSplits ==
  ASSUME TypeOK, [Next]_vars
  PROVE  Surroundings \/ \E c \in Commands : Step(c)
<1>1. CASE Tick
  <2>1. clock' = clock + 1 /\ clock' \in Times
    <3>1. clock \in Times
      BY DEF TypeOK
    <3> QED
      BY <1>1, <3>1, AgesAssumption DEF Tick, Times
  <2> QED
    BY <1>1, <2>1 DEF Tick, Surroundings, TypeOK, started, query
<1>2. ASSUME NEW s \in Symbols, Trade(s)
      PROVE  Surroundings
  <2>1. PICK e \in Exposures : position' = [position EXCEPT ![s] = e]
    BY <1>2 DEF Trade
  <2> QED
    BY <1>2, <2>1 DEF Trade, Surroundings, TypeOK
<1>3. CASE UNCHANGED vars
  BY <1>3 DEF vars, account, Surroundings, TypeOK
<1> QED
  BY <1>1, <1>2, <1>3 DEF Next, Step

LEMMA SurroundingsSame ==
  ASSUME Surroundings, NEW d
  PROVE  Same(d)
  BY DEF Surroundings, Same, started, query

LEMMA OthersSame ==
  ASSUME TypeOK, NEW c \in Commands, Step(c), NEW d \in Commands \ {c}
  PROVE  Same(d)
<1>1. ASSUME NEW k \in Kinds, Begin(c, k) PROVE Same(d)
  BY <1>1 DEF Begin, Same, TypeOK
<1>2. CASE Fail(c)
  BY <1>2 DEF Fail, Same, TypeOK, started, query
<1>3. CASE CheckKillSwitch(c)
  BY <1>3 DEF CheckKillSwitch, Unless, Same, TypeOK, started, query
<1>4. CASE ReadAccount(c)
  BY <1>4 DEF ReadAccount, Same, TypeOK, started, query
<1>5. CASE CheckAccount(c)
  BY <1>5 DEF CheckAccount, Unless, Same, TypeOK, started, query
<1>6. CASE Ask(c)
  BY <1>6 DEF Ask, Same, TypeOK, started
<1>7. CASE Receive(c)
  BY <1>7 DEF Receive, Same, TypeOK, started, query
<1>8. CASE RecordPosition(c)
  BY <1>8 DEF RecordPosition, Continue, Same, TypeOK, started, query
<1>9. CASE Compare(c)
  BY <1>9 DEF Compare, Same, TypeOK, started, query
<1>10. CASE AppendKillSwitchEvent(c)
  BY <1>10 DEF AppendKillSwitchEvent, Same, TypeOK, started, query
<1> QED
  BY <1>1, <1>2, <1>3, <1>4, <1>5, <1>6, <1>7, <1>8, <1>9, <1>10 DEF Step

-----------------------------------------------------------------------------
(* Types.                                                                   *)

LEMMA InitTyped == Init => TypeOK
<1> SUFFICES ASSUME Init PROVE TypeOK
  OBVIOUS
<1>1. 0 \in Times
  BY AgesAssumption DEF Times
<1>2. /\ clock \in Times /\ position \in [Symbols -> Exposures]
      /\ journal \in [Symbols -> [Times -> Exposures \cup {None}]]
  BY <1>1 DEF Init
<1>3. events \in Seq(Event)
  BY DEF Init
<1>4. /\ kind \in [Commands -> Kinds \cup {None}]
      /\ pc \in [Commands -> {"idle", "kill switch", "account",
                              "account check", "ask", "answered", "record",
                              "compare", "append", "returned"}]
      /\ id \in [Commands -> EventIds \cup {None}]
      /\ verdict \in [Commands ->
                        {"none", "ready", "refused", "CLEAR", "ATTENTION",
                         "BLOCKED", "appended", "skipped", "error"}]
  BY DEF Init
<1>5. /\ now \in [Commands -> Times] /\ began \in [Commands -> Times]
      /\ observed \in [Commands -> Times]
  BY <1>1 DEF Init
<1>6. known \in [Commands -> Nat] /\ place \in [Commands -> Nat]
  BY DEF Init
<1>7. /\ todo \in [Commands -> SUBSET Symbols]
      /\ target \in [Commands -> Symbols \cup {None}]
      /\ seen \in [Commands -> Exposures \cup {None}]
      /\ problems \in [Commands -> SUBSET (Failing \cup Warning \cup Refusing)]
  BY DEF Init
<1> QED
  BY <1>2, <1>3, <1>4, <1>5, <1>6, <1>7 DEF TypeOK

LEMMA FoundTyped ==
  ASSUME TypeOK, NEW c \in Commands
  PROVE  /\ PositionProblems(c) \subseteq Failing \cup Warning \cup Refusing
         /\ DriftProblems(c) \subseteq Failing \cup Warning \cup Refusing
<1>1. problems[c] \subseteq Failing \cup Warning \cup Refusing
  BY DEF TypeOK
<1>2. Future(c) \subseteq Failing
  BY DEF Future, Failing
<1>3. BaselineProblems(c) \subseteq Failing \cup Warning
  BY DEF BaselineProblems, Failing, Warning
<1> QED
  BY <1>1, <1>2, <1>3
     DEF PositionProblems, DriftProblems, Failing, Refusing

LEMMA StepTyped ==
  ASSUME TypeOK, CommandsFollow, NEW c \in Commands, Step(c)
  PROVE  TypeOK'
<1>1. ASSUME NEW k \in Kinds, Begin(c, k) PROVE TypeOK'
  <2>1. PICK i \in (IF k = "preflight" THEN {None} ELSE Ids \cup {<<k, clock>>}) :
          id' = [id EXCEPT ![c] = i]
    BY <1>1 DEF Begin
  <2>2. i \in EventIds \cup {None}
    <3>1. <<k, clock>> \in Kinds \X Times
      BY DEF TypeOK
    <3> QED
      BY <2>1, <3>1 DEF EventIds
  <2>3. /\ Len(events) \in Nat
        /\ clock \in Times
    <3>1. events \in Seq(Event) /\ clock \in Times
      BY DEF TypeOK
    <3> QED
      BY <3>1
  <2>4. pc' \in [Commands -> {"idle", "kill switch", "account",
                            "account check", "ask", "answered", "record",
                            "compare", "append", "returned"}]
    BY <1>1 DEF Begin, TypeOK
  <2> QED
    BY <1>1, <2>1, <2>2, <2>3, <2>4 DEF Begin, TypeOK, account
<1>2. CASE Fail(c)
  BY <1>2 DEF Fail, TypeOK, account, started, query
<1>3. CASE CheckKillSwitch(c)
  <2>1. PICK found \in SUBSET {"policy", "kill switch"} : Unless(c, found, "account")
    BY <1>3 DEF CheckKillSwitch
  <2>2. found \in SUBSET (Failing \cup Warning \cup Refusing)
    BY DEF Refusing
  <2>3. problems' \in [Commands -> SUBSET (Failing \cup Warning \cup Refusing)]
    BY <2>1, <2>2 DEF Unless, TypeOK
  <2> QED
    BY <1>3, <2>1, <2>3
       DEF CheckKillSwitch, Unless, TypeOK, account, started, query
<1>4. CASE ReadAccount(c)
  <2>1. PICK found \in {{}, {"account"}} :
          problems' = [problems EXCEPT ![c] = found]
    BY <1>4 DEF ReadAccount
  <2>2. found \in SUBSET (Failing \cup Warning \cup Refusing)
    BY DEF Refusing
  <2>3. problems' \in [Commands -> SUBSET (Failing \cup Warning \cup Refusing)]
    BY <2>1, <2>2 DEF TypeOK
  <2> QED
    BY <1>4, <2>3 DEF ReadAccount, TypeOK, account, started, query
<1>5. CASE CheckAccount(c)
  BY <1>5 DEF CheckAccount, Unless, TypeOK, account, started, query, Refusing
<1>6. CASE Ask(c)
  <2>1. PICK s \in todo[c] : /\ todo' = [todo EXCEPT ![c] = @ \ {s}]
                            /\ target' = [target EXCEPT ![c] = s]
                            /\ seen' = [seen EXCEPT ![c] = position[s]]
    BY <1>6 DEF Ask
  <2>2. s \in Symbols /\ todo[c] \ {s} \in SUBSET Symbols
    BY DEF TypeOK
  <2>3. position[s] \in Exposures
    BY <2>2 DEF TypeOK
  <2> QED
    BY <1>6, <2>1, <2>2, <2>3 DEF Ask, TypeOK, account, started
<1>7. CASE Receive(c)
  BY <1>7 DEF Receive, TypeOK, account, started, query
<1>8. CASE RecordPosition(c)
  <2>1. /\ target[c] \in Symbols /\ seen[c] \in Exposures
        /\ observed[c] \in Times
    BY <1>8 DEF RecordPosition, CommandsFollow, Follows, TypeOK
  <2>2. journal' \in [Symbols -> [Times -> Exposures \cup {None}]]
    <3>1. journal \in [Symbols -> [Times -> Exposures \cup {None}]]
      BY DEF TypeOK
    <3>2. journal' = journal
            \/ journal' = [journal EXCEPT ![target[c]][observed[c]] = seen[c]]
      BY <1>8 DEF RecordPosition
    <3> QED
      BY <2>1, <3>1, <3>2
  <2>3. problems' \in [Commands -> SUBSET (Failing \cup Warning \cup Refusing)]
    <3>1. problems' = problems
            \/ problems' = [problems EXCEPT ![c] = PositionProblems(c)]
      BY <1>8 DEF RecordPosition, Continue
    <3> QED
      <4>1. problems \in [Commands -> SUBSET (Failing \cup Warning \cup Refusing)]
        BY DEF TypeOK
      <4> QED
        BY <3>1, <4>1, FoundTyped
  <2> QED
    BY <1>8, <2>2, <2>3
       DEF RecordPosition, Continue, TypeOK, account, started, query
<1>9. CASE Compare(c)
  <2>1. problems' \in [Commands -> SUBSET (Failing \cup Warning \cup Refusing)]
    BY <1>9, FoundTyped DEF Compare, TypeOK
  <2> QED
    BY <1>9, <2>1 DEF Compare, TypeOK, account, started, query
<1>10. CASE AppendKillSwitchEvent(c)
  <2>1. [id |-> id[c], by |-> kind[c], active |-> kind[c] # "release",
         at |-> began[c]] \in Event
    BY <1>10 DEF AppendKillSwitchEvent, CommandsFollow, Follows, TypeOK, Event
  <2>2. events' \in Seq(Event) /\ place' \in [Commands -> Nat]
    <3>1. events \in Seq(Event) /\ place \in [Commands -> Nat]
      BY DEF TypeOK
    <3>2. /\ events' \in {events, Append(events, [id |-> id[c], by |-> kind[c],
                              active |-> kind[c] # "release", at |-> began[c]])}
          /\ place' \in {place, [place EXCEPT ![c] = Len(events) + 1]}
      BY <1>10 DEF AppendKillSwitchEvent
    <3>3. Len(events) + 1 \in Nat
      BY <3>1
    <3>4. CASE place' = place
      BY <2>1, <3>1, <3>2, <3>4, SMTT(60)
    <3>5. CASE place' = [place EXCEPT ![c] = Len(events) + 1]
      BY <2>1, <3>1, <3>2, <3>3, <3>5, SMTT(60)
    <3> QED
      BY <3>2, <3>4, <3>5
  <2> QED
    BY <1>10, <2>2
       DEF AppendKillSwitchEvent, TypeOK, account, started, query
<1> QED
  BY <1>1, <1>2, <1>3, <1>4, <1>5, <1>6, <1>7, <1>8, <1>9, <1>10 DEF Step

LEMMA NextTyped ==
  ASSUME TypeOK, CommandsFollow, [Next]_vars
  PROVE  TypeOK'
<1>1. CASE Surroundings
  BY <1>1 DEF Surroundings, TypeOK, started, query
<1> QED
  BY <1>1, NextSplits, StepTyped

LEMMA NextFollows ==
  ASSUME TypeOK, CommandsFollow, [Next]_vars
  PROVE  CommandsFollow'
<1>1. ASSUME NEW d \in Commands, Same(d) PROVE Follows(d)'
  BY <1>1 DEF CommandsFollow, Follows, Same
<1>2. ASSUME NEW c \in Commands, Step(c) PROVE Follows(c)'
  <2> Follows(c)
    BY DEF CommandsFollow
  <2>1. ASSUME NEW k \in Kinds, Begin(c, k) PROVE Follows(c)'
    <3>1. /\ pc'[c] = CASE k = "preflight" -> "kill switch"
                        [] k = "drift" -> "ask" [] OTHER -> "append"
          /\ kind'[c] = k
          /\ verdict' = verdict /\ place' = place /\ problems' = problems
          /\ todo'[c] = IF k \in Writers THEN {} ELSE Symbols
      BY <2>1 DEF Begin, TypeOK
    <3>2. pc[c] = "idle"
      BY <2>1 DEF Begin
    <3>3. PICK i \in (IF k = "preflight" THEN {None}
                      ELSE Ids \cup {<<k, clock>>}) :
            id' = [id EXCEPT ![c] = i]
      BY <2>1 DEF Begin
    <3>4. k # "preflight" => id'[c] \in EventIds
      <4>1. <<k, clock>> \in Kinds \X Times
        BY DEF TypeOK
      <4> QED
        BY <3>3, <4>1 DEF EventIds, TypeOK
    <3>5. CASE k = "preflight"
      BY <3>1, <3>2, <3>5 DEF Follows, Writers
    <3>6. CASE k = "drift"
      BY <3>1, <3>2, <3>4, <3>6 DEF Follows, Writers
    <3>7. CASE k # "preflight" /\ k # "drift"
      BY <3>1, <3>2, <3>4, <3>7 DEF Follows, Writers
    <3> QED
      BY <3>5, <3>6, <3>7
  <2>2. CASE Fail(c)
    BY <2>2 DEF Fail, Follows, TypeOK, started, query
  <2>3. CASE CheckKillSwitch(c)
    <3>1. PICK found : Unless(c, found, "account")
      BY <2>3 DEF CheckKillSwitch
    <3> QED
      BY <2>3, <3>1, ZenonT(60)
         DEF CheckKillSwitch, Unless, Follows, TypeOK, started, query
  <2>4. CASE ReadAccount(c)
    BY <2>4 DEF ReadAccount, Follows, TypeOK, started, query
  <2>5. CASE CheckAccount(c)
    <3>1. PICK found : Unless(c, found, "ask")
      BY <2>5 DEF CheckAccount
    <3> QED
      BY <2>5, <3>1, ZenonT(60)
         DEF CheckAccount, Unless, Follows, TypeOK, started, query
  <2>6. CASE Ask(c)
    <3>1. PICK s \in todo[c] : /\ todo' = [todo EXCEPT ![c] = @ \ {s}]
                              /\ target' = [target EXCEPT ![c] = s]
                              /\ seen' = [seen EXCEPT ![c] = position[s]]
      BY <2>6 DEF Ask
    <3>2. s \in Symbols /\ position[s] \in Exposures
      BY DEF TypeOK
    <3>3. /\ todo'[c] = todo[c] \ {s} /\ target'[c] = s
          /\ seen'[c] = position[s] /\ pc'[c] = "answered"
          /\ pc[c] = "ask" /\ kind' = kind /\ id' = id
          /\ verdict' = verdict /\ place' = place
      BY <2>6, <3>1 DEF Ask, TypeOK, started
    <3> QED
      BY <3>2, <3>3 DEF Follows
  <2>7. CASE Receive(c)
    BY <2>7 DEF Receive, Follows, TypeOK, started, query
  <2>8. CASE RecordPosition(c)
    BY <2>8 DEF RecordPosition, Continue, Follows, TypeOK, started, query
  <2>9. CASE Compare(c)
    <3>1. pc[c] = "compare" /\ kind[c] = "drift"
      BY <2>9 DEF Compare, Follows
    <3>2. /\ pc'[c] \in {"ask", "returned", "append"}
          /\ pc'[c] # "returned" => verdict' = verdict
          /\ UNCHANGED <<kind, id, place>>
      BY <2>9 DEF Compare, TypeOK, started
    <3> QED
      BY <3>1, <3>2 DEF Follows, TypeOK
  <2>10. CASE AppendKillSwitchEvent(c)
    BY <2>10 DEF AppendKillSwitchEvent, Follows, TypeOK, started, query
  <2> QED
    BY <1>2, <2>1, <2>2, <2>3, <2>4, <2>5, <2>6, <2>7, <2>8, <2>9, <2>10
       DEF Step
<1>3. CASE Surroundings
  BY <1>1, <1>3, SurroundingsSame DEF CommandsFollow
<1>4. ASSUME NEW c \in Commands, Step(c) PROVE CommandsFollow'
  <2>1. \A d \in Commands \ {c} : Follows(d)'
    BY <1>1, <1>4, OthersSame
  <2> QED
    BY <1>2, <1>4, <2>1 DEF CommandsFollow
<1> QED
  BY <1>3, <1>4, NextSplits

-----------------------------------------------------------------------------
(* What only grows.                                                         *)

LEMMA EventsGrow ==
  ASSUME TypeOK, CommandsFollow, [Next]_vars
  PROVE  /\ events \in Seq(Event) /\ events' \in Seq(Event)
         /\ Len(events) <= Len(events')
         /\ \A i \in 1..Len(events) : events'[i] = events[i]
<1>1. events \in Seq(Event) /\ events' \in Seq(Event)
  BY NextTyped DEF TypeOK
<1>2. CASE events' = events
  BY <1>1, <1>2
<1>3. ASSUME NEW c \in Commands, AppendKillSwitchEvent(c), events' # events
      PROVE  /\ Len(events) <= Len(events')
             /\ \A i \in 1..Len(events) : events'[i] = events[i]
  <2>1. PICK e : events' = Append(events, e)
    BY <1>3 DEF AppendKillSwitchEvent
  <2> QED
    BY <1>1, <2>1
<1>4. events' = events \/ \E c \in Commands : AppendKillSwitchEvent(c)
  BY NextSplits DEF Surroundings, Step, Begin, Fail, CheckKillSwitch,
     ReadAccount, CheckAccount, Ask, Receive, RecordPosition, Compare
<1> QED
  BY <1>1, <1>2, <1>3, <1>4

LEMMA ClockGrows ==
  ASSUME TypeOK, [Next]_vars
  PROVE  clock \in Nat /\ clock' \in Nat /\ clock <= clock'
<1>1. clock \in Nat
  <2>1. clock \in Times
    BY DEF TypeOK
  <2> QED
    BY <2>1, AgesAssumption DEF Times
<1>2. clock' \in {clock, clock + 1}
  BY NextSplits DEF Surroundings, Step, Begin, Fail, CheckKillSwitch,
     ReadAccount, CheckAccount, Ask, Receive, RecordPosition, Compare,
     AppendKillSwitchEvent, account
<1> QED
  BY <1>1, <1>2

\* The journal changes by a row of a symbol at a stamp that had none.
LEMMA JournalGrows ==
  ASSUME TypeOK, CommandsFollow, [Next]_vars
  PROVE  \/ journal' = journal
         \/ \E s \in Symbols, t \in Times, e \in Exposures :
              /\ journal[s][t] \in {None, e}
              /\ journal' = [journal EXCEPT ![s][t] = e]
<1>1. ASSUME NEW c \in Commands, RecordPosition(c)
      PROVE  \/ journal' = journal
             \/ \E s \in Symbols, t \in Times, e \in Exposures :
                  /\ journal[s][t] \in {None, e}
                  /\ journal' = [journal EXCEPT ![s][t] = e]
  <2>1. target[c] \in Symbols /\ seen[c] \in Exposures /\ observed[c] \in Times
    BY <1>1 DEF RecordPosition, CommandsFollow, Follows, TypeOK
  <2> QED
    BY <1>1, <2>1 DEF RecordPosition
<1>2. journal' = journal \/ \E c \in Commands : RecordPosition(c)
  BY NextSplits DEF Surroundings, Step, Begin, Fail, CheckKillSwitch,
     ReadAccount, CheckAccount, Ask, Receive, Compare, AppendKillSwitchEvent
<1> QED
  BY <1>1, <1>2

LEMMA RowsStay ==
  ASSUME TypeOK, CommandsFollow, [Next]_vars,
         NEW s \in Symbols, NEW t \in Times, journal[s][t] # None
  PROVE  journal'[s][t] = journal[s][t]
<1>1. ASSUME NEW r \in Symbols, NEW u \in Times, NEW e \in Exposures,
             journal[r][u] \in {None, e},
             journal' = [journal EXCEPT ![r][u] = e]
      PROVE  journal'[s][t] = journal[s][t]
  <2>1. journal \in [Symbols -> [Times -> Exposures \cup {None}]]
    BY DEF TypeOK
  <2>2. CASE r = s /\ u = t
    <3>1. journal'[s][t] = e
      BY <1>1, <2>1, <2>2
    <3> QED
      BY <1>1, <2>2, <3>1
  <2>3. CASE ~(r = s /\ u = t)
    BY <1>1, <2>1, <2>3
  <2> QED
    BY <2>2, <2>3
<1> QED
  BY <1>1, JournalGrows

\* Once begun, a command keeps what it began with.
LEMMA BeginningsStay ==
  ASSUME TypeOK, [Next]_vars, NEW c \in Commands, pc[c] # "idle"
  PROVE  kind'[c] = kind[c] /\ began'[c] = began[c] /\ known'[c] = known[c]
<1>1. CASE Same(c)
  BY <1>1 DEF Same
<1>2. CASE Step(c)
  BY <1>2 DEF Step, Begin, Fail, CheckKillSwitch, ReadAccount, CheckAccount,
     Ask, Receive, RecordPosition, Compare, AppendKillSwitchEvent, started
<1> QED
  BY <1>1, <1>2, NextSplits, SurroundingsSame, OthersSame

-----------------------------------------------------------------------------
(* Stamps.                                                                  *)

LEMMA NextStamped ==
  ASSUME TypeOK, CommandsFollow, CommandsStamped, EventsInThePast, [Next]_vars
  PROVE  CommandsStamped'
<1>1. /\ Len(events) \in Nat /\ Len(events') \in Nat
      /\ Len(events) <= Len(events')
      /\ \A i \in 1..Len(events) : events'[i] = events[i]
      /\ clock \in Nat /\ clock' \in Nat /\ clock <= clock'
  BY EventsGrow, ClockGrows
<1>2. \A d \in Commands : /\ began[d] \in Nat /\ now[d] \in Nat
                          /\ observed[d] \in Nat /\ known[d] \in Nat
                          /\ place[d] \in Nat
  <2>1. Times \subseteq Nat
    BY AgesAssumption DEF Times
  <2> QED
    BY <2>1 DEF TypeOK
<1>3. ASSUME NEW d \in Commands,
             began'[d] = began[d], known'[d] = known[d], place'[d] = place[d],
             kind'[d] = kind[d], now'[d] \in {now[d], clock},
             observed'[d] \in {observed[d], clock},
             kind[d] = "drift" => now'[d] = now[d],
             pc'[d] = "record" =>
               (pc[d] = "record" /\ observed'[d] = observed[d])
                 \/ observed'[d] = clock
      PROVE  Stamped(d)'
  <2>1. Stamped(d)
    BY DEF CommandsStamped
  <2>2. /\ began'[d] <= now'[d] /\ now'[d] <= clock' /\ observed'[d] <= clock'
        /\ pc'[d] = "record" => began'[d] <= observed'[d]
        /\ known'[d] <= Len(events')
        /\ kind'[d] = "drift" => now'[d] = began'[d]
    BY <1>1, <1>2, <1>3, <2>1 DEF Stamped
  <2>3. \A i \in 1..known[d] : i \in 1..Len(events) /\ events'[i] = events[i]
    BY <1>1, <1>2, <2>1 DEF Stamped
  <2>4. \A i \in 1..known'[d] : events'[i].at <= began'[d]
    BY <1>3, <2>1, <2>3 DEF Stamped
  <2>5. place'[d] > 0 => /\ known'[d] < place'[d] /\ place'[d] <= Len(events')
                         /\ events'[place'[d]].at = began'[d]
    BY <1>1, <1>2, <1>3, <2>1 DEF Stamped
  <2> QED
    BY <2>2, <2>4, <2>5 DEF Stamped
<1>4. ASSUME NEW d \in Commands, Same(d) PROVE Stamped(d)'
  BY <1>3, <1>4 DEF Same
<1>5. ASSUME NEW c \in Commands, Step(c) PROVE Stamped(c)'
  <2>1. ASSUME NEW k \in Kinds, Begin(c, k) PROVE Stamped(c)'
    <3>1. /\ began'[c] = clock /\ now'[c] = clock /\ known'[c] = Len(events)
          /\ observed'[c] = observed[c] /\ place'[c] = place[c]
          /\ place[c] = 0 /\ clock' = clock /\ events' = events
          /\ pc'[c] # "record"
      BY <2>1 DEF Begin, TypeOK, CommandsFollow, Follows, account
    <3>2. observed[c] <= clock
      BY DEF CommandsStamped, Stamped
    <3> QED
      BY <1>1, <3>1, <3>2 DEF Stamped, EventsInThePast, Indices
  <2>2. CASE CheckKillSwitch(c) \/ ReadAccount(c) \/ Receive(c)
    <3>1. pc'[c] = "record" => observed'[c] = clock
      BY <2>2 DEF CheckKillSwitch, ReadAccount, Receive, Unless, TypeOK
    <3> QED
      BY <1>3, <2>2, <3>1 DEF CheckKillSwitch, ReadAccount, Receive, TypeOK,
         started
  <2>3. CASE Fail(c) \/ Ask(c) \/ RecordPosition(c) \/ Compare(c)
    <3>1. pc'[c] # "record"
      BY <2>3 DEF Fail, Ask, RecordPosition, Compare, Continue, TypeOK
    <3> QED
      BY <1>3, <2>3, <3>1 DEF Fail, Ask, RecordPosition, Compare, started
  <2>4. CASE CheckAccount(c)
    <3>1. kind[c] = "preflight"
      BY <2>4 DEF CheckAccount, CommandsFollow, Follows
    <3>2. pc'[c] # "record"
      BY <2>4 DEF CheckAccount, Unless, TypeOK
    <3> QED
      BY <1>3, <2>4, <3>1, <3>2 DEF CheckAccount, TypeOK, started
  <2>5. CASE AppendKillSwitchEvent(c)
    <3>0. pc'[c] = "returned"
      BY <2>5 DEF AppendKillSwitchEvent, TypeOK
    <3>1. CASE place' = place
      BY <1>3, <2>5, <3>0, <3>1 DEF AppendKillSwitchEvent, started
    <3>2. CASE place' # place
      <4>1. PICK e : /\ events' = Append(events, e) /\ e.at = began[c]
                     /\ place' = [place EXCEPT ![c] = Len(events) + 1]
        BY <2>5, <3>2 DEF AppendKillSwitchEvent
      <4>2. /\ place'[c] = Len(events) + 1 /\ Len(events') = Len(events) + 1
            /\ events'[Len(events) + 1] = e
        <5>1. place \in [Commands -> Nat] /\ events \in Seq(Event)
          BY DEF TypeOK
        <5>2. place'[c] = Len(events) + 1
          BY <4>1, <5>1
        <5>3. Len(events') = Len(events) + 1 /\ events'[Len(events) + 1] = e
          BY <4>1, <5>1
        <5> QED
          BY <5>2, <5>3
      <4>3. /\ UNCHANGED <<kind, began, known, now, observed, clock>>
        BY <2>5 DEF AppendKillSwitchEvent, started, account
      <4>4. Stamped(c)
        BY DEF CommandsStamped
      <4>5. \A i \in 1..known[c] : i \in 1..Len(events) /\ events'[i] = events[i]
        BY <1>1, <1>2, <4>4 DEF Stamped
      <4>6. \A i \in 1..known[c] : events'[i].at <= began[c]
        BY <4>4, <4>5 DEF Stamped
      <4>7. /\ known[c] < place'[c] /\ place'[c] <= Len(events')
            /\ events'[place'[c]].at = began[c]
        BY <1>1, <1>2, <4>1, <4>2, <4>4 DEF Stamped
      <4>8. /\ began[c] <= now[c] /\ now[c] <= clock /\ observed[c] <= clock
            /\ known[c] <= Len(events')
            /\ kind[c] = "drift" => now[c] = began[c]
        BY <1>1, <1>2, <4>2, <4>4 DEF Stamped
      <4> QED
        BY <3>0, <4>3, <4>6, <4>7, <4>8 DEF Stamped
    <3> QED
      BY <3>1, <3>2
  <2> QED
    BY <1>5, <2>1, <2>2, <2>3, <2>4, <2>5 DEF Step
<1>6. ASSUME NEW c \in Commands, Step(c) PROVE CommandsStamped'
  BY <1>4, <1>5, <1>6, OthersSame DEF CommandsStamped
<1>7. CASE Surroundings
  BY <1>4, <1>7, SurroundingsSame DEF CommandsStamped
<1> QED
  BY <1>6, <1>7, NextSplits

LEMMA NextInThePast ==
  ASSUME TypeOK, CommandsFollow, CommandsStamped, EventsInThePast, [Next]_vars
  PROVE  EventsInThePast'
<1>1. /\ events \in Seq(Event) /\ Len(events) \in Nat
      /\ \A i \in 1..Len(events) : events'[i] = events[i]
      /\ clock \in Nat /\ clock' \in Nat /\ clock <= clock'
  BY EventsGrow, ClockGrows
<1>2. \A i \in 1..Len(events) : events[i].at \in Nat /\ events[i].at <= clock
  <2>1. ASSUME NEW i \in 1..Len(events) PROVE events[i].at \in Times
    <3>1. events[i] \in Event
      BY <1>1
    <3> QED
      BY <3>1 DEF Event
  <2>2. Times \subseteq Nat
    BY AgesAssumption DEF Times
  <2> QED
    BY <2>1, <2>2 DEF EventsInThePast, Indices
<1>3. CASE events' = events
  BY <1>1, <1>2, <1>3 DEF EventsInThePast, Indices
<1>4. ASSUME NEW c \in Commands, AppendKillSwitchEvent(c), events' # events
      PROVE  EventsInThePast'
  <2>1. PICK e : events' = Append(events, e) /\ e.at = began[c]
    BY <1>4 DEF AppendKillSwitchEvent
  <2>2. began[c] \in Nat /\ began[c] <= clock
    <3>1. Times \subseteq Nat
      BY AgesAssumption DEF Times
    <3>2. began[c] \in Nat /\ now[c] \in Nat
      BY <3>1 DEF TypeOK
    <3> QED
      BY <1>1, <3>2 DEF CommandsStamped, Stamped
  <2>3. /\ Len(events') = Len(events) + 1 /\ events'[Len(events) + 1] = e
    BY <1>1, <2>1
  <2>4. ASSUME NEW i \in 1..Len(events') PROVE events'[i].at <= clock'
    <3>1. CASE i \in 1..Len(events)
      BY <1>1, <1>2, <3>1
    <3>2. CASE i = Len(events) + 1
      BY <1>1, <2>1, <2>2, <2>3, <3>2
    <3> QED
      BY <1>1, <2>3, <3>1, <3>2
  <2> QED
    BY <2>4 DEF EventsInThePast, Indices
<1>5. events' = events \/ \E c \in Commands : AppendKillSwitchEvent(c)
  BY NextSplits DEF Surroundings, Step, Begin, Fail, CheckKillSwitch,
     ReadAccount, CheckAccount, Ask, Receive, RecordPosition, Compare
<1> QED
  BY <1>3, <1>4, <1>5

-----------------------------------------------------------------------------
(* The newest event, the newest row.                                        *)

LEMMA EventTimes ==
  ASSUME TypeOK
  PROVE  /\ events \in Seq(Event) /\ Len(events) \in Nat
         /\ \A i \in 1..Len(events) : events[i].at \in Nat
<1>1. events \in Seq(Event) /\ Len(events) \in Nat
  <2>1. events \in Seq(Event)
    BY DEF TypeOK
  <2> QED
    BY <2>1
<1>2. Times \subseteq Nat
  BY AgesAssumption DEF Times
<1>3. ASSUME NEW i \in 1..Len(events) PROVE events[i].at \in Nat
  <2>1. events[i] \in Event
    BY <1>1
  <2> QED
    BY <2>1, <1>2 DEF Event
<1> QED
  BY <1>1, <1>3

\* The events change by one that is appended.
LEMMA EventsAppend ==
  ASSUME TypeOK, CommandsFollow, [Next]_vars
  PROVE  \/ events' = events
         \/ \E e \in Event : events' = Append(events, e) /\ e.at \in Nat
<1>1. ASSUME NEW c \in Commands, AppendKillSwitchEvent(c), events' # events
      PROVE  \E e \in Event : events' = Append(events, e) /\ e.at \in Nat
  <2>1. PICK e : events' = Append(events, e) /\ e.at = began[c]
    BY <1>1 DEF AppendKillSwitchEvent
  <2>2. events' \in Seq(Event) /\ events \in Seq(Event)
    BY EventsGrow
  <2>3. Len(events') = Len(events) + 1 /\ events'[Len(events) + 1] = e
    BY <2>1, <2>2
  <2>4. e \in Event
    BY <2>2, <2>3
  <2>5. e.at \in Nat
    <3>1. Times \subseteq Nat
      BY AgesAssumption DEF Times
    <3>2. began[c] \in Times
      BY DEF TypeOK
    <3> QED
      BY <2>1, <3>1, <3>2
  <2> QED
    BY <2>1, <2>4, <2>5
<1>2. events' = events \/ \E c \in Commands : AppendKillSwitchEvent(c)
  BY NextSplits DEF Surroundings, Step, Begin, Fail, CheckKillSwitch,
     ReadAccount, CheckAccount, Ask, Receive, RecordPosition, Compare
<1> QED
  BY <1>1, <1>2

LEMMA NextNewest ==
  ASSUME TypeOK, CommandsFollow, NewestIsThere, [Next]_vars
  PROVE  NewestIsThere'
<1>1. ASSUME events' # <<>> PROVE Latest' # {}
  <2>1. CASE events' = events
    BY <1>1, <2>1 DEF NewestIsThere, Latest, Later, Indices
  <2>2. ASSUME NEW e \in Event, events' = Append(events, e), e.at \in Nat
        PROVE  Latest' # {}
    <3>0. PICK n : n = Len(events) + 1
      OBVIOUS
    <3>1. /\ events \in Seq(Event) /\ Len(events) \in Nat
          /\ \A i \in 1..Len(events) : events[i].at \in Nat
      BY EventTimes
    <3>2. /\ Len(events') = n /\ events'[n] = e
          /\ \A i \in 1..Len(events) : events'[i] = events[i]
      BY <2>2, <3>0, <3>1
    <3>3. 1..n = (1..Len(events)) \cup {n} /\ n \notin 1..Len(events)
      BY <3>0, <3>1
    <3>4. CASE events = <<>>
      <4>1. n = 1 /\ 1..n = {1}
        BY <3>0, <3>4
      <4>2. 1 \in Latest'
        BY <3>2, <4>1 DEF Latest, Indices
      <4> QED
        BY <4>2
    <3>5. CASE events # <<>>
      <4>1. PICK l \in Latest : TRUE
        BY <3>5 DEF NewestIsThere
      <4>2. /\ l \in 1..Len(events)
            /\ \A j \in 1..Len(events) : j # l => Later(j, l)
        BY <4>1 DEF Latest, Indices
      <4>3. CASE events[l].at <= e.at
        <5>1. ASSUME NEW j \in 1..Len(events) PROVE Later(j, n)'
          <6>1. events[j].at <= events[l].at
            BY <3>1, <4>2 DEF Later
          <6> QED
            BY <2>2, <3>0, <3>1, <3>2, <4>2, <4>3, <6>1 DEF Later
        <5>2. n \in Latest'
          BY <3>1, <3>2, <3>3, <5>1 DEF Latest, Indices
        <5> QED
          BY <5>2
      <4>4. CASE ~(events[l].at <= e.at)
        <5>1. Later(n, l)'
          BY <2>2, <3>0, <3>1, <3>2, <4>2, <4>4 DEF Later
        <5>2. ASSUME NEW j \in 1..Len(events), j # l PROVE Later(j, l)'
          BY <3>2, <4>2, <5>2 DEF Later
        <5>3. l \in Latest'
          BY <3>2, <3>3, <4>2, <5>1, <5>2 DEF Latest, Indices
        <5> QED
          BY <5>3
      <4> QED
        BY <4>3, <4>4
    <3> QED
      BY <3>4, <3>5
  <2> QED
    BY <2>1, <2>2, EventsAppend
<1>2. ASSUME NEW s \in Symbols, Rows(s)' # {} PROVE Baseline(s)' # {}
  <2>1. CASE journal'[s] = journal[s]
    <3>1. Rows(s)' = Rows(s) /\ Baseline(s)' = Baseline(s)
      BY <2>1 DEF Rows, Baseline
    <3> QED
      BY <1>2, <3>1 DEF NewestIsThere
  <2>2. ASSUME NEW t \in Times, NEW e \in Exposures,
               journal[s][t] \in {None, e},
               journal' = [journal EXCEPT ![s][t] = e]
        PROVE  Baseline(s)' # {}
    <3>1. e # None /\ Times \subseteq Nat
      BY ExposuresAssumption, AgesAssumption DEF Times
    <3>2. journal \in [Symbols -> [Times -> Exposures \cup {None}]]
      BY DEF TypeOK
    <3>3. /\ journal'[s][t] = e
          /\ \A u \in Times : u # t => journal'[s][u] = journal[s][u]
      BY <2>2, <3>2
    <3>4. Rows(s)' = Rows(s) \cup {t}
      BY <3>1, <3>3 DEF Rows
    <3>5. CASE Rows(s) = {}
      <4>1. t \in Baseline(s)'
        BY <3>1, <3>4, <3>5 DEF Baseline
      <4> QED
        BY <4>1
    <3>6. CASE Rows(s) # {}
      <4>1. PICK b \in Baseline(s) : TRUE
        BY <3>6 DEF NewestIsThere
      <4>2. b \in Rows(s) /\ \A u \in Rows(s) : u <= b
        BY <4>1 DEF Baseline
      <4>3. Rows(s) \subseteq Nat
        BY <3>1 DEF Rows
      <4>4. b <= t => t \in Baseline(s)'
        BY <3>1, <3>4, <4>2, <4>3 DEF Baseline
      <4>5. ~(b <= t) => b \in Baseline(s)'
        BY <3>1, <3>4, <4>2, <4>3 DEF Baseline
      <4> QED
        BY <4>4, <4>5
    <3> QED
      BY <3>5, <3>6
  <2>3. ASSUME NEW r \in Symbols, NEW t \in Times, NEW e \in Exposures, r # s,
               journal' = [journal EXCEPT ![r][t] = e]
        PROVE  journal'[s] = journal[s]
    BY <2>3 DEF TypeOK
  <2> QED
    BY <2>1, <2>2, <2>3, JournalGrows
<1> QED
  BY <1>1, <1>2 DEF NewestIsThere

-----------------------------------------------------------------------------
(* What a command has found stays found.                                    *)

LEMMA FlatRowStays ==
  ASSUME TypeOK, CommandsFollow, [Next]_vars,
         NEW c \in Commands, pc[c] # "idle", NEW s \in Symbols, FlatRow(c, s)
  PROVE  FlatRow(c, s)'
<1>1. PICK t \in began[c]..clock : journal[s][t] = Flat
  BY DEF FlatRow
<1>2. began[c] \in Times /\ clock \in Times
  BY DEF TypeOK
<1>3. t \in Times /\ t \in Nat /\ began[c] <= t /\ t <= clock
  BY <1>2, AgesAssumption DEF Times
<1>4. journal'[s][t] = Flat
  BY <1>1, <1>3, RowsStay, ExposuresAssumption
<1>5. t \in began'[c]..clock'
  BY <1>2, <1>3, BeginningsStay, ClockGrows DEF Times
<1> QED
  BY <1>4, <1>5 DEF FlatRow

LEMMA NormalRowStays ==
  ASSUME TypeOK, CommandsFollow, [Next]_vars,
         NEW c \in Commands, pc[c] # "idle", NEW s \in Symbols, NormalRow(c, s)
  PROVE  NormalRow(c, s)'
<1>1. PICK t \in Times : /\ began[c] - BaselineMaxAge <= t /\ t <= began[c]
                         /\ journal[s][t] \in Exposures \ Abnormal
  BY DEF NormalRow
<1>2. journal'[s][t] = journal[s][t]
  BY <1>1, RowsStay, ExposuresAssumption
<1>3. began'[c] = began[c]
  BY BeginningsStay
<1> QED
  BY <1>1, <1>2, <1>3 DEF NormalRow

LEMMA SupersededStays ==
  ASSUME TypeOK, CommandsFollow, CommandsStamped, [Next]_vars,
         NEW c \in Commands, pc[c] # "idle", Superseded(c)
  PROVE  Superseded(c)'
<1>1. /\ Len(events) \in Nat /\ Len(events') \in Nat
      /\ Len(events) <= Len(events')
      /\ \A i \in 1..Len(events) : events'[i] = events[i]
  BY EventsGrow
<1>2. known'[c] = known[c] /\ known[c] \in Nat /\ known[c] <= Len(events)
  BY BeginningsStay DEF TypeOK, CommandsStamped, Stamped
<1>3. ASSUME NEW i \in 1..known[c], events[i].active
      PROVE  \E j \in 1..Len(events') : ~events'[j].active /\ Later(i, j)'
  <2>1. PICK j \in 1..Len(events) : ~events[j].active /\ Later(i, j)
    BY <1>3 DEF Superseded, Indices
  <2>2. i \in 1..Len(events) /\ j \in 1..Len(events')
    BY <1>1, <1>2, <1>3
  <2>3. events'[i] = events[i] /\ events'[j] = events[j]
    BY <1>1, <2>2
  <2> QED
    BY <2>1, <2>2, <2>3 DEF Later
<1>4. \A i \in 1..known[c] : events'[i] = events[i]
  BY <1>1, <1>2
<1> QED
  BY <1>2, <1>3, <1>4 DEF Superseded, Indices

\* A Kill Switch that is not active has no activation that is not released.
LEMMA GuardPasses ==
  ASSUME TypeOK, NewestIsThere, CommandsStamped, ~KillSwitchActive,
         NEW c \in Commands
  PROVE  Superseded(c)
<1>1. /\ events \in Seq(Event) /\ Len(events) \in Nat
      /\ known[c] \in Nat /\ known[c] <= Len(events)
  BY EventTimes DEF TypeOK, CommandsStamped, Stamped
<1>2. ASSUME NEW i \in 1..known[c], events[i].active
      PROVE  \E j \in Indices : ~events[j].active /\ Later(i, j)
  <2>1. i \in Indices /\ events # <<>>
    BY <1>1 DEF Indices
  <2>2. PICK l \in Latest : TRUE
    BY <2>1 DEF NewestIsThere
  <2>3. l \in Indices /\ ~events[l].active
    BY <2>2 DEF Latest, KillSwitchActive
  <2>4. Later(i, l)
    BY <1>2, <2>1, <2>2, <2>3 DEF Latest
  <2> QED
    BY <2>3, <2>4
<1> QED
  BY <1>2 DEF Superseded

\* The row a preflight has just recorded of a flat position.
LEMMA RecordedFlat ==
  ASSUME TypeOK, CommandsFollow, CommandsStamped, [Next]_vars,
         NEW c \in Commands, pc[c] = "record", seen[c] = Flat,
         NEW s \in Symbols, s = target[c],
         journal' = [journal EXCEPT ![target[c]][observed[c]] = seen[c]]
  PROVE  FlatRow(c, s)'
<1>1. PICK t \in Times : t = observed[c]
  BY DEF TypeOK
<1>2. journal'[s][t] = Flat
  <2>1. journal \in [Symbols -> [Times -> Exposures \cup {None}]]
    BY DEF TypeOK
  <2> QED
    BY <1>1, <2>1
<1>3. began[c] <= t /\ t <= clock
  BY <1>1 DEF CommandsStamped, Stamped
<1>4. Times \subseteq Nat
  BY AgesAssumption DEF Times
<1>5. began[c] \in Times
  BY DEF TypeOK
<1>6. t \in began'[c]..clock'
  BY <1>1, <1>3, <1>4, <1>5, BeginningsStay, ClockGrows
<1> QED
  BY <1>2, <1>6 DEF FlatRow

\* The baseline of a comparison without a problem.
LEMMA ComparedNormal ==
  ASSUME TypeOK, CommandsFollow, CommandsStamped, NewestIsThere,
         NEW c \in Commands, pc[c] = "compare", DriftProblems(c) = {}
  PROVE  problems[c] = {} /\ NormalRow(c, target[c])
<1>1. /\ problems[c] = {} /\ BaselineProblems(c) = {}
      /\ seen[c] \notin Abnormal
  BY DEF DriftProblems
<1>2. target[c] \in Symbols /\ seen[c] \in Exposures /\ now[c] = began[c]
  BY DEF CommandsFollow, Follows, CommandsStamped, Stamped
<1>3. Rows(target[c]) # {}
  BY <1>1 DEF BaselineProblems
<1>4. PICK t \in Baseline(target[c]) : TRUE
  BY <1>2, <1>3 DEF NewestIsThere
<1>5. ~(t > now[c]) /\ ~(now[c] - t > BaselineMaxAge)
        /\ journal[target[c]][t] = seen[c]
  BY <1>1, <1>3, <1>4 DEF BaselineProblems
<1>6. t \in Times
  BY <1>4 DEF Baseline, Rows
<1>7. Times \subseteq Nat
  BY AgesAssumption DEF Times
<1>8. began[c] \in Times
  BY DEF TypeOK
<1>9. began[c] - BaselineMaxAge <= t /\ t <= began[c]
  <2>1. t \in Nat /\ began[c] \in Nat /\ BaselineMaxAge \in Nat
    BY <1>6, <1>7, <1>8, AgesAssumption
  <2>2. ~(t > began[c]) /\ ~(began[c] - t > BaselineMaxAge)
    BY <1>2, <1>5
  <2> QED
    BY <2>1, <2>2
<1> QED
  BY <1>1, <1>2, <1>5, <1>6, <1>9 DEF NormalRow

-----------------------------------------------------------------------------
(* Verdicts.                                                                *)

\* A verdict has its reasons.
Backed(c) ==
  /\ verdict[c] = "ready" =>
       (\A s \in Symbols : FlatRow(c, s)) /\ Superseded(c)
  /\ verdict[c] = "CLEAR" => \A s \in Symbols : NormalRow(c, s)

Sound(c) == CheckedWell(c) /\ PassedGuard(c) /\ Backed(c)

\* A command that does nothing stays sound.
LEMMA SameSound ==
  ASSUME TypeOK, CommandsFollow, CommandsStamped, [Next]_vars,
         NEW d \in Commands, Same(d), Sound(d)
  PROVE  Sound(d)'
<1>1. CASE pc[d] = "idle"
  <2>1. pc'[d] = "idle" /\ verdict'[d] = "none"
    BY <1>1 DEF Same, CommandsFollow, Follows
  <2> QED
    BY <2>1 DEF Sound, CheckedWell, PassedGuard, Backed
<1>2. CASE pc[d] # "idle"
  <2>1. Checked(d)' = Checked(d) /\ Checked(d) \subseteq Symbols
    BY DEF Same, Checked
  <2>2. \A s \in Symbols : /\ FlatRow(d, s) => FlatRow(d, s)'
                           /\ NormalRow(d, s) => NormalRow(d, s)'
    BY <1>2, FlatRowStays, NormalRowStays
  <2>3. Superseded(d) => Superseded(d)'
    BY <1>2, SupersededStays
  <2>4. CheckedWell(d)'
    BY <2>1, <2>2 DEF Same, Sound, CheckedWell
  <2>5. PassedGuard(d)'
    BY <2>3 DEF Same, Sound, PassedGuard
  <2>6. Backed(d)'
    BY <2>2, <2>3 DEF Same, Sound, Backed
  <2> QED
    BY <2>4, <2>5, <2>6 DEF Sound
<1> QED
  BY <1>1, <1>2

\* A command that has nothing to show yet is sound.
LEMMA BareSound ==
  ASSUME NEW c \in Commands,
         verdict'[c] \notin {"ready", "CLEAR"},
         \/ pc'[c] \in {"idle", "returned"}
         \/ problems'[c] # {}
         \/ Checked(c)' = {}
         \/ kind'[c] \notin {"preflight", "drift"},
         PassedGuard(c)'
  PROVE  Sound(c)'
  BY DEF Sound, CheckedWell, Backed

LEMMA StepSound ==
  ASSUME TypeOK, CommandsFollow, CommandsStamped, NewestIsThere,
         [Next]_vars, NEW c \in Commands, Step(c), Sound(c)
  PROVE  Sound(c)'
<1>1. Follows(c)
  BY DEF CommandsFollow
<1>2. /\ kind \in [Commands -> Kinds \cup {None}]
      /\ DOMAIN pc = Commands /\ DOMAIN verdict = Commands
      /\ DOMAIN todo = Commands /\ DOMAIN problems = Commands
      /\ DOMAIN target = Commands /\ target[c] \in Symbols \cup {None}
      /\ todo[c] \subseteq Symbols
  BY DEF TypeOK
<1>3. pc[c] # "idle" => /\ kind'[c] = kind[c]
                        /\ Superseded(c) => Superseded(c)'
                        /\ \A s \in Symbols : FlatRow(c, s) => FlatRow(c, s)'
                        /\ \A s \in Symbols : NormalRow(c, s) => NormalRow(c, s)'
  BY BeginningsStay, SupersededStays, FlatRowStays, NormalRowStays
<1>4. ASSUME NEW k \in Kinds, Begin(c, k) PROVE Sound(c)'
  <2>1. /\ verdict'[c] = "none" /\ kind'[c] = k
        /\ todo'[c] = IF k \in Writers THEN {} ELSE Symbols
        /\ pc'[c] = CASE k = "preflight" -> "kill switch"
                      [] k = "drift" -> "ask"
                      [] OTHER -> "append"
    BY <1>1, <1>2, <1>4 DEF Begin, Follows, TypeOK
  <2>2. PassedGuard(c)'
    BY <2>1 DEF PassedGuard
  <2>3. Checked(c)' = {} \/ kind'[c] \notin {"preflight", "drift"}
    BY <2>1 DEF Checked, Writers
  <2> QED
    BY <2>1, <2>2, <2>3, BareSound
<1>5. CASE Fail(c) \/ AppendKillSwitchEvent(c)
  <2>1. pc'[c] = "returned"
    BY <1>2, <1>5 DEF Fail, AppendKillSwitchEvent
  <2>2. verdict'[c] \notin {"ready", "CLEAR"}
    BY <1>2, <1>5 DEF Fail, AppendKillSwitchEvent
  <2> QED
    BY <2>1, <2>2, BareSound DEF PassedGuard
<1>6. CASE CheckKillSwitch(c)
  <2>1. PICK found : /\ Unless(c, found, "account")
                     /\ KillSwitchActive => found # {}
    BY <1>6 DEF CheckKillSwitch
  <2>2. /\ verdict[c] = "none" /\ todo[c] = Symbols /\ todo' = todo
        /\ pc[c] = "kill switch"
    BY <1>1, <1>6 DEF CheckKillSwitch, Follows, query
  <2>3. /\ verdict'[c] \in {"none", "refused"}
        /\ pc'[c] \in {"account", "returned"}
        /\ pc'[c] = "account" => ~KillSwitchActive
    BY <1>2, <2>1, <2>2 DEF Unless
  <2>4. PassedGuard(c)'
    BY <1>3, <2>2, <2>3, GuardPasses DEF PassedGuard
  <2>5. Checked(c)' = {}
    BY <2>2 DEF Checked
  <2> QED
    BY <2>3, <2>4, <2>5, BareSound
<1>7. CASE ReadAccount(c) \/ CheckAccount(c)
  <2>1. /\ verdict[c] = "none" /\ todo[c] = Symbols /\ todo' = todo
        /\ pc[c] \in {"account", "account check"} /\ kind[c] = "preflight"
    BY <1>1, <1>7 DEF ReadAccount, CheckAccount, Follows, query
  <2>2. verdict'[c] \in {"none", "refused"}
    BY <1>2, <1>7, <2>1 DEF ReadAccount, CheckAccount, Unless
  <2>3. PassedGuard(c)'
    BY <1>3, <2>1 DEF Sound, PassedGuard
  <2>4. Checked(c)' = {}
    BY <2>1 DEF Checked
  <2> QED
    BY <2>2, <2>3, <2>4, BareSound
<1>8. CASE Ask(c) \/ Receive(c)
  <2>1. /\ verdict'[c] = "none" /\ problems' = problems
        /\ pc[c] \in {"ask", "answered"}
        /\ pc'[c] \in {"answered", "record", "compare"}
    BY <1>1, <1>2, <1>8 DEF Ask, Receive, Follows
  <2>2. Checked(c)' = Checked(c) /\ Checked(c) \subseteq Symbols
    <3>1. CASE Ask(c)
      <4>1. PICK s \in todo[c] : /\ todo' = [todo EXCEPT ![c] = @ \ {s}]
                                 /\ target' = [target EXCEPT ![c] = s]
        BY <3>1 DEF Ask
      <4>2. todo'[c] = todo[c] \ {s} /\ target'[c] = s
        BY <1>2, <4>1
      <4>3. pc[c] = "ask" /\ pc'[c] = "answered"
        BY <1>2, <3>1 DEF Ask
      <4> QED
        BY <4>1, <4>2, <4>3 DEF Checked
    <3>2. CASE Receive(c)
      <4>1. /\ todo' = todo /\ target' = target /\ pc[c] = "answered"
            /\ pc'[c] \in {"record", "compare"}
        BY <1>2, <3>2 DEF Receive, query
      <4> QED
        BY <4>1 DEF Checked
    <3> QED
      BY <1>8, <3>1, <3>2
  <2>3. CheckedWell(c)'
    BY <1>3, <2>1, <2>2 DEF Sound, CheckedWell
  <2>4. PassedGuard(c)'
    BY <1>3, <2>1 DEF Sound, PassedGuard
  <2> QED
    BY <2>1, <2>3, <2>4 DEF Sound, Backed
<1>9. CASE RecordPosition(c)
  <2>1. /\ verdict[c] = "none" /\ pc[c] = "record" /\ kind[c] = "preflight"
        /\ target[c] \in Symbols \ todo[c] /\ todo' = todo /\ kind'[c] = kind[c]
    BY <1>1, <1>3, <1>9 DEF RecordPosition, Follows, query
  <2>2. Superseded(c)'
    BY <1>3, <2>1 DEF Sound, PassedGuard
  <2>3. CASE pc'[c] = "returned" /\ verdict'[c] = "error"
    BY <2>3, BareSound DEF PassedGuard
  <2>4. CASE /\ Continue(c, PositionProblems(c))
             /\ journal' = [journal EXCEPT ![target[c]][observed[c]] = seen[c]]
    <3>1. /\ problems'[c] = PositionProblems(c)
          /\ \/ todo[c] # {} /\ pc'[c] = "ask" /\ verdict'[c] = "none"
             \/ /\ todo[c] = {} /\ pc'[c] = "returned"
                /\ verdict'[c] \in {"ready", "refused"}
                /\ verdict'[c] = "ready" => PositionProblems(c) = {}
      BY <1>2, <2>1, <2>4 DEF Continue
    <3>2. ASSUME PositionProblems(c) = {}
          PROVE  \A s \in Symbols \ todo[c] : FlatRow(c, s)'
      <4>1. problems[c] = {} /\ seen[c] = Flat
        BY <3>2 DEF PositionProblems
      <4>2. ASSUME NEW s \in Symbols, s = target[c] PROVE FlatRow(c, s)'
        BY <2>1, <2>4, <4>1, <4>2, RecordedFlat
      <4>3. \A s \in Symbols \ (todo[c] \cup {target[c]}) : FlatRow(c, s)
        BY <2>1, <4>1 DEF Sound, CheckedWell, Checked
      <4> QED
        BY <1>3, <2>1, <4>2, <4>3
    <3>3. pc'[c] = "ask" => Checked(c)' = Symbols \ todo[c]
      BY <2>1 DEF Checked
    <3>4. CheckedWell(c)'
      BY <2>1, <3>1, <3>2, <3>3 DEF CheckedWell
    <3>5. PassedGuard(c)' /\ Backed(c)'
      BY <2>2, <3>1, <3>2 DEF PassedGuard, Backed
    <3> QED
      BY <3>4, <3>5 DEF Sound
  <2> QED
    BY <1>2, <1>9, <2>3, <2>4 DEF RecordPosition
<1>10. CASE Compare(c)
  <2>1. /\ verdict[c] = "none" /\ pc[c] = "compare" /\ kind[c] = "drift"
        /\ target[c] \in Symbols \ todo[c] /\ todo' = todo /\ kind'[c] = kind[c]
    BY <1>1, <1>3, <1>10 DEF Compare, Follows, query
  <2>2. /\ problems'[c] = DriftProblems(c)
        /\ \/ todo[c] # {} /\ pc'[c] = "ask" /\ verdict'[c] = "none"
           \/ /\ todo[c] = {} /\ pc'[c] = "returned"
              /\ verdict'[c] \in {"CLEAR", "ATTENTION", "BLOCKED"}
              /\ verdict'[c] = "CLEAR" => DriftProblems(c) = {}
           \/ /\ DriftProblems(c) # {} /\ pc'[c] = "append"
              /\ verdict'[c] = "none"
    BY <1>2, <1>10, <2>1 DEF Compare
  <2>3. ASSUME DriftProblems(c) = {}
        PROVE  \A s \in Symbols \ todo[c] : NormalRow(c, s)'
    <3>1. problems[c] = {} /\ NormalRow(c, target[c])
      BY <2>1, <2>3, ComparedNormal
    <3>2. \A s \in Symbols \ (todo[c] \cup {target[c]}) : NormalRow(c, s)
      BY <2>1, <3>1 DEF Sound, CheckedWell, Checked
    <3>3. \A s \in Symbols \ todo[c] : NormalRow(c, s)
      BY <2>1, <3>1, <3>2
    <3> QED
      BY <1>3, <2>1, <3>3
  <2>4. pc'[c] = "ask" => Checked(c)' = Symbols \ todo[c]
    BY <2>1 DEF Checked
  <2>5. CheckedWell(c)'
    BY <2>1, <2>2, <2>3, <2>4 DEF CheckedWell
  <2>6. PassedGuard(c)' /\ Backed(c)'
    BY <2>1, <2>2, <2>3 DEF PassedGuard, Backed
  <2> QED
    BY <2>5, <2>6 DEF Sound
<1> QED
  BY <1>4, <1>5, <1>6, <1>7, <1>8, <1>9, <1>10 DEF Step

-----------------------------------------------------------------------------
(* The inductive invariant.                                                 *)

LEMMA BackedIsInvariant ==
  ASSUME ReadyIsBacked, ClearIsBacked, GuardHolds
  PROVE  \A c \in Commands : Backed(c)
  BY DEF ReadyIsBacked, ClearIsBacked, GuardHolds, Backed

LEMMA InitIInv == Init => IInv
<1> SUFFICES ASSUME Init PROVE IInv
  OBVIOUS
<1>1. TypeOK
  BY InitTyped
<1>2. /\ events = <<>> /\ Len(events) = 0
      /\ journal = [s \in Symbols |-> [t \in Times |-> None]]
      /\ \A c \in Commands : /\ pc[c] = "idle" /\ verdict[c] = "none"
                             /\ problems[c] = {} /\ now[c] = 0 /\ began[c] = 0
                             /\ observed[c] = 0 /\ known[c] = 0 /\ place[c] = 0
                             /\ kind[c] = None /\ clock = 0
  BY DEF Init
<1>3. CommandsFollow
  BY <1>2 DEF CommandsFollow, Follows
<1>4. CommandsStamped
  BY <1>2 DEF CommandsStamped, Stamped
<1>5. EventsInThePast
  BY <1>2 DEF EventsInThePast, Indices
<1>6. NewestIsThere
  BY <1>2 DEF NewestIsThere, Rows
<1>7. ChecksHold
  BY <1>2 DEF ChecksHold, CheckedWell, PassedGuard
<1>8. ReadyIsBacked /\ ClearIsBacked /\ GuardHolds
  BY <1>2 DEF ReadyIsBacked, ClearIsBacked, GuardHolds
<1> QED
  BY <1>1, <1>3, <1>4, <1>5, <1>6, <1>7, <1>8 DEF IInv

LEMMA StepIInv == IInv /\ [Next]_vars => IInv'
<1> SUFFICES ASSUME IInv, [Next]_vars PROVE IInv'
  OBVIOUS
<1>1. /\ TypeOK /\ CommandsFollow /\ CommandsStamped /\ EventsInThePast
      /\ NewestIsThere
  BY DEF IInv
<1>2. /\ TypeOK' /\ CommandsFollow' /\ CommandsStamped' /\ EventsInThePast'
      /\ NewestIsThere'
  BY <1>1, NextTyped, NextFollows, NextStamped, NextInThePast, NextNewest
<1>3. \A c \in Commands : Sound(c)
  BY BackedIsInvariant DEF IInv, ChecksHold, Sound
<1>4. \A c \in Commands : Sound(c)'
  <2>1. CASE Surroundings
    BY <1>1, <1>3, <2>1, SurroundingsSame, SameSound
  <2>2. ASSUME NEW c \in Commands, Step(c)
        PROVE  \A d \in Commands : Sound(d)'
    <3>1. Sound(c)'
      BY <1>1, <1>3, <2>2, StepSound
    <3>2. ASSUME NEW d \in Commands, d # c PROVE Sound(d)'
      BY <1>1, <1>3, <2>2, <3>2, OthersSame, SameSound
    <3> QED
      BY <3>1, <3>2
  <2> QED
    BY <1>1, <2>1, <2>2, NextSplits
<1>5. ChecksHold'
  BY <1>4 DEF Sound, ChecksHold
<1>6. ReadyIsBacked' /\ ClearIsBacked' /\ GuardHolds'
  BY <1>4 DEF Sound, Backed, ReadyIsBacked, ClearIsBacked, GuardHolds
<1> QED
  BY <1>2, <1>5, <1>6 DEF IInv

\* The last event is none of those the command began with: its own is later.
LEMMA OwnIsLater ==
  ASSUME TypeOK, CommandsStamped
  PROVE  LastWordHolds
<1>1. /\ Len(events) \in Nat
      /\ \A i \in 1..Len(events) : events[i].at \in Nat
  BY EventTimes
<1>2. SUFFICES ASSUME NEW c \in Commands, place[c] > 0,
                      NEW i \in 1..known[c], i \in Latest
               PROVE  FALSE
  BY DEF LastWordHolds
<1>3. known[c] \in Nat /\ place[c] \in Nat
  BY DEF TypeOK
<1>4. /\ known[c] <= Len(events) /\ events[i].at <= began[c]
      /\ known[c] < place[c] /\ place[c] <= Len(events)
      /\ events[place[c]].at = began[c]
  BY <1>2 DEF CommandsStamped, Stamped
<1>5. place[c] \in Indices /\ i \in 1..Len(events) /\ i < place[c]
  BY <1>1, <1>2, <1>3, <1>4 DEF Indices
<1>6. Later(place[c], i)
  BY <1>2, <1>5 DEF Latest
<1> QED
  BY <1>1, <1>4, <1>5, <1>6 DEF Later, Indices

-----------------------------------------------------------------------------
(* Theorems, for any number of commands and symbols, any ages, any clock.   *)

\* Every reachable state satisfies the inductive invariant: the variables keep
\* their types, stamps lie in the past of the commands that took them, and
\* what a command has checked still holds.
THEOREM InductiveInvariant == Spec => []IInv
<1> QED
  BY InitIInv, StepIInv, PTL DEF Spec

\* Every variable keeps its type.
THEOREM TypeCorrect == Spec => []TypeOK
<1>1. IInv => TypeOK
  BY DEF IInv
<1> QED
  BY <1>1, InductiveInvariant, PTL

\* A preflight says ready only with a flat row of every symbol, stamped since
\* it began, in live_position_snapshots.
THEOREM ReadyHasRows == Spec => []ReadyIsBacked
<1>1. IInv => ReadyIsBacked
  BY DEF IInv
<1> QED
  BY <1>1, InductiveInvariant, PTL

\* A drift report says CLEAR only with a normal row of every symbol that was
\* at most BaselineMaxAge old and not in the future of the report.
THEOREM ClearHasBaselines == Spec => []ClearIsBacked
<1>1. IInv => ClearIsBacked
  BY DEF IInv
<1> QED
  BY <1>1, InductiveInvariant, PTL

\* A preflight is never ready over an activation it began with unless a
\* release has been appended that supersedes it.
THEOREM ReadyIsReleased == Spec => []GuardHolds
<1>1. IInv => GuardHolds
  BY DEF IInv
<1> QED
  BY <1>1, InductiveInvariant, PTL

\* Once a command has appended its event, an event it began with is never
\* again the current state of the Kill Switch.
THEOREM AppendDecides == Spec => []LastWordHolds
<1>1. IInv => LastWordHolds
  BY OwnIsLater DEF IInv
<1> QED
  BY <1>1, InductiveInvariant, PTL
=============================================================================
