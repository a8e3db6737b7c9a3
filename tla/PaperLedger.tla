---------------------------- MODULE PaperLedger ----------------------------
(***************************************************************************)
(* The tables of one paper validation and the commands that fill them:     *)
(* cmd/paper-report (start, complete, cancel), the ticket writer, and      *)
(* cmd/paper-execute (enter, settle, auto-enter, auto-exit, auto-cycle).   *)
(* Commands are processes that share nothing but PostgreSQL.  Each read    *)
(* and each write of a table is a step of its own; reads of rows that are  *)
(* never changed once written are joined to the step that follows them.    *)
(*                                                                         *)
(* The default identifiers are used, so that a ticket names its fill, its  *)
(* position, its close and its equity event.  A payload is told from       *)
(* another by its instants and its result.  A guard that fails, an error   *)
(* of the database, a cancelled context and a crash all end the command    *)
(* without a write: that is Stop.                                          *)
(***************************************************************************)
EXTENDS Integers, FiniteSets

CONSTANTS
  Commands,         \* processes running at one time
  Tickets,
  Kinds,            \* the commands of the instance, a subset of AllKinds
  Pnls,             \* net results a close can have
  InitialBalance,
  MinimumDays,      \* of the clock
  PositionScanLimit, PendingScanLimit,  \* -position-scan-limit, -pending-...
  MaxClock,         \* bound of the model
  Toggles           \* whether the operator uses the Kill Switch

AllKinds == {"start", "complete", "cancel", "ticket", "enter", "settle",
             "auto-enter", "auto-exit", "auto-cycle"}

ASSUME LedgerAssumption ==
  /\ Kinds \subseteq AllKinds
  /\ Pnls \subseteq Int
  /\ InitialBalance \in Nat \ {0}
  /\ MinimumDays \in Nat \ {0}
  /\ PositionScanLimit \in Nat \ {0} /\ PendingScanLimit \in Nat \ {0}
  /\ MaxClock \in Nat
  /\ Toggles \in BOOLEAN

Instant == 0 .. MaxClock
Absent == [at |-> -1, recorded |-> -1, pnl |-> 0]

VARIABLES
  clock,
  status, startedAt,      \* paper_validation_records
  created,                \* paper_order_tickets: created_at, -1 if no row
  fill,                   \* paper_order_fills: Absent if no row
  opened,                 \* paper_open_positions
  close,                  \* paper_position_closes: Absent if no row
  ledger,                 \* paper_equity_events
  killSwitch,
  lock,                   \* holders of the advisory lock of a cycle
  pc, mem,                \* a command's next step and its memory
  exposed,                \* history: past the Kill Switch when it was armed
  late,                   \* history: past their last check of RUNNING when
                          \* the validation ended
  refused                 \* history: tickets whose settlement was repeated
                          \* with the same observation, and refused

rows == <<status, startedAt, created, fill, opened, close, ledger>>
history == <<exposed, late, refused>>
vars == <<rows, clock, killSwitch, lock, pc, mem, history>>

Blank == [kind |-> "none", ticket |-> {}, todo |-> {}, active |-> FALSE,
          at |-> -1, pnl |-> 0, recorded |-> -1, seq |-> 0, before |-> 0]

\* The steps at which a command has decided to write a row of the pipeline.
WriteSteps == {"write ticket", "find fill", "gate", "write fill",
               "write position", "stamp close", "write close", "find event",
               "read ledger", "write event"}
Steps == WriteSteps \cup
  {"idle", "start", "write start", "complete", "list", "check",
   "write complete", "cancel", "write cancel", "ticket", "enter", "settle",
   "account", "open", "auto-enter", "find entry", "entry gate",
   "entry quote", "auto-exit", "exit quote", "cycle", "scan", "visit",
   "pending"}

Events == [ticket : Tickets, seq : Nat \ {0}, before : Int, after : Int,
           at : Instant]
Rows == [at : Instant \cup {-1}, recorded : Instant \cup {-1},
         pnl : Pnls \cup {0}]

Memories ==
  [kind : AllKinds \cup {"none"}, ticket : {{}} \cup {{t} : t \in Tickets},
   todo : SUBSET Tickets, active : BOOLEAN, at : Instant \cup {-1},
   pnl : Pnls \cup {0}, recorded : Instant \cup {-1}, seq : Nat,
   before : Int]

TypeOK ==
  /\ clock \in Instant
  /\ status \in {"PLANNED", "RUNNING", "COMPLETED", "CANCELLED"}
  /\ startedAt \in Instant
  /\ created \in [Tickets -> Instant \cup {-1}]
  /\ fill \in [Tickets -> Rows] /\ close \in [Tickets -> Rows]
  /\ opened \subseteq Tickets
  /\ ledger \subseteq Events
  /\ killSwitch \in BOOLEAN
  /\ lock \subseteq Commands
  /\ pc \in [Commands -> Steps]
  /\ mem \in [Commands -> Memories]
  /\ exposed \subseteq Commands /\ late \subseteq Commands
  /\ refused \subseteq Tickets

Running == status = "RUNNING"
Filled(t) == fill[t] # Absent
Closed(t) == close[t] # Absent
Accounted(t) == \E e \in ledger : e.ticket = t
Settled(t) == Closed(t) /\ Accounted(t)
Of(c, t) == mem[c].ticket = {t}

Init ==
  /\ clock = 0
  /\ status \in {"PLANNED", "RUNNING"} /\ startedAt = 0
  /\ created \in IF status = "PLANNED" THEN {[t \in Tickets |-> -1]}
                                        ELSE [Tickets -> {-1, 0}]
  /\ fill = [t \in Tickets |-> Absent] /\ close = [t \in Tickets |-> Absent]
  /\ opened = {} /\ ledger = {}
  /\ killSwitch = FALSE /\ lock = {}
  /\ pc = [c \in Commands |-> "idle"] /\ mem = [c \in Commands |-> Blank]
  /\ exposed = {} /\ late = {} /\ refused = {}

-----------------------------------------------------------------------------
(* Moves of a command *)

Go(c, from, to) == pc[c] = from /\ pc' = [pc EXCEPT ![c] = to]

Remember(c, m) == mem' = [mem EXCEPT ![c] = m]

\* The end of a process: its session, and with it its advisory lock, is gone.
End(c) ==
  /\ pc' = [pc EXCEPT ![c] = "idle"] /\ Remember(c, Blank)
  /\ lock' = lock \ {c}
  /\ exposed' = exposed \ {c} /\ late' = late \ {c}

\* A cycle may be followed by another under the same lock (-cycle-limit).
Done(c) ==
  \/ End(c)
  \/ /\ mem[c].kind = "auto-cycle"
     /\ pc' = [pc EXCEPT ![c] = "cycle"]
     /\ Remember(c, [Blank EXCEPT !.kind = "auto-cycle"])
     /\ exposed' = exposed \ {c} /\ late' = late \ {c}
     /\ UNCHANGED lock

Stop(c) ==
  /\ pc[c] # "idle" /\ End(c)
  /\ UNCHANGED <<rows, clock, killSwitch, refused>>

\* Fault: the lock is taken and not asked for.
TakeLockAnyway(c, k) ==
  lock' = IF k = "auto-cycle" THEN lock \cup {c} ELSE lock

\* pg_try_advisory_lock: a cycle that does not get the lock ends.
TakeLock(c, k) ==
  IF k = "auto-cycle" THEN lock = {} /\ lock' = {c} ELSE UNCHANGED lock

\* The command line: manual observations come with it.
Begin(c) ==
  \E k \in Kinds, t \in Tickets, i \in Instant, p \in Pnls :
    /\ Go(c, "idle", IF k = "auto-cycle" THEN "cycle" ELSE k)
    /\ Remember(c, [Blank EXCEPT
         !.kind = k,
         !.ticket = IF k \in {"ticket", "enter", "settle", "auto-enter",
                              "auto-exit"} THEN {t} ELSE {},
         !.at = IF k \in {"enter", "settle"} THEN i ELSE -1,
         !.pnl = IF k = "settle" THEN p ELSE 0])
    /\ TakeLock(c, k)
    /\ UNCHANGED <<rows, clock, killSwitch, history>>

Local(c) == UNCHANGED <<rows, clock, killSwitch, lock, history>>

\* Every use case reads the validation and requires it to be RUNNING.
RequireRunning(c, from, to) ==
  Go(c, from, to) /\ Running /\ UNCHANGED mem /\ Local(c)

-----------------------------------------------------------------------------
(* cmd/paper-report: the lifecycle of the validation *)

ReadStart(c) ==
  /\ Go(c, "start", "write start") /\ status = "PLANNED"
  /\ Remember(c, [mem[c] EXCEPT !.at = clock]) /\ Local(c)

WriteStart(c) ==
  /\ pc[c] = "write start" /\ status = "PLANNED" /\ End(c)
  /\ status' = "RUNNING" /\ startedAt' = mem[c].at
  /\ UNCHANGED <<created, fill, opened, close, ledger, clock, killSwitch,
                 refused>>

ReadComplete(c) ==
  /\ Go(c, "complete", "list") /\ Running
  /\ clock >= startedAt + MinimumDays
  /\ UNCHANGED mem /\ Local(c)

ListPositions(c) ==
  /\ Go(c, "list", "check")
  /\ Remember(c, [mem[c] EXCEPT !.todo = opened]) /\ Local(c)

\* Rows are never deleted, so the reads of the loop come to the last of them.
ValidateCompletionPositionJournal(c) ==
  /\ Go(c, "check", "write complete") /\ \A t \in mem[c].todo : Settled(t)
  /\ UNCHANGED mem /\ Local(c)

\* The end of the observation, for whichever commands are writing.
Leave(c, expected, final) ==
  /\ status = expected
  /\ pc' = [pc EXCEPT ![c] = "idle"] /\ Remember(c, Blank)
  /\ status' = final
  /\ late' = {d \in Commands : pc[d] \in WriteSteps}
  /\ UNCHANGED <<startedAt, created, fill, opened, close, ledger, clock,
                 killSwitch, lock, exposed, refused>>

WriteComplete(c) == pc[c] = "write complete" /\ Leave(c, "RUNNING", "COMPLETED")

\* The status read is the one the update requires: kept in seq.
ReadCancel(c) ==
  /\ Go(c, "cancel", "write cancel")
  /\ status \in {"PLANNED", "RUNNING"}
  /\ Remember(c, [mem[c] EXCEPT !.seq = IF Running THEN 2 ELSE 1]) /\ Local(c)

WriteCancel(c) ==
  /\ pc[c] = "write cancel"
  /\ Leave(c, IF mem[c].seq = 2 THEN "RUNNING" ELSE "PLANNED", "CANCELLED")

-----------------------------------------------------------------------------
(* Tickets, fills and positions *)

CheckTicket(c) ==
  /\ Go(c, "ticket", "write ticket") /\ Running
  /\ Remember(c, [mem[c] EXCEPT !.at = clock]) /\ Local(c)

\* INSERT ... ON CONFLICT DO NOTHING; then the payloads are compared, and
\* the command ends either way.
WriteTicket(c) ==
  /\ pc[c] = "write ticket" /\ End(c)
  /\ \E t \in mem[c].ticket :
       created' = [created EXCEPT ![t] = IF @ = -1 THEN mem[c].at ELSE @]
  /\ UNCHANGED <<status, startedAt, fill, opened, close, ledger, clock,
                 killSwitch, refused>>

\* RecordOrderFill: the ticket, then the status of its validation.
CheckFill(c) ==
  /\ \A t \in mem[c].ticket : created[t] # -1
  /\ RequireRunning(c, "enter", "find fill")

FindFill(c) ==
  /\ \E t \in Tickets :
       /\ Of(c, t)
       /\ IF Filled(t)
          THEN /\ Go(c, "find fill", "write fill")
               /\ Remember(c, [mem[c] EXCEPT !.recorded = fill[t].recorded])
          ELSE Go(c, "find fill", "gate") /\ UNCHANGED mem
  /\ Local(c)

RequireInactiveKillSwitch(c) ==
  /\ Go(c, "gate", "write fill") /\ ~killSwitch
  /\ Remember(c, [mem[c] EXCEPT !.recorded = clock]) /\ Local(c)

WriteFill(c) ==
  \E t \in Tickets :
    LET row == [at |-> mem[c].at, recorded |-> mem[c].recorded, pnl |-> 0]
    IN
    /\ Of(c, t)
    /\ created[t] <= row.at /\ row.at <= row.recorded
    /\ fill[t] \in {Absent, row}
    /\ Go(c, "write fill", "open")
    /\ fill' = [fill EXCEPT ![t] = row]
    /\ exposed' = exposed \ {c} /\ late' = late \ {c}
    /\ UNCHANGED <<status, startedAt, created, opened, close, ledger, clock,
                   killSwitch, lock, mem, refused>>

\* Fault: the check made for the fill is taken to cover the position.
OpenUnchecked(c) == Go(c, "open", "write position")
                    /\ UNCHANGED mem /\ Local(c)

CheckOpen(c) == RequireRunning(c, "open", "write position")

WritePosition(c) ==
  /\ pc[c] = "write position" /\ Done(c)
  /\ opened' = opened \cup mem[c].ticket
  /\ UNCHANGED <<status, startedAt, created, fill, close, ledger, clock,
                 killSwitch, refused>>

-----------------------------------------------------------------------------
(* Closing a position and accounting the close *)

CheckClose(c) == mem[c].ticket \subseteq opened
                 /\ RequireRunning(c, "settle", "stamp close")

StampClose(c) ==
  /\ Go(c, "stamp close", "write close")
  /\ Remember(c, [mem[c] EXCEPT !.recorded = clock]) /\ Local(c)

CloseRow(c) == [at |-> mem[c].at, recorded |-> mem[c].recorded,
                pnl |-> mem[c].pnl]

ValidClose(c, t) == fill[t].at < mem[c].at /\ mem[c].at <= mem[c].recorded

WriteClose(c) ==
  \E t \in Tickets :
    /\ Of(c, t) /\ ValidClose(c, t)
    /\ close[t] \in {Absent, CloseRow(c)}
    /\ Go(c, "write close", "account")
    /\ close' = [close EXCEPT ![t] = CloseRow(c)]
    /\ late' = late \ {c}
    /\ UNCHANGED <<status, startedAt, created, fill, opened, ledger, clock,
                   killSwitch, lock, mem, exposed, refused>>

\* "already exists with different payload"
CloseConflict(c) ==
  \E t \in Tickets :
    /\ pc[c] = "write close" /\ Of(c, t) /\ ValidClose(c, t)
    /\ close[t] \notin {Absent, CloseRow(c)}
    /\ refused' = IF close[t].at = mem[c].at /\ close[t].pnl = mem[c].pnl
                  THEN refused \cup {t} ELSE refused
    /\ End(c) /\ UNCHANGED <<rows, clock, killSwitch>>

CheckAccount(c) == RequireRunning(c, "account", "find event")

FindEvent(c) ==
  /\ \E t \in Tickets :
       /\ Of(c, t)
       /\ IF Accounted(t) THEN pc[c] = "find event" /\ Done(c)
          ELSE /\ Go(c, "find event", "read ledger")
               /\ UNCHANGED <<mem, lock, exposed, late>>
  /\ UNCHANGED <<rows, clock, killSwitch, refused>>

\* Numbered from one without gap or repetition, each event starting from the
\* equity its predecessor left and not before it in time, no close twice.
ValidateEquityEventSequence(events) ==
  \A e \in events :
    /\ IF e.seq = 1 THEN e.before = InitialBalance
       ELSE \E d \in events :
              d.seq = e.seq - 1 /\ d.after = e.before /\ d.at <= e.at
    /\ \A d \in events : d.seq = e.seq \/ d.ticket = e.ticket => d = e

\* What the first event follows.
Opening == [seq |-> 0, after |-> InitialBalance, at |-> -1]

IsLast(last, events) ==
  IF events = {} THEN last = Opening
  ELSE last \in events /\ \A d \in events : d.seq <= last.seq

\* Fault: a loss larger than the account is taken.
ReadLedgerUnbounded(c) ==
  \E t \in Tickets, last \in ledger \cup {Opening} :
    /\ Of(c, t) /\ Go(c, "read ledger", "write event")
    /\ IsLast(last, ledger) /\ close[t].at >= last.at
    /\ Remember(c, [mem[c] EXCEPT !.seq = last.seq + 1,
                                  !.before = last.after])
    /\ Local(c)

\* The ledger is read and validated; the next event is computed from it.
ReadLedger(c) ==
  \E t \in Tickets, last \in ledger \cup {Opening} :
    /\ Of(c, t) /\ Go(c, "read ledger", "write event")
    /\ ValidateEquityEventSequence(ledger)
    /\ IsLast(last, ledger) /\ close[t].at >= last.at
    /\ last.after > 0 /\ last.after + close[t].pnl >= 0
    /\ Remember(c, [mem[c] EXCEPT !.seq = last.seq + 1,
                                  !.before = last.after])
    /\ Local(c)

\* Unique (validation, sequence number), unique close.
WriteEvent(c) ==
  \E t \in Tickets :
    /\ Of(c, t) /\ pc[c] = "write event" /\ Done(c)
    /\ ~Accounted(t) /\ \A e \in ledger : e.seq # mem[c].seq
    /\ ledger' = ledger \cup
         {[ticket |-> t, seq |-> mem[c].seq, before |-> mem[c].before,
           after |-> mem[c].before + close[t].pnl, at |-> close[t].at]}
    /\ UNCHANGED <<status, startedAt, created, fill, opened, close, clock,
                   killSwitch, refused>>

-----------------------------------------------------------------------------
(* Reconciliation by quotes: auto-enter, auto-exit, auto-cycle *)

CheckAutoEnter(c) ==
  /\ \A t \in mem[c].ticket : created[t] # -1
  /\ RequireRunning(c, "auto-enter", "find entry")

FindEntry(c) ==
  /\ \E t \in Tickets :
       Of(c, t) /\ Go(c, "find entry", IF Filled(t) THEN "open"
                                                    ELSE "entry gate")
  /\ UNCHANGED mem /\ Local(c)

EntryGate(c) ==
  Go(c, "entry gate", "entry quote") /\ ~killSwitch
  /\ UNCHANGED mem /\ Local(c)

\* The newest snapshot that is not stale, none newer than -quote-as-of.
EntryQuote(c) ==
  /\ Go(c, "entry quote", "enter")
  /\ \E i \in 0 .. clock : Remember(c, [mem[c] EXCEPT !.at = i])
  /\ Local(c)

CheckAutoExit(c) ==
  /\ pc[c] = "auto-exit" /\ Running /\ mem[c].ticket \subseteq opened
  /\ \E t \in mem[c].ticket :
       pc' = [pc EXCEPT ![c] = IF Closed(t) THEN "account" ELSE "exit quote"]
  /\ UNCHANGED mem /\ Local(c)

\* The quote triggers the stop loss or the take profit of the position ...
ExitTriggered(c) ==
  /\ Go(c, "exit quote", "settle")
  /\ \E i \in 0 .. clock, p \in Pnls :
       Remember(c, [mem[c] EXCEPT !.at = i, !.pnl = p])
  /\ Local(c)

\* ... or neither; the scan of a cycle goes on with the next position.
NotTriggered(c) ==
  /\ pc[c] = "exit quote"
  /\ IF mem[c].kind = "auto-cycle"
     THEN /\ Go(c, "exit quote", "visit")
          /\ Remember(c, [mem[c] EXCEPT !.ticket = {}, !.active = TRUE])
          /\ UNCHANGED <<lock, exposed, late>>
     ELSE End(c)
  /\ UNCHANGED <<rows, clock, killSwitch, refused>>

CheckCycle(c) == RequireRunning(c, "cycle", "scan")

\* ORDER BY age, id LIMIT limit: what such a query can return of a table.  Rows
\* of one age come in either order.
Oldest(table, age, limit) ==
  {seen \in SUBSET table :
     /\ \/ seen = table /\ Cardinality(table) < limit
        \/ Cardinality(seen) = limit
     /\ \A t \in seen : \A u \in table \ seen : age[t] <= age[u]}

OpenedAt == [t \in Tickets |-> fill[t].at]

\* The oldest positions, the settled ones among them.
ScanPositions(c) ==
  /\ Go(c, "scan", "visit")
  /\ \E seen \in Oldest(opened, OpenedAt, PositionScanLimit) :
       Remember(c, [mem[c] EXCEPT !.todo = seen])
  /\ Local(c)

\* Positions are visited by opened_at: those settled are passed over, a close
\* without its event is accounted, an open position is priced.
Visit(c) ==
  \E t \in mem[c].todo :
    /\ \A u \in mem[c].todo : fill[t].at <= fill[u].at
    /\ Go(c, "visit", CASE ~Closed(t) -> "exit quote"
                        [] Settled(t) -> "visit"
                        [] OTHER -> "account")
    /\ Remember(c, [mem[c] EXCEPT !.todo = @ \ {t},
                                  !.ticket = IF Settled(t) THEN {} ELSE {t}])
    /\ Local(c)

\* At most one exit or one entry: an active position rules the entry out.
EndOfScan(c) ==
  /\ pc[c] = "visit" /\ mem[c].todo = {}
  /\ IF mem[c].active
     THEN Done(c)
     ELSE Go(c, "visit", "pending") /\ UNCHANGED <<mem, lock, exposed, late>>
  /\ UNCHANGED <<rows, clock, killSwitch, refused>>

Written == {t \in Tickets : created[t] # -1}

\* The oldest tickets, the filled ones among them; then the first without fill.
PickPending(c) ==
  /\ pc[c] = "pending" /\ Running
  /\ \E seen \in Oldest(Written, created, PendingScanLimit) :
       LET pending == {t \in seen : ~Filled(t)} IN
       \/ /\ pending = {} /\ Done(c)
       \/ \E t \in pending :
            /\ \A u \in pending : created[t] <= created[u]
            /\ Go(c, "pending", "auto-enter")
            /\ Remember(c, [mem[c] EXCEPT !.ticket = {t}])
            /\ UNCHANGED <<lock, exposed, late>>
  /\ UNCHANGED <<rows, clock, killSwitch, refused>>

-----------------------------------------------------------------------------
(* The surroundings *)

ToggleKillSwitch ==
  /\ Toggles
  /\ killSwitch' = ~killSwitch
  /\ exposed' = IF killSwitch THEN {}
                ELSE {c \in Commands : pc[c] = "write fill"}
  /\ UNCHANGED <<rows, clock, lock, pc, mem, late, refused>>

Tick ==
  /\ clock < MaxClock /\ clock' = clock + 1
  /\ UNCHANGED <<rows, killSwitch, lock, pc, mem, history>>

CommandStep(c) ==
  \/ Begin(c) \/ Stop(c)
  \/ ReadStart(c) \/ WriteStart(c)
  \/ ReadComplete(c) \/ ListPositions(c)
  \/ ValidateCompletionPositionJournal(c) \/ WriteComplete(c)
  \/ ReadCancel(c) \/ WriteCancel(c)
  \/ CheckTicket(c) \/ WriteTicket(c)
  \/ CheckFill(c) \/ FindFill(c) \/ RequireInactiveKillSwitch(c)
  \/ WriteFill(c) \/ CheckOpen(c) \/ WritePosition(c)
  \/ CheckClose(c) \/ StampClose(c) \/ WriteClose(c) \/ CloseConflict(c)
  \/ CheckAccount(c) \/ FindEvent(c) \/ ReadLedger(c) \/ WriteEvent(c)
  \/ CheckAutoEnter(c) \/ FindEntry(c) \/ EntryGate(c) \/ EntryQuote(c)
  \/ CheckAutoExit(c) \/ ExitTriggered(c) \/ NotTriggered(c)
  \/ CheckCycle(c) \/ ScanPositions(c) \/ Visit(c) \/ EndOfScan(c)
  \/ PickPending(c)

Next == (\E c \in Commands : CommandStep(c)) \/ ToggleKillSwitch \/ Tick

Spec == Init /\ [][Next]_vars

-----------------------------------------------------------------------------
(* Properties *)

\* The ledger stays valid and true to the closes, although each event is
\* computed from a ledger read earlier by a command that knows of no other.
LedgerContinuous ==
  /\ ValidateEquityEventSequence(ledger)
  /\ \A e \in ledger : Closed(e.ticket)
                       /\ e.after = e.before + close[e.ticket].pnl

\* A command that accounts a close knows which, and it is written.
AccountsClose ==
  \A c \in Commands :
    pc[c] \in {"account", "find event", "read ledger", "write event"}
      => \E t \in Tickets : Of(c, t) /\ Closed(t)

\* A command about to write an event computed it from the last event, which
\* is still there, and still the last unless the number is taken.
Follows(c) ==
  \E t \in Tickets, last \in ledger \cup {Opening} :
    /\ Of(c, t) /\ close[t].at >= last.at
    /\ mem[c].seq = last.seq + 1 /\ mem[c].before = last.after
    /\ last.after > 0 /\ last.after + close[t].pnl >= 0
    /\ \/ \A e \in ledger : e.seq <= last.seq
       \/ \E e \in ledger : e.seq = last.seq + 1

NextEventKnown == \A c \in Commands : pc[c] = "write event" => Follows(c)

\* A start is written with the instant at which its check was made, a close
\* with the result it was given.
StartsAreDated ==
  \A c \in Commands : pc[c] = "write start" => mem[c].at \in Instant

ResultsKnown ==
  \A c \in Commands :
    pc[c] \in {"settle", "stamp close", "write close"} => mem[c].pnl \in Pnls

ClosesAreWhole ==
  \A t \in Tickets : Closed(t) => close[t].at \in Instant
                                  /\ close[t].pnl \in Pnls

\* While the Kill Switch is armed, a command about to write a fill is one that
\* had read it inactive before or repeats a fill that is written.
ExposedKnown ==
  killSwitch => \A c \in Commands : pc[c] = "write fill" =>
                  c \in exposed \/ \E t \in Tickets : Of(c, t) /\ Filled(t)

\* Outside of the RUNNING period, whoever is about to write had passed its
\* check when the period ended.
LateKnown ==
  ~Running => \A c \in Commands : pc[c] \in WriteSteps => c \in late

\* No fill is written by hand or by auto-enter: only cycles enter, and a
\* command at a step of a cycle is one, which alone holds the lock.
CyclesOnly == Kinds \cap {"enter", "auto-enter"} = {}

EntrySteps == {"pending", "auto-enter", "find entry", "entry gate",
               "entry quote", "enter", "find fill", "gate", "write fill",
               "open", "write position"}
CycleSteps == EntrySteps \cup {"cycle", "scan", "visit"}

CycleLocked ==
  /\ \A c, d \in lock : c = d
  /\ \A c \in Commands :
       /\ mem[c].kind = "auto-cycle" => c \in lock
       /\ pc[c] \in CycleSteps => mem[c].kind = "auto-cycle"

\* An entry is dated before it is written, and a position is of a fill.
EntriesAreFilled ==
  /\ \A c \in Commands :
       /\ pc[c] \in {"enter", "find fill", "gate", "write fill"}
            => mem[c].at \in Instant
       /\ pc[c] \in {"open", "write position"}
            => \A t \in mem[c].ticket : Filled(t)
  /\ \A t \in opened : Filled(t)

\* Settled positions, done, and others, ahead, that are as many as a scan
\* returns and none younger than t: a scan need not come to t.
FullBefore(t, done, ahead) ==
  /\ done \cup ahead \subseteq opened
  /\ Cardinality(done \cup ahead) = PositionScanLimit
  /\ \A u \in done : Settled(u)
  /\ \A u \in done \cup ahead : fill[u].at <= fill[t].at

\* Settled positions hide t from the scans.
Behind(t) == \E done \in SUBSET opened : FullBefore(t, done, {})

\* A scan that has come upon no active position has all of them before it, but
\* those that the ones before it and settled ones hide.  A cycle that is
\* entering has none behind it that is not hidden, whatever closes meanwhile.
ScanKnown ==
  \A c \in Commands : \A t \in opened :
    \/ Closed(t) \/ Behind(t)
    \/ /\ pc[c] \notin EntrySteps
       /\ pc[c] = "visit" =>
            \/ mem[c].active \/ t \in mem[c].todo
            \/ \E done \in SUBSET opened : FullBefore(t, done, mem[c].todo)

\* With cycles as the only writers of fills, of two positions open together
\* one is hidden by -position-scan-limit settled ones that are no younger: the
\* one other way in is the limit of the scan.
OneActiveInSight ==
  \A t, u \in opened : \/ Closed(t) \/ Closed(u) \/ t = u
                        \/ Behind(t) \/ Behind(u)

CyclesKnown == CyclesOnly => CycleLocked /\ ScanKnown /\ OneActiveInSight

\* The inductive invariant.
IInv ==
  /\ TypeOK /\ StartsAreDated /\ ResultsKnown /\ ClosesAreWhole
  /\ AccountsClose /\ NextEventKnown /\ LedgerContinuous
  /\ ExposedKnown /\ LateKnown /\ EntriesAreFilled /\ CyclesKnown

\* An ended validation stays as it ended and none starts twice, whichever
\* lifecycle commands race.
StatusMoves ==
  [][\/ status = "PLANNED" /\ status' \in {"RUNNING", "CANCELLED"}
     \/ status = "RUNNING" /\ status' \in {"COMPLETED", "CANCELLED"}]_status

\* Outside of the RUNNING period a row is written only by a command that had
\* passed the check of the use case it is in when the period ended.
LateWritesWereChecked ==
  [][\A c \in Commands :
       ~Running /\ status' = status /\ pc'[c] # pc[c]
         /\ <<created, fill, opened, close, ledger>>'
              # <<created, fill, opened, close, ledger>>
       => c \in late]_<<rows, pc>>

\* While the Kill Switch is armed, a fill is written only by a command that
\* had read it inactive before; retries of a written fill are let through.
FillsHonourKillSwitch ==
  [][killSwitch /\ fill' # fill
       => \E c \in exposed : pc'[c] # pc[c]]_fill

Last == CHOOSE last \in ledger \cup {Opening} : IsLast(last, ledger)

\* The equity ledger is an account that takes each close once.
Account == INSTANCE EquityAccount WITH
  Positions <- Tickets,
  results <- {<<t, close[t].pnl>> : t \in {u \in Tickets : Closed(u)}},
  settled <- {e.ticket : e \in ledger},
  equity <- Last.after

AccountImplemented == Account!Spec

\* README: retries "continue after a close was already persisted", and a
\* settlement is recorded "idempotently".  The same observation is never
\* refused as a different payload.
RetrySucceeds == refused = {}

\* README: a cycle "records at most one exit or one entry, and skips entry
\* while any active open position remains".  With cycles as the only writers
\* of fills, no two positions would ever be open together.
OneActivePosition ==
  \A t, u \in opened : Closed(t) \/ Closed(u) \/ t = u

\* README: completion is allowed only after the position journal "is fully
\* settled: no active open positions".
CompletedIsSettled == status = "COMPLETED" => \A t \in opened : Settled(t)
=============================================================================
