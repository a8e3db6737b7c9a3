------------------------- MODULE PaperLedger_proofs -------------------------
(***************************************************************************)
(* The paper equity ledger for any commands, tickets, results, instants    *)
(* and interleaving: it stays a valid sequence and implements an account   *)
(* that takes each close once.                                             *)
(***************************************************************************)
EXTENDS PaperLedger, TLAPS

\* A command that moves: its own step and memory change, no others.
Moved(c) ==
  /\ pc' \in [Commands -> Steps] /\ mem' \in [Commands -> Memories]
  /\ \A d \in Commands \ {c} : pc'[d] = pc[d] /\ mem'[d] = mem[d]

LEMMA BlankTyped == Blank \in Memories
BY DEF Blank, Memories

LEMMA BlankKind ==
  ASSUME NEW k \in AllKinds \cup {"none"}
  PROVE  [Blank EXCEPT !.kind = k] \in Memories
BY BlankTyped DEF Memories

LEMMA MoveTo ==
  ASSUME TypeOK, NEW c \in Commands, NEW p \in Steps, NEW m \in Memories,
         pc' = [pc EXCEPT ![c] = p], mem' = mem \/ mem' = [mem EXCEPT ![c] = m]
  PROVE  Moved(c)
BY DEF TypeOK, Moved

\* A process that ends, or a cycle that is followed by another.
LEMMA EndMoves == ASSUME TypeOK, NEW c \in Commands, End(c) PROVE Moved(c)
BY BlankTyped, MoveTo DEF End, Remember, Steps

LEMMA DoneMoves == ASSUME TypeOK, NEW c \in Commands, Done(c) PROVE Moved(c)
<1>1. CASE End(c)
  BY <1>1, EndMoves
<1>2. CASE /\ pc' = [pc EXCEPT ![c] = "cycle"]
           /\ Remember(c, [Blank EXCEPT !.kind = "auto-cycle"])
  <2>1. [Blank EXCEPT !.kind = "auto-cycle"] \in Memories
    BY BlankKind DEF AllKinds
  <2>2. "cycle" \in Steps
    BY DEF Steps
  <2> QED
    BY <1>2, <2>1, <2>2, MoveTo DEF Remember
<1> QED BY <1>1, <1>2 DEF Done

\* Every step of a command moves that command, to a step and a memory.
LEMMA CommandMoves == ASSUME TypeOK, NEW c \in Commands, CommandStep(c)
                      PROVE  Moved(c)
<1>0. /\ mem[c] \in Memories /\ clock \in Instant /\ opened \subseteq Tickets
      /\ Pnls \subseteq Int
  BY LedgerAssumption DEF TypeOK
<1>1. CASE Begin(c)
  <2>1. PICK k \in Kinds, t \in Tickets, i \in Instant, p \in Pnls :
          /\ Go(c, "idle", IF k = "auto-cycle" THEN "cycle" ELSE k)
          /\ Remember(c, [Blank EXCEPT
               !.kind = k,
               !.ticket = IF k \in {"ticket", "enter", "settle", "auto-enter",
                                    "auto-exit"} THEN {t} ELSE {},
               !.at = IF k \in {"enter", "settle"} THEN i ELSE -1,
               !.pnl = IF k = "settle" THEN p ELSE 0])
    BY <1>1 DEF Begin
  <2> DEFINE T == IF k \in {"ticket", "enter", "settle", "auto-enter",
                            "auto-exit"} THEN {t} ELSE {}
             I == IF k \in {"enter", "settle"} THEN i ELSE -1
             V == IF k = "settle" THEN p ELSE 0
             P == IF k = "auto-cycle" THEN "cycle" ELSE k
  <2>2. k \in AllKinds /\ T \in {{}} \cup {{u} : u \in Tickets}
    BY LedgerAssumption
  <2>3. I \in Instant \cup {-1} /\ V \in Pnls \cup {0}
    OBVIOUS
  <2>4. P \in Steps
    BY <2>2 DEF AllKinds, Steps
  <2> HIDE DEF T, I, V, P
  <2>5. [Blank EXCEPT !.kind = k, !.ticket = T, !.at = I, !.pnl = V]
          \in Memories
    BY <2>2, <2>3, BlankTyped DEF Memories
  <2> QED
    BY <2>1, <2>4, <2>5, MoveTo DEF Go, Remember, T, I, V, P
<1>2. CASE Stop(c)
  BY <1>2, EndMoves DEF Stop
<1>3. CASE ReadStart(c)
  <2>1. [mem[c] EXCEPT !.at = clock] \in Memories
    BY <1>0 DEF Memories, Running
  <2>2. "write start" \in Steps
    BY DEF Steps, WriteSteps
  <2> QED
    BY <1>3, <2>1, <2>2, MoveTo DEF ReadStart, Go, Remember
<1>4. CASE WriteStart(c)
  BY <1>4, EndMoves DEF WriteStart
<1>5. CASE ReadComplete(c)
  BY <1>5, <1>0, MoveTo, BlankTyped DEF ReadComplete, Go, Steps, WriteSteps
<1>6. CASE ListPositions(c)
  <2>1. [mem[c] EXCEPT !.todo = opened] \in Memories
    BY <1>0 DEF Memories, Running
  <2>2. "check" \in Steps
    BY DEF Steps, WriteSteps
  <2> QED
    BY <1>6, <2>1, <2>2, MoveTo DEF ListPositions, Go, Remember
<1>7. CASE ValidateCompletionPositionJournal(c)
  BY <1>7, <1>0, MoveTo, BlankTyped DEF ValidateCompletionPositionJournal, Go,
     Steps, WriteSteps
<1>8. CASE WriteComplete(c)
  BY <1>8, <1>0, MoveTo, BlankTyped DEF WriteComplete, Leave, Remember, Steps,
     WriteSteps
<1>9. CASE ReadCancel(c)
  <2>1. [mem[c] EXCEPT !.seq = IF Running THEN 2 ELSE 1] \in Memories
    <3>1. (IF Running THEN 2 ELSE 1) \in Nat
      OBVIOUS
    <3> QED
      BY <1>0, <3>1 DEF Memories
  <2>2. "write cancel" \in Steps
    BY DEF Steps, WriteSteps
  <2> QED
    BY <1>9, <2>1, <2>2, MoveTo DEF ReadCancel, Go, Remember
<1>10. CASE WriteCancel(c)
  BY <1>10, <1>0, MoveTo, BlankTyped DEF WriteCancel, Leave, Remember, Steps,
     WriteSteps
<1>11. CASE CheckTicket(c)
  <2>1. [mem[c] EXCEPT !.at = clock] \in Memories
    BY <1>0 DEF Memories, Running
  <2>2. "write ticket" \in Steps
    BY DEF Steps, WriteSteps
  <2> QED
    BY <1>11, <2>1, <2>2, MoveTo DEF CheckTicket, Go, Remember
<1>12. CASE WriteTicket(c)
  BY <1>12, EndMoves DEF WriteTicket
<1>13. CASE CheckFill(c)
  BY <1>13, <1>0, MoveTo, BlankTyped DEF CheckFill, RequireRunning, Go, Steps,
     WriteSteps
<1>14. CASE FindFill(c)
  <2>1. PICK t \in Tickets :
          IF Filled(t)
          THEN /\ Go(c, "find fill", "write fill")
               /\ Remember(c, [mem[c] EXCEPT !.recorded = fill[t].recorded])
          ELSE Go(c, "find fill", "gate") /\ UNCHANGED mem
    BY <1>14 DEF FindFill
  <2>2. fill[t].recorded \in Instant \cup {-1}
    BY DEF TypeOK, Rows
  <2>3. [mem[c] EXCEPT !.recorded = fill[t].recorded] \in Memories
    BY <1>0, <2>2 DEF Memories
  <2>4. "write fill" \in Steps /\ "gate" \in Steps
    BY DEF Steps, WriteSteps
  <2> QED
    BY <1>0, <2>1, <2>3, <2>4, MoveTo DEF Go, Remember
<1>15. CASE RequireInactiveKillSwitch(c)
  <2>1. [mem[c] EXCEPT !.recorded = clock] \in Memories
    BY <1>0 DEF Memories, Running
  <2>2. "write fill" \in Steps
    BY DEF Steps, WriteSteps
  <2> QED
    BY <1>15, <2>1, <2>2, MoveTo DEF RequireInactiveKillSwitch, Go, Remember
<1>16. CASE WriteFill(c)
  BY <1>16, <1>0, MoveTo, BlankTyped DEF WriteFill, Go, Steps, WriteSteps
<1>17. CASE CheckOpen(c)
  BY <1>17, <1>0, MoveTo, BlankTyped DEF CheckOpen, RequireRunning, Go, Steps,
     WriteSteps
<1>18. CASE WritePosition(c)
  BY <1>18, DoneMoves DEF WritePosition
<1>19. CASE CheckClose(c)
  BY <1>19, <1>0, MoveTo, BlankTyped DEF CheckClose, RequireRunning, Go, Steps,
     WriteSteps
<1>20. CASE StampClose(c)
  <2>1. [mem[c] EXCEPT !.recorded = clock] \in Memories
    BY <1>0 DEF Memories, Running
  <2>2. "write close" \in Steps
    BY DEF Steps, WriteSteps
  <2> QED
    BY <1>20, <2>1, <2>2, MoveTo DEF StampClose, Go, Remember
<1>21. CASE WriteClose(c)
  BY <1>21, <1>0, MoveTo, BlankTyped DEF WriteClose, Go, Steps, WriteSteps
<1>22. CASE CloseConflict(c)
  BY <1>22, EndMoves DEF CloseConflict
<1>23. CASE CheckAccount(c)
  BY <1>23, <1>0, MoveTo, BlankTyped DEF CheckAccount, RequireRunning, Go,
     Steps, WriteSteps
<1>24. CASE FindEvent(c)
  <2>1. Done(c) \/ (Go(c, "find event", "read ledger") /\ UNCHANGED mem)
    BY <1>24 DEF FindEvent
  <2>2. "read ledger" \in Steps
    BY DEF Steps, WriteSteps
  <2> QED
    BY <1>0, <2>1, <2>2, DoneMoves, MoveTo DEF Go
<1>25. CASE ReadLedger(c)
  <2>1. PICK last \in ledger \cup {Opening} :
          /\ Go(c, "read ledger", "write event")
          /\ Remember(c, [mem[c] EXCEPT !.seq = last.seq + 1,
                                        !.before = last.after])
    BY <1>25 DEF ReadLedger
  <2>2. last.seq + 1 \in Nat /\ last.after \in Int
    BY LedgerAssumption DEF TypeOK, Events, Opening
  <2>3. [mem[c] EXCEPT !.seq = last.seq + 1, !.before = last.after] \in Memories
    BY <1>0, <2>2 DEF Memories
  <2>4. "write event" \in Steps
    BY DEF Steps, WriteSteps
  <2> QED
    BY <2>1, <2>3, <2>4, MoveTo DEF Go, Remember
<1>26. CASE WriteEvent(c)
  BY <1>26, DoneMoves DEF WriteEvent
<1>27. CASE CheckAutoEnter(c)
  BY <1>27, <1>0, MoveTo, BlankTyped DEF CheckAutoEnter, RequireRunning, Go,
     Steps, WriteSteps
<1>28. CASE FindEntry(c)
  BY <1>28, <1>0, MoveTo, BlankTyped DEF FindEntry, Go, Steps, WriteSteps
<1>29. CASE EntryGate(c)
  BY <1>29, <1>0, MoveTo, BlankTyped DEF EntryGate, Go, Steps, WriteSteps
<1>30. CASE EntryQuote(c)
  <2>1. PICK i \in 0 .. clock : Remember(c, [mem[c] EXCEPT !.at = i])
    BY <1>30 DEF EntryQuote
  <2>2. i \in Instant
    BY <1>0, LedgerAssumption DEF Instant
  <2>3. [mem[c] EXCEPT !.at = i] \in Memories
    BY <1>0, <2>2 DEF Memories
  <2>4. "enter" \in Steps
    BY DEF Steps
  <2> QED
    BY <1>30, <2>1, <2>3, <2>4, MoveTo DEF EntryQuote, Go, Remember
<1>31. CASE CheckAutoExit(c)
  BY <1>31, <1>0, MoveTo, BlankTyped DEF CheckAutoExit, Steps, WriteSteps
<1>32. CASE ExitTriggered(c)
  <2>1. PICK i \in 0 .. clock, p \in Pnls :
          Remember(c, [mem[c] EXCEPT !.at = i, !.pnl = p])
    BY <1>32 DEF ExitTriggered
  <2>2. i \in Instant
    BY <1>0, LedgerAssumption DEF Instant
  <2>3. [mem[c] EXCEPT !.at = i, !.pnl = p] \in Memories
    BY <1>0, <2>2 DEF Memories
  <2>4. "settle" \in Steps
    BY DEF Steps
  <2> QED
    BY <1>32, <2>1, <2>3, <2>4, MoveTo DEF ExitTriggered, Go, Remember
<1>33. CASE NotTriggered(c)
  <2>1. \/ End(c)
        \/ /\ Go(c, "exit quote", "visit")
           /\ Remember(c, [mem[c] EXCEPT !.ticket = {}, !.active = TRUE])
    BY <1>33 DEF NotTriggered
  <2>2. [mem[c] EXCEPT !.ticket = {}, !.active = TRUE] \in Memories
    BY <1>0 DEF Memories
  <2>3. "visit" \in Steps
    BY DEF Steps
  <2> QED
    BY <2>1, <2>2, <2>3, EndMoves, MoveTo DEF Go, Remember
<1>34. CASE CheckCycle(c)
  BY <1>34, <1>0, MoveTo, BlankTyped DEF CheckCycle, RequireRunning, Go, Steps,
     WriteSteps
<1>35. CASE ScanPositions(c)
  <2>1. PICK seen \in SUBSET opened :
          /\ Go(c, "scan", "visit")
          /\ Remember(c, [mem[c] EXCEPT !.todo = seen])
    BY <1>35 DEF ScanPositions, Oldest
  <2>2. [mem[c] EXCEPT !.todo = seen] \in Memories
    BY <1>0 DEF Memories
  <2>3. "visit" \in Steps
    BY DEF Steps, WriteSteps
  <2> QED
    BY <2>1, <2>2, <2>3, MoveTo DEF Go, Remember
<1>36. CASE Visit(c)
  <2>1. PICK t \in mem[c].todo :
          /\ Go(c, "visit", CASE ~Closed(t) -> "exit quote"
                              [] Settled(t) -> "visit"
                              [] OTHER -> "account")
          /\ Remember(c, [mem[c] EXCEPT
               !.todo = @ \ {t}, !.ticket = IF Settled(t) THEN {} ELSE {t}])
    BY <1>36 DEF Visit
  <2> DEFINE k == IF Settled(t) THEN {} ELSE {t}
             T == mem[c].todo \ {t}
  <2>2. T \in SUBSET Tickets /\ t \in Tickets
    BY <1>0 DEF Memories
  <2>3. k \in {{}} \cup {{u} : u \in Tickets}
    BY <2>2
  <2> HIDE DEF k, T
  <2>4. [mem[c] EXCEPT !.todo = T, !.ticket = k] \in Memories
    BY <1>0, <2>2, <2>3 DEF Memories
  <2>5. mem' = [mem EXCEPT ![c] = [mem[c] EXCEPT !.todo = T, !.ticket = k]]
    BY <2>1 DEF Remember, k, T
  <2>6. \E p \in Steps : pc' = [pc EXCEPT ![c] = p]
    BY <2>1 DEF Go, Settled, Steps
  <2> QED
    BY <2>4, <2>5, <2>6, MoveTo
<1>37. CASE EndOfScan(c)
  <2>1. Done(c) \/ (Go(c, "visit", "pending") /\ UNCHANGED mem)
    BY <1>37 DEF EndOfScan
  <2>2. "pending" \in Steps
    BY DEF Steps
  <2> QED
    BY <1>0, <2>1, <2>2, DoneMoves, MoveTo DEF Go
<1>38. CASE PickPending(c)
  <2>1. \/ Done(c)
        \/ \E t \in Tickets : /\ Go(c, "pending", "auto-enter")
                             /\ Remember(c, [mem[c] EXCEPT !.ticket = {t}])
    BY <1>38 DEF PickPending, Oldest, Written
  <2>2. \A t \in Tickets : [mem[c] EXCEPT !.ticket = {t}] \in Memories
    BY <1>0 DEF Memories
  <2>3. "auto-enter" \in Steps
    BY DEF Steps
  <2> QED
    BY <2>1, <2>2, <2>3, DoneMoves, MoveTo DEF Go, Remember
<1> QED BY <1>1, <1>2, <1>3, <1>4, <1>5, <1>6, <1>7, <1>8, <1>9, <1>10, <1>11,
         <1>12, <1>13, <1>14, <1>15, <1>16, <1>17, <1>18, <1>19, <1>20, <1>21,
         <1>22, <1>23, <1>24, <1>25, <1>26, <1>27, <1>28, <1>29, <1>30, <1>31,
         <1>32, <1>33, <1>34, <1>35, <1>36, <1>37, <1>38 DEF CommandStep

\* Each table is written by the commands that own it, and the clock and the
\* Kill Switch by none.
LEMMA CommandFrame ==
  ASSUME NEW c \in Commands, CommandStep(c)
  PROVE  /\ UNCHANGED <<clock, killSwitch>>
         /\ UNCHANGED <<status, startedAt>>
              \/ WriteStart(c) \/ WriteComplete(c) \/ WriteCancel(c)
         /\ created' = created \/ WriteTicket(c)
         /\ fill' = fill \/ WriteFill(c)
         /\ opened' = opened \/ WritePosition(c)
         /\ close' = close \/ WriteClose(c)
         /\ ledger' = ledger \/ WriteEvent(c)
         /\ refused' = refused \/ CloseConflict(c)
<1> USE DEF rows, history, Local
<1>1. CASE Begin(c)
  BY <1>1 DEF Begin
<1>2. CASE Stop(c)
  BY <1>2 DEF Stop
<1>3. CASE ReadStart(c)
  BY <1>3 DEF ReadStart
<1>4. CASE WriteStart(c)
  BY <1>4 DEF WriteStart
<1>5. CASE ReadComplete(c)
  BY <1>5 DEF ReadComplete
<1>6. CASE ListPositions(c)
  BY <1>6 DEF ListPositions
<1>7. CASE ValidateCompletionPositionJournal(c)
  BY <1>7 DEF ValidateCompletionPositionJournal
<1>8. CASE WriteComplete(c)
  BY <1>8 DEF WriteComplete, Leave
<1>9. CASE ReadCancel(c)
  BY <1>9 DEF ReadCancel
<1>10. CASE WriteCancel(c)
  BY <1>10 DEF WriteCancel, Leave
<1>11. CASE CheckTicket(c)
  BY <1>11 DEF CheckTicket
<1>12. CASE WriteTicket(c)
  BY <1>12 DEF WriteTicket
<1>13. CASE CheckFill(c)
  BY <1>13 DEF CheckFill, RequireRunning
<1>14. CASE FindFill(c)
  BY <1>14 DEF FindFill
<1>15. CASE RequireInactiveKillSwitch(c)
  BY <1>15 DEF RequireInactiveKillSwitch
<1>16. CASE WriteFill(c)
  BY <1>16 DEF WriteFill
<1>17. CASE CheckOpen(c)
  BY <1>17 DEF CheckOpen, RequireRunning
<1>18. CASE WritePosition(c)
  BY <1>18 DEF WritePosition
<1>19. CASE CheckClose(c)
  BY <1>19 DEF CheckClose, RequireRunning
<1>20. CASE StampClose(c)
  BY <1>20 DEF StampClose
<1>21. CASE WriteClose(c)
  BY <1>21 DEF WriteClose
<1>22. CASE CloseConflict(c)
  BY <1>22 DEF CloseConflict
<1>23. CASE CheckAccount(c)
  BY <1>23 DEF CheckAccount, RequireRunning
<1>24. CASE FindEvent(c)
  BY <1>24 DEF FindEvent
<1>25. CASE ReadLedger(c)
  BY <1>25 DEF ReadLedger
<1>26. CASE WriteEvent(c)
  BY <1>26 DEF WriteEvent
<1>27. CASE CheckAutoEnter(c)
  BY <1>27 DEF CheckAutoEnter, RequireRunning
<1>28. CASE FindEntry(c)
  BY <1>28 DEF FindEntry
<1>29. CASE EntryGate(c)
  BY <1>29 DEF EntryGate
<1>30. CASE EntryQuote(c)
  BY <1>30 DEF EntryQuote
<1>31. CASE CheckAutoExit(c)
  BY <1>31 DEF CheckAutoExit
<1>32. CASE ExitTriggered(c)
  BY <1>32 DEF ExitTriggered
<1>33. CASE NotTriggered(c)
  BY <1>33 DEF NotTriggered
<1>34. CASE CheckCycle(c)
  BY <1>34 DEF CheckCycle, RequireRunning
<1>35. CASE ScanPositions(c)
  BY <1>35 DEF ScanPositions
<1>36. CASE Visit(c)
  BY <1>36 DEF Visit
<1>37. CASE EndOfScan(c)
  BY <1>37 DEF EndOfScan
<1>38. CASE PickPending(c)
  BY <1>38 DEF PickPending
<1> QED BY <1>1, <1>2, <1>3, <1>4, <1>5, <1>6, <1>7, <1>8, <1>9, <1>10, <1>11,
         <1>12, <1>13, <1>14, <1>15, <1>16, <1>17, <1>18, <1>19, <1>20, <1>21,
         <1>22, <1>23, <1>24, <1>25, <1>26, <1>27, <1>28, <1>29, <1>30, <1>31,
         <1>32, <1>33, <1>34, <1>35, <1>36, <1>37, <1>38 DEF CommandStep

\* The lock and the histories stay sets of commands.
LEMMA CommandSets ==
  ASSUME TypeOK, NEW c \in Commands, CommandStep(c)
  PROVE  /\ lock' \subseteq Commands /\ exposed' \subseteq Commands
         /\ late' \subseteq Commands /\ refused' \subseteq Tickets
<1>0. /\ lock \subseteq Commands /\ exposed \subseteq Commands
      /\ late \subseteq Commands /\ refused \subseteq Tickets
  BY DEF TypeOK
<1> USE <1>0 DEF rows, history, Local
<1>1. CASE Begin(c)
  BY <1>1 DEF Begin, TakeLock
<1>2. CASE Stop(c)
  BY <1>2 DEF Stop, End
<1>3. CASE ReadStart(c)
  BY <1>3 DEF ReadStart
<1>4. CASE WriteStart(c)
  BY <1>4 DEF WriteStart, End
<1>5. CASE ReadComplete(c)
  BY <1>5 DEF ReadComplete
<1>6. CASE ListPositions(c)
  BY <1>6 DEF ListPositions
<1>7. CASE ValidateCompletionPositionJournal(c)
  BY <1>7 DEF ValidateCompletionPositionJournal
<1>8. CASE WriteComplete(c)
  BY <1>8 DEF WriteComplete, Leave
<1>9. CASE ReadCancel(c)
  BY <1>9 DEF ReadCancel
<1>10. CASE WriteCancel(c)
  BY <1>10 DEF WriteCancel, Leave
<1>11. CASE CheckTicket(c)
  BY <1>11 DEF CheckTicket
<1>12. CASE WriteTicket(c)
  BY <1>12 DEF WriteTicket, End
<1>13. CASE CheckFill(c)
  BY <1>13 DEF CheckFill, RequireRunning
<1>14. CASE FindFill(c)
  BY <1>14 DEF FindFill
<1>15. CASE RequireInactiveKillSwitch(c)
  BY <1>15 DEF RequireInactiveKillSwitch
<1>16. CASE WriteFill(c)
  BY <1>16 DEF WriteFill
<1>17. CASE CheckOpen(c)
  BY <1>17 DEF CheckOpen, RequireRunning
<1>18. CASE WritePosition(c)
  BY <1>18 DEF WritePosition, Done, End
<1>19. CASE CheckClose(c)
  BY <1>19 DEF CheckClose, RequireRunning
<1>20. CASE StampClose(c)
  BY <1>20 DEF StampClose
<1>21. CASE WriteClose(c)
  BY <1>21 DEF WriteClose
<1>22. CASE CloseConflict(c)
  BY <1>22 DEF CloseConflict, End
<1>23. CASE CheckAccount(c)
  BY <1>23 DEF CheckAccount, RequireRunning
<1>24. CASE FindEvent(c)
  BY <1>24 DEF FindEvent, Done, End
<1>25. CASE ReadLedger(c)
  BY <1>25 DEF ReadLedger
<1>26. CASE WriteEvent(c)
  BY <1>26 DEF WriteEvent, Done, End
<1>27. CASE CheckAutoEnter(c)
  BY <1>27 DEF CheckAutoEnter, RequireRunning
<1>28. CASE FindEntry(c)
  BY <1>28 DEF FindEntry
<1>29. CASE EntryGate(c)
  BY <1>29 DEF EntryGate
<1>30. CASE EntryQuote(c)
  BY <1>30 DEF EntryQuote
<1>31. CASE CheckAutoExit(c)
  BY <1>31 DEF CheckAutoExit
<1>32. CASE ExitTriggered(c)
  BY <1>32 DEF ExitTriggered
<1>33. CASE NotTriggered(c)
  BY <1>33 DEF NotTriggered, End
<1>34. CASE CheckCycle(c)
  BY <1>34 DEF CheckCycle, RequireRunning
<1>35. CASE ScanPositions(c)
  BY <1>35 DEF ScanPositions
<1>36. CASE Visit(c)
  BY <1>36 DEF Visit
<1>37. CASE EndOfScan(c)
  BY <1>37 DEF EndOfScan, Done, End
<1>38. CASE PickPending(c)
  BY <1>38 DEF PickPending, Done, End
<1> QED BY <1>1, <1>2, <1>3, <1>4, <1>5, <1>6, <1>7, <1>8, <1>9, <1>10, <1>11,
         <1>12, <1>13, <1>14, <1>15, <1>16, <1>17, <1>18, <1>19, <1>20, <1>21,
         <1>22, <1>23, <1>24, <1>25, <1>26, <1>27, <1>28, <1>29, <1>30, <1>31,
         <1>32, <1>33, <1>34, <1>35, <1>36, <1>37, <1>38 DEF CommandStep

\* Where a command that is about to start the validation, to enter, to settle,
\* to account a close or to write an event comes from.
LEMMA ArrivesAt ==
  ASSUME TypeOK, NEW c \in Commands, CommandStep(c)
  PROVE  /\ pc'[c] = "write start" => ReadStart(c)
         /\ pc'[c] = "write fill" => FindFill(c) \/ RequireInactiveKillSwitch(c)
         /\ pc'[c] = "write event" => ReadLedger(c)
         /\ pc'[c] = "enter" => Begin(c) \/ EntryQuote(c)
         /\ pc'[c] = "find fill" => CheckFill(c)
         /\ pc'[c] = "gate" => FindFill(c)
         /\ pc'[c] = "open" => WriteFill(c) \/ FindEntry(c)
         /\ pc'[c] = "write position" => CheckOpen(c)
         /\ pc'[c] \in {"settle", "stamp close", "write close"}
              => \/ Begin(c) \/ ExitTriggered(c) \/ CheckClose(c)
                 \/ StampClose(c)
         /\ pc'[c] \in {"account", "find event", "read ledger"}
              => \/ WriteClose(c) \/ CheckAutoExit(c) \/ Visit(c)
                 \/ /\ CheckAccount(c) \/ FindEvent(c)
                    /\ pc[c] \in {"account", "find event"}
                    /\ mem' = mem
<1>0. pc \in [Commands -> Steps]
  BY DEF TypeOK
<1> USE <1>0
<1>1. CASE Begin(c)
  BY <1>1, LedgerAssumption DEF Begin, Go, AllKinds
<1>2. CASE Stop(c)
  BY <1>2 DEF Stop, End
<1>3. CASE ReadStart(c)
  BY <1>3 DEF ReadStart, Go
<1>4. CASE WriteStart(c)
  BY <1>4 DEF WriteStart, End
<1>5. CASE ReadComplete(c)
  BY <1>5 DEF ReadComplete, Go
<1>6. CASE ListPositions(c)
  BY <1>6 DEF ListPositions, Go
<1>7. CASE ValidateCompletionPositionJournal(c)
  BY <1>7 DEF ValidateCompletionPositionJournal, Go
<1>8. CASE WriteComplete(c)
  BY <1>8 DEF WriteComplete, Leave
<1>9. CASE ReadCancel(c)
  BY <1>9 DEF ReadCancel, Go
<1>10. CASE WriteCancel(c)
  BY <1>10 DEF WriteCancel, Leave
<1>11. CASE CheckTicket(c)
  BY <1>11 DEF CheckTicket, Go
<1>12. CASE WriteTicket(c)
  BY <1>12 DEF WriteTicket, End
<1>13. CASE CheckFill(c)
  BY <1>13 DEF CheckFill, RequireRunning, Go
<1>14. CASE FindFill(c)
  BY <1>14 DEF FindFill, Go
<1>15. CASE RequireInactiveKillSwitch(c)
  BY <1>15 DEF RequireInactiveKillSwitch, Go
<1>16. CASE WriteFill(c)
  BY <1>16 DEF WriteFill, Go
<1>17. CASE CheckOpen(c)
  BY <1>17 DEF CheckOpen, RequireRunning, Go
<1>18. CASE WritePosition(c)
  BY <1>18 DEF WritePosition, Done, End
<1>19. CASE CheckClose(c)
  BY <1>19 DEF CheckClose, RequireRunning, Go
<1>20. CASE StampClose(c)
  BY <1>20 DEF StampClose, Go
<1>21. CASE WriteClose(c)
  BY <1>21 DEF WriteClose, Go
<1>22. CASE CloseConflict(c)
  BY <1>22 DEF CloseConflict, End
<1>23. CASE CheckAccount(c)
  BY <1>23 DEF CheckAccount, RequireRunning, Go
<1>24. CASE FindEvent(c)
  BY <1>24 DEF FindEvent, Done, End, Go
<1>25. CASE ReadLedger(c)
  BY <1>25 DEF ReadLedger, Go
<1>26. CASE WriteEvent(c)
  BY <1>26 DEF WriteEvent, Done, End
<1>27. CASE CheckAutoEnter(c)
  BY <1>27 DEF CheckAutoEnter, RequireRunning, Go
<1>28. CASE FindEntry(c)
  BY <1>28 DEF FindEntry, Go
<1>29. CASE EntryGate(c)
  BY <1>29 DEF EntryGate, Go
<1>30. CASE EntryQuote(c)
  BY <1>30 DEF EntryQuote, Go
<1>31. CASE CheckAutoExit(c)
  BY <1>31 DEF CheckAutoExit
<1>32. CASE ExitTriggered(c)
  BY <1>32 DEF ExitTriggered, Go
<1>33. CASE NotTriggered(c)
  BY <1>33 DEF NotTriggered, Go, End
<1>34. CASE CheckCycle(c)
  BY <1>34 DEF CheckCycle, RequireRunning, Go
<1>35. CASE ScanPositions(c)
  BY <1>35 DEF ScanPositions, Go
<1>36. CASE Visit(c)
  BY <1>36 DEF Visit, Go
<1>37. CASE EndOfScan(c)
  BY <1>37 DEF EndOfScan, Done, End, Go
<1>38. CASE PickPending(c)
  BY <1>38 DEF PickPending, Done, End, Go
<1> QED BY <1>1, <1>2, <1>3, <1>4, <1>5, <1>6, <1>7, <1>8, <1>9, <1>10, <1>11,
         <1>12, <1>13, <1>14, <1>15, <1>16, <1>17, <1>18, <1>19, <1>20, <1>21,
         <1>22, <1>23, <1>24, <1>25, <1>26, <1>27, <1>28, <1>29, <1>30, <1>31,
         <1>32, <1>33, <1>34, <1>35, <1>36, <1>37, <1>38 DEF CommandStep

\* What a command is about to write when it writes an event: it follows the
\* last one.
LEMMA EventWritten ==
  ASSUME IInv, NEW c \in Commands, WriteEvent(c)
  PROVE  \E t \in Tickets, last \in ledger \cup {Opening} :
           /\ Closed(t) /\ ~Accounted(t) /\ close[t].at \in Instant
           /\ close[t].at >= last.at
           /\ last.seq \in Nat /\ last.after \in Nat \ {0}
           /\ last.after + close[t].pnl \in Nat
           /\ \A d \in ledger : d.seq <= last.seq
           /\ ledger' = ledger \cup
                {[ticket |-> t, seq |-> last.seq + 1, before |-> last.after,
                  after |-> last.after + close[t].pnl, at |-> close[t].at]}
           /\ close' = close
<1>1. pc[c] = "write event"
  BY DEF WriteEvent
<1>2. PICK u \in Tickets : Of(c, u) /\ Closed(u)
  BY <1>1 DEF IInv, AccountsClose
<1>3. PICK t \in Tickets, last \in ledger \cup {Opening} :
        /\ Of(c, t) /\ close[t].at >= last.at
        /\ mem[c].seq = last.seq + 1 /\ mem[c].before = last.after
        /\ last.after > 0 /\ last.after + close[t].pnl >= 0
        /\ \/ \A d \in ledger : d.seq <= last.seq
           \/ \E d \in ledger : d.seq = last.seq + 1
  BY <1>1 DEF IInv, NextEventKnown, Follows
<1>4. PICK v \in Tickets :
        /\ Of(c, v) /\ ~Accounted(v) /\ \A e \in ledger : e.seq # mem[c].seq
        /\ ledger' = ledger \cup
             {[ticket |-> v, seq |-> mem[c].seq, before |-> mem[c].before,
               after |-> mem[c].before + close[v].pnl, at |-> close[v].at]}
        /\ close' = close
  BY DEF WriteEvent
<1>5. t = u /\ v = t
  BY <1>2, <1>3, <1>4 DEF Of
<1>6. last.seq \in Nat /\ last.after \in Int
  BY LedgerAssumption DEF IInv, TypeOK, Events, Opening
<1>7. close[t].pnl \in Int /\ close[t].at \in Instant
  <2>1. close[t] \in Rows
    BY DEF IInv, TypeOK
  <2>2. close[t].pnl \in Pnls \cup {0}
    BY <2>1 DEF Rows
  <2>3. Pnls \subseteq Int
    BY LedgerAssumption
  <2>4. close[t].at \in Instant
    BY <1>2, <1>5 DEF IInv, ClosesAreWhole
  <2>5. \A x \in Pnls \cup {0} : x \in Int
    BY <2>3
  <2>6. close[t].pnl \in Int
    BY <2>2, <2>5
  <2> QED
    BY <2>4, <2>6
<1>8. last.after \in Nat \ {0} /\ last.after + close[t].pnl \in Nat
  BY <1>3, <1>6, <1>7
<1>9. \A d \in ledger : d.seq <= last.seq
  BY <1>3, <1>4
<1> QED
  BY <1>2, <1>3, <1>4, <1>5, <1>6, <1>7, <1>8, <1>9

\* A written close is dated after its fill and stays as it is.
LEMMA CloseWritten ==
  ASSUME IInv, NEW c \in Commands, WriteClose(c)
  PROVE  \E t \in Tickets, row \in Rows :
           /\ Of(c, t) /\ row.at \in Instant /\ row.pnl \in Pnls
           /\ close[t] \in {Absent, row}
           /\ close' = [close EXCEPT ![t] = row]
<1>1. PICK t \in Tickets :
        /\ Of(c, t) /\ ValidClose(c, t) /\ close[t] \in {Absent, CloseRow(c)}
        /\ close' = [close EXCEPT ![t] = CloseRow(c)]
  BY DEF WriteClose
<1>2. mem[c] \in Memories /\ fill[t] \in Rows
  BY DEF IInv, TypeOK
<1>3. CloseRow(c) \in Rows
  BY <1>2 DEF CloseRow, Memories, Rows
<1>4. CloseRow(c).at \in Instant
  <2>1. mem[c].at \in Instant \cup {-1} /\ fill[t].at \in Instant \cup {-1}
    BY <1>2 DEF Memories, Rows
  <2>2. mem[c].at # -1
    BY <1>1, <2>1, LedgerAssumption DEF ValidClose, Instant
  <2> QED
    BY <2>1, <2>2 DEF CloseRow
<1>5. CloseRow(c).pnl \in Pnls
  <2>1. pc[c] = "write close"
    BY DEF WriteClose, Go
  <2> QED
    BY <2>1 DEF IInv, ResultsKnown, CloseRow
<1> QED
  BY <1>1, <1>3, <1>4, <1>5

\* Closes are kept by every step.
LEMMA ClosesStay ==
  ASSUME IInv, [Next]_vars
  PROVE  /\ close' \in [Tickets -> Rows]
         /\ \A t \in Tickets : Closed(t) => close'[t] = close[t]
         /\ \A t \in Tickets : close'[t] # close[t] =>
              close'[t].at \in Instant /\ close'[t].pnl \in Pnls
<1>0. close \in [Tickets -> Rows]
  BY DEF IInv, TypeOK
<1>1. ASSUME NEW c \in Commands, CommandStep(c)
      PROVE  close' = close \/ WriteClose(c)
  BY <1>1, CommandFrame
<1>2. ASSUME NEW c \in Commands, WriteClose(c)
      PROVE  /\ close' \in [Tickets -> Rows]
             /\ \A t \in Tickets : Closed(t) => close'[t] = close[t]
             /\ \A t \in Tickets : close'[t] # close[t] =>
                  close'[t].at \in Instant /\ close'[t].pnl \in Pnls
  BY <1>0, <1>2, CloseWritten DEF Closed
<1>3. CASE close' = close
  BY <1>0, <1>3
<1>4. ToggleKillSwitch \/ Tick \/ UNCHANGED vars => close' = close
  BY DEF ToggleKillSwitch, Tick, vars, rows
<1> QED
  BY <1>1, <1>2, <1>3, <1>4 DEF Next

LEMMA InstantsAreInt == Instant \subseteq Int
BY LedgerAssumption DEF Instant

\* Every step keeps the types of the tables.
LEMMA TypeOKStep == IInv /\ [Next]_vars => TypeOK'
<1> SUFFICES ASSUME IInv, [Next]_vars PROVE TypeOK'
  OBVIOUS
<1>0. TypeOK
  BY DEF IInv
<1>1. CASE UNCHANGED vars
  BY <1>0, <1>1 DEF vars, rows, history, TypeOK
<1>2. CASE ToggleKillSwitch
  <2>1. exposed' \subseteq Commands /\ killSwitch' \in BOOLEAN
    BY <1>0, <1>2 DEF ToggleKillSwitch, TypeOK
  <2> QED
    BY <1>0, <1>2, <2>1 DEF ToggleKillSwitch, rows, TypeOK
<1>3. CASE Tick
  <2>1. clock' \in Instant
    BY <1>0, <1>3, LedgerAssumption DEF Tick, TypeOK, Instant
  <2> QED
    BY <1>0, <1>3, <2>1 DEF Tick, rows, history, TypeOK
<1>4. ASSUME NEW c \in Commands, CommandStep(c) PROVE TypeOK'
  <2>1. pc' \in [Commands -> Steps] /\ mem' \in [Commands -> Memories]
    BY <1>0, <1>4, CommandMoves DEF Moved
  <2>2. /\ lock' \subseteq Commands /\ exposed' \subseteq Commands
        /\ late' \subseteq Commands /\ refused' \subseteq Tickets
    BY <1>0, <1>4, CommandSets
  <2>3. UNCHANGED <<clock, killSwitch>>
    BY <1>4, CommandFrame
  <2>4. /\ status' \in {"PLANNED", "RUNNING", "COMPLETED", "CANCELLED"}
        /\ startedAt' \in Instant
    <3>1. CASE UNCHANGED <<status, startedAt>>
      BY <1>0, <3>1 DEF TypeOK
    <3>2. CASE WriteStart(c)
      <4>1. mem[c].at \in Instant \cup {-1}
        BY <1>0 DEF TypeOK, Memories
      <4>2. mem[c].at \in Instant
        BY <3>2, <4>1 DEF IInv, StartsAreDated, WriteStart
      <4> QED
        BY <3>2, <4>2 DEF WriteStart
    <3>3. CASE WriteComplete(c) \/ WriteCancel(c)
      BY <1>0, <3>3 DEF WriteComplete, WriteCancel, Leave, TypeOK
    <3> QED
      BY <1>4, <3>1, <3>2, <3>3, CommandFrame
  <2>5. created' \in [Tickets -> Instant \cup {-1}]
    <3>1. CASE WriteTicket(c)
      <4>1. mem[c].at \in Instant \cup {-1}
        BY <1>0 DEF TypeOK, Memories
      <4> QED
        BY <1>0, <3>1, <4>1 DEF WriteTicket, TypeOK
    <3> QED
      BY <1>0, <1>4, <3>1, CommandFrame DEF TypeOK
  <2>6. fill' \in [Tickets -> Rows]
    <3>1. CASE WriteFill(c)
      <4>1. PICK t \in Tickets : fill' = [fill EXCEPT ![t] =
              [at |-> mem[c].at, recorded |-> mem[c].recorded, pnl |-> 0]]
        BY <3>1 DEF WriteFill
      <4>2. [at |-> mem[c].at, recorded |-> mem[c].recorded, pnl |-> 0]
              \in Rows
        BY <1>0 DEF TypeOK, Memories, Rows
      <4> QED
        BY <1>0, <4>1, <4>2 DEF TypeOK
    <3> QED
      BY <1>0, <1>4, <3>1, CommandFrame DEF TypeOK
  <2>7. close' \in [Tickets -> Rows]
    BY <1>4, ClosesStay DEF Next
  <2>8. opened' \subseteq Tickets
    <3>1. CASE WritePosition(c)
      <4>1. mem[c].ticket \subseteq Tickets
        BY <1>0 DEF TypeOK, Memories
      <4> QED
        BY <1>0, <3>1, <4>1 DEF WritePosition, TypeOK
    <3> QED
      BY <1>0, <1>4, <3>1, CommandFrame DEF TypeOK
  <2>9. ledger' \subseteq Events
    <3>1. CASE WriteEvent(c)
      <4>1. PICK t \in Tickets, last \in ledger \cup {Opening} :
              /\ close[t].at \in Instant
              /\ last.seq \in Nat /\ last.after \in Nat \ {0}
              /\ last.after + close[t].pnl \in Nat
              /\ ledger' = ledger \cup
                   {[ticket |-> t, seq |-> last.seq + 1,
                     before |-> last.after,
                     after |-> last.after + close[t].pnl,
                     at |-> close[t].at]}
        BY <3>1, EventWritten
      <4>2. [ticket |-> t, seq |-> last.seq + 1, before |-> last.after,
             after |-> last.after + close[t].pnl, at |-> close[t].at]
              \in Events
        BY <4>1 DEF Events
      <4> QED
        BY <1>0, <4>1, <4>2 DEF TypeOK
    <3> QED
      BY <1>0, <1>4, <3>1, CommandFrame DEF TypeOK
  <2> QED
    BY <1>0, <2>1, <2>2, <2>3, <2>4, <2>5, <2>6, <2>7, <2>8, <2>9 DEF TypeOK
<1> QED
  BY <1>1, <1>2, <1>3, <1>4 DEF Next

\* Every step keeps the instants of pending starts and of closes.
LEMMA StartsAreDatedStep == IInv /\ [Next]_vars => StartsAreDated'
<1> SUFFICES ASSUME IInv, [Next]_vars PROVE StartsAreDated'
  OBVIOUS
<1>0. TypeOK /\ StartsAreDated
  BY DEF IInv
<1>1. CASE UNCHANGED <<pc, mem>>
  BY <1>0, <1>1 DEF StartsAreDated
<1>2. ASSUME NEW c \in Commands, CommandStep(c), NEW d \in Commands,
             pc'[d] = "write start"
      PROVE  mem'[d].at \in Instant
  <2>1. Moved(c)
    BY <1>0, <1>2, CommandMoves
  <2>2. CASE d # c
    BY <1>0, <1>2, <2>1, <2>2 DEF StartsAreDated, Moved
  <2>3. CASE ReadStart(c) /\ d = c
    <3>1. clock \in Instant /\ mem[c] \in Memories
      BY <1>0 DEF TypeOK
    <3>2. mem' = [mem EXCEPT ![c] = [mem[c] EXCEPT !.at = clock]]
      BY <2>3 DEF ReadStart, Remember
    <3> QED
      BY <1>0, <2>3, <3>1, <3>2 DEF TypeOK, Memories
  <2>4. pc'[c] = "write start" => ReadStart(c)
    BY <1>0, <1>2, ArrivesAt
  <2> QED
    BY <1>2, <2>2, <2>3, <2>4
<1> QED
  BY <1>1, <1>2 DEF Next, StartsAreDated, vars, rows, history,
     ToggleKillSwitch, Tick

LEMMA ClosesAreWholeStep == IInv /\ [Next]_vars => ClosesAreWhole'
<1> SUFFICES ASSUME IInv, [Next]_vars, NEW t \in Tickets, Closed(t)'
             PROVE  close'[t].at \in Instant /\ close'[t].pnl \in Pnls
  BY DEF ClosesAreWhole
<1>1. CASE close'[t] = close[t]
  BY <1>1 DEF IInv, ClosesAreWhole, Closed
<1>2. CASE close'[t] # close[t]
  BY <1>2, ClosesStay DEF IInv
<1> QED BY <1>1, <1>2

\* Reading the ledger leaves the last event and what follows it in memory.
LEMMA LedgerRead ==
  ASSUME TypeOK, NEW c \in Commands, ReadLedger(c)
  PROVE  \E s \in Nat, b \in Int :
           mem' = [mem EXCEPT ![c] = [mem[c] EXCEPT !.seq = s, !.before = b]]
<1>1. PICK last \in ledger \cup {Opening} :
        Remember(c, [mem[c] EXCEPT !.seq = last.seq + 1,
                                   !.before = last.after])
  BY DEF ReadLedger
<1>2. last.seq + 1 \in Nat /\ last.after \in Int
  BY LedgerAssumption DEF TypeOK, Events, Opening
<1> QED
  BY <1>1, <1>2 DEF Remember

LEMMA LedgerReadFollows ==
  ASSUME TypeOK, NEW c \in Commands, ReadLedger(c)
  PROVE  Follows(c)'
<1>1. PICK t \in Tickets, last \in ledger \cup {Opening} :
        /\ Of(c, t) /\ IsLast(last, ledger) /\ close[t].at >= last.at
        /\ last.after > 0 /\ last.after + close[t].pnl >= 0
        /\ Remember(c, [mem[c] EXCEPT !.seq = last.seq + 1,
                                      !.before = last.after])
  BY DEF ReadLedger
<1>2. UNCHANGED <<ledger, close>>
  BY DEF ReadLedger, Local, rows
<1>3. mem \in [Commands -> Memories] /\ mem[c] \in Memories
  BY DEF TypeOK
<1>4. /\ mem'[c].seq = last.seq + 1 /\ mem'[c].before = last.after
      /\ mem'[c].ticket = mem[c].ticket
  BY <1>1, <1>3 DEF Remember, Memories
<1>5. \A e \in ledger : e.seq <= last.seq
  BY <1>1 DEF IsLast
<1> QED
  BY <1>1, <1>2, <1>4, <1>5 DEF Follows, Of

\* The ledger changes by the writing of an event alone.
LEMMA LedgerFrame ==
  ASSUME [Next]_vars PROVE ledger' = ledger \/ \E c \in Commands : WriteEvent(c)
<1>1. ASSUME NEW c \in Commands, CommandStep(c)
      PROVE  ledger' = ledger \/ WriteEvent(c)
  BY <1>1, CommandFrame
<1> QED
  BY <1>1 DEF Next, ToggleKillSwitch, Tick, vars, rows

\* Every step keeps the link between a command that accounts and its close.
LEMMA AccountsCloseStep == IInv /\ [Next]_vars => AccountsClose'
<1> SUFFICES ASSUME IInv, [Next]_vars PROVE AccountsClose'
  OBVIOUS
<1>0. TypeOK /\ AccountsClose
  BY DEF IInv
<1>1. \A t \in Tickets : Closed(t) => Closed(t)'
  BY ClosesStay DEF Closed
<1>2. CASE UNCHANGED <<pc, mem>>
  BY <1>0, <1>1, <1>2 DEF AccountsClose, Of
<1>3. ASSUME NEW c \in Commands, CommandStep(c), NEW d \in Commands,
             pc'[d] \in {"account", "find event", "read ledger",
                         "write event"}
      PROVE  \E t \in Tickets : Of(d, t)' /\ Closed(t)'
  <2>1. Moved(c)
    BY <1>0, <1>3, CommandMoves
  <2>2. CASE d # c
    BY <1>0, <1>1, <1>3, <2>1, <2>2 DEF AccountsClose, Moved, Of
  <2>3. CASE d = c
    <3>0. mem \in [Commands -> Memories] /\ mem[c] \in Memories
      BY <1>0 DEF TypeOK
    <3>1. CASE WriteClose(c)
      <4>1. mem' = mem
        BY <3>1 DEF WriteClose
      <4>2. PICK t \in Tickets : Of(c, t) /\ close'[t].at \in Instant
        BY <1>0, <3>1, CloseWritten DEF TypeOK
      <4>3. close'[t] # Absent
        BY <4>2, LedgerAssumption DEF Absent, Instant
      <4> QED
        BY <2>3, <4>1, <4>2, <4>3 DEF Of, Closed
    <3>2. CASE CheckAutoExit(c)
      <4>1. PICK t \in mem[c].ticket :
              pc' = [pc EXCEPT ![c] = IF Closed(t) THEN "account"
                                                   ELSE "exit quote"]
        BY <3>2 DEF CheckAutoExit
      <4>2. mem[c].ticket \in {{}} \cup {{u} : u \in Tickets}
        BY <3>0 DEF Memories
      <4>3. t \in Tickets /\ mem[c].ticket = {t}
        BY <4>1, <4>2
      <4>4. Closed(t)
        BY <1>0, <1>3, <2>3, <4>1 DEF TypeOK
      <4>5. mem' = mem
        BY <3>2 DEF CheckAutoExit
      <4> QED
        BY <1>1, <2>3, <4>3, <4>4, <4>5 DEF Of
    <3>3. CASE Visit(c)
      <4>1. PICK t \in mem[c].todo :
              /\ Go(c, "visit", CASE ~Closed(t) -> "exit quote"
                                  [] Settled(t) -> "visit"
                                  [] OTHER -> "account")
              /\ Remember(c, [mem[c] EXCEPT
                   !.todo = @ \ {t}, !.ticket = IF Settled(t) THEN {}
                                                              ELSE {t}])
        BY <3>3 DEF Visit
      <4>2. t \in Tickets
        BY <3>0 DEF Memories
      <4>3. Closed(t) /\ ~Settled(t)
        BY <1>0, <1>3, <2>3, <4>1 DEF Go, TypeOK, Settled
      <4>4. mem'[c].ticket = {t}
        BY <3>0, <4>1, <4>3 DEF Remember, Memories
      <4> QED
        BY <1>1, <2>3, <4>2, <4>3, <4>4 DEF Of
    <3>4. CASE mem' = mem /\ pc[c] \in {"account", "find event", "read ledger"}
      BY <1>0, <1>1, <2>3, <3>4 DEF AccountsClose, Of
    <3>5. CASE ReadLedger(c)
      <4>1. pc[c] = "read ledger"
        BY <3>5 DEF ReadLedger, Go
      <4>2. PICK s \in Nat, b \in Int :
              mem' = [mem EXCEPT ![c] = [mem[c] EXCEPT !.seq = s,
                                                      !.before = b]]
        BY <1>0, <3>5, LedgerRead
      <4>3. mem'[c].ticket = mem[c].ticket
        BY <3>0, <4>2 DEF Memories
      <4> QED
        BY <1>0, <1>1, <2>3, <4>1, <4>3 DEF AccountsClose, Of
    <3> QED
      BY <1>0, <1>3, <2>3, <3>1, <3>2, <3>3, <3>4, <3>5, ArrivesAt
  <2> QED
    BY <2>2, <2>3
<1> QED
  BY <1>2, <1>3 DEF Next, AccountsClose, vars, rows, history,
     ToggleKillSwitch, Tick

\* Every step keeps the link between a computed event and the event it
\* follows: an event written in between takes the very number it had.
LEMMA NextEventKnownStep == IInv /\ [Next]_vars => NextEventKnown'
<1> SUFFICES ASSUME IInv, [Next]_vars PROVE NextEventKnown'
  OBVIOUS
<1>0. TypeOK /\ AccountsClose /\ NextEventKnown
  BY DEF IInv
<1>1. ASSUME NEW d \in Commands, pc[d] = "write event", pc'[d] = pc[d],
             mem'[d] = mem[d]
      PROVE  Follows(d)'
  <2>1. PICK t \in Tickets, last \in ledger \cup {Opening} :
          /\ Of(d, t) /\ close[t].at >= last.at
          /\ mem[d].seq = last.seq + 1 /\ mem[d].before = last.after
          /\ last.after > 0 /\ last.after + close[t].pnl >= 0
          /\ \/ \A e \in ledger : e.seq <= last.seq
             \/ \E e \in ledger : e.seq = last.seq + 1
    BY <1>0, <1>1 DEF NextEventKnown, Follows
  <2>2. close'[t] = close[t]
    <3>1. Closed(t)
      BY <1>0, <1>1, <2>1 DEF AccountsClose, Of
    <3> QED
      BY <3>1, ClosesStay
  <2>3. /\ last \in ledger' \cup {Opening}
        /\ \/ \A e \in ledger' : e.seq <= last.seq
           \/ \E e \in ledger' : e.seq = last.seq + 1
    <3>1. CASE ledger' = ledger
      BY <2>1, <3>1
    <3>2. ASSUME NEW c \in Commands, WriteEvent(c)
          PROVE  /\ last \in ledger' \cup {Opening}
                 /\ \/ \A e \in ledger' : e.seq <= last.seq
                    \/ \E e \in ledger' : e.seq = last.seq + 1
      <4>1. PICK u \in Tickets, prev \in ledger \cup {Opening} :
              /\ prev.seq \in Nat
              /\ \A e \in ledger : e.seq <= prev.seq
              /\ ledger' = ledger \cup
                   {[ticket |-> u, seq |-> prev.seq + 1,
                     before |-> prev.after,
                     after |-> prev.after + close[u].pnl,
                     at |-> close[u].at]}
        BY <3>2, EventWritten
      <4>2. last.seq \in Nat /\ last.seq <= prev.seq
        BY <1>0, <4>1 DEF TypeOK, Events, Opening
      <4>3. CASE \A e \in ledger : e.seq <= last.seq
        <5>1. prev.seq = last.seq
          BY <4>1, <4>2, <4>3 DEF Opening
        <5> QED
          BY <4>1, <5>1
      <4> QED
        BY <2>1, <4>1, <4>3
    <3> QED
      BY <3>1, <3>2, LedgerFrame
  <2> QED
    BY <1>1, <2>1, <2>2, <2>3 DEF Follows, Of
<1>2. CASE UNCHANGED <<pc, mem>>
  BY <1>1, <1>2 DEF NextEventKnown
<1>3. ASSUME NEW c \in Commands, CommandStep(c), NEW d \in Commands,
             pc'[d] = "write event"
      PROVE  Follows(d)'
  <2>1. Moved(c)
    BY <1>0, <1>3, CommandMoves
  <2>2. CASE d # c
    BY <1>1, <1>3, <2>1, <2>2 DEF Moved
  <2>3. CASE ReadLedger(c) /\ d = c
    BY <1>0, <2>3, LedgerReadFollows
  <2> QED
    BY <1>0, <1>3, <2>2, <2>3, ArrivesAt
<1> QED
  BY <1>2, <1>3 DEF Next, NextEventKnown, vars, rows, history,
     ToggleKillSwitch, Tick

\* Every step keeps the result that a settlement was given.
LEMMA ResultsKnownStep == IInv /\ [Next]_vars => ResultsKnown'
<1> SUFFICES ASSUME IInv, [Next]_vars PROVE ResultsKnown'
  OBVIOUS
<1>0. TypeOK /\ ResultsKnown
  BY DEF IInv
<1>1. CASE UNCHANGED <<pc, mem>>
  BY <1>0, <1>1 DEF ResultsKnown
<1>2. ASSUME NEW c \in Commands, CommandStep(c), NEW d \in Commands,
             pc'[d] \in {"settle", "stamp close", "write close"}
      PROVE  mem'[d].pnl \in Pnls
  <2>0. /\ mem \in [Commands -> Memories] /\ mem[c] \in Memories
        /\ pc \in [Commands -> Steps]
    BY <1>0 DEF TypeOK
  <2>1. Moved(c)
    BY <1>0, <1>2, CommandMoves
  <2>2. CASE d # c
    BY <1>0, <1>2, <2>1, <2>2 DEF ResultsKnown, Moved
  <2>3. CASE d = c
    <3>1. CASE Begin(c)
      <4>1. PICK k \in Kinds, t \in Tickets, i \in Instant, p \in Pnls :
              /\ pc' = [pc EXCEPT ![c] = IF k = "auto-cycle" THEN "cycle"
                                                             ELSE k]
              /\ mem' = [mem EXCEPT ![c] = [Blank EXCEPT
                   !.kind = k,
                   !.ticket = IF k \in {"ticket", "enter", "settle",
                                        "auto-enter", "auto-exit"}
                              THEN {t} ELSE {},
                   !.at = IF k \in {"enter", "settle"} THEN i ELSE -1,
                   !.pnl = IF k = "settle" THEN p ELSE 0]]
        BY <3>1 DEF Begin, Go, Remember
      <4>2. k \in AllKinds
        BY LedgerAssumption
      <4>3. k = "settle"
        BY <1>2, <2>0, <2>3, <4>1, <4>2 DEF AllKinds
      <4>4. mem'[c].pnl = p
        BY <2>0, <4>1, <4>3 DEF Blank
      <4> QED
        BY <2>3, <4>4
    <3>2. CASE ExitTriggered(c)
      <4>1. PICK i \in 0 .. clock, p \in Pnls :
              Remember(c, [mem[c] EXCEPT !.at = i, !.pnl = p])
        BY <3>2 DEF ExitTriggered
      <4>2. mem'[c].pnl = p
        BY <2>0, <4>1 DEF Remember, Memories
      <4> QED
        BY <2>3, <4>2
    <3>3. CASE CheckClose(c)
      BY <1>0, <2>3, <3>3 DEF CheckClose, RequireRunning, Go, ResultsKnown
    <3>4. CASE StampClose(c)
      <4>1. pc[c] = "stamp close"
        BY <3>4 DEF StampClose, Go
      <4>2. mem'[c].pnl = mem[c].pnl
        BY <2>0, <3>4 DEF StampClose, Remember, Memories
      <4> QED
        BY <1>0, <2>3, <4>1, <4>2 DEF ResultsKnown
    <3> QED
      BY <1>0, <1>2, <2>3, <3>1, <3>2, <3>3, <3>4, ArrivesAt
  <2> QED
    BY <2>2, <2>3
<1> QED
  BY <1>1, <1>2 DEF Next, ResultsKnown, vars, rows, history,
     ToggleKillSwitch, Tick

\* Every step keeps the ledger a valid sequence that is true to the closes.
LEMMA LedgerContinuousStep == IInv /\ [Next]_vars => LedgerContinuous'
<1> SUFFICES ASSUME IInv, [Next]_vars PROVE LedgerContinuous'
  OBVIOUS
<1>0. ledger \subseteq Events /\ LedgerContinuous
  BY DEF IInv, TypeOK
<1>1. ASSUME NEW e \in ledger
      PROVE  close'[e.ticket] = close[e.ticket] /\ Closed(e.ticket)'
  <2>1. e.ticket \in Tickets /\ Closed(e.ticket)
    BY <1>0 DEF Events, LedgerContinuous
  <2> QED
    BY <2>1, ClosesStay DEF Closed
<1>2. CASE ledger' = ledger
  BY <1>0, <1>1, <1>2 DEF LedgerContinuous, ValidateEquityEventSequence
<1>3. ASSUME NEW c \in Commands, WriteEvent(c) PROVE LedgerContinuous'
  <2>1. PICK t \in Tickets, last \in ledger \cup {Opening} :
          /\ Closed(t) /\ ~Accounted(t) /\ close[t].at >= last.at
          /\ last.seq \in Nat
          /\ \A d \in ledger : d.seq <= last.seq
          /\ ledger' = ledger \cup
               {[ticket |-> t, seq |-> last.seq + 1, before |-> last.after,
                 after |-> last.after + close[t].pnl, at |-> close[t].at]}
          /\ close' = close
    BY <1>3, EventWritten
  <2> DEFINE new == [ticket |-> t, seq |-> last.seq + 1,
                     before |-> last.after,
                     after |-> last.after + close[t].pnl,
                     at |-> close[t].at]
  <2>2. /\ new.ticket = t /\ new.seq = last.seq + 1
        /\ new.before = last.after /\ new.at = close[t].at
        /\ new.after = new.before + close[t].pnl
    OBVIOUS
  <2>3. ledger' = ledger \cup {new}
    BY <2>1
  <2> HIDE DEF new
  <2>4. \A d \in ledger : d.seq \in Nat \ {0} /\ d.seq # new.seq
                          /\ d.ticket # new.ticket
    BY <1>0, <2>1, <2>2 DEF Events, Accounted
  <2>5. IF new.seq = 1 THEN new.before = InitialBalance
        ELSE \E d \in ledger : /\ d.seq = new.seq - 1
                               /\ d.after = new.before /\ d.at <= new.at
    <3>1. CASE last \in ledger
      <4>1. last.seq # 0 /\ last.seq = new.seq - 1 /\ last.at <= new.at
        BY <1>0, <2>1, <2>2, <3>1, InstantsAreInt
           DEF Events, IInv, ClosesAreWhole
      <4> QED
        <5>1. last.seq \in Nat
          BY <2>1
        <5>2. new.seq # 1
          <6>1. \A n \in Nat : n # 0 => n + 1 # 1
            OBVIOUS
          <6>2. last.seq + 1 # 1
            BY <4>1, <5>1, <6>1
          <6> QED
            BY <2>2, <6>2
        <5> QED
          BY <2>2, <3>1, <4>1, <5>2
    <3>2. CASE last = Opening
      BY <2>2, <3>2 DEF Opening
    <3> QED
      BY <3>1, <3>2
  <2>6. ValidateEquityEventSequence(ledger')
    <3> SUFFICES ASSUME NEW e \in ledger'
                 PROVE  /\ IF e.seq = 1 THEN e.before = InitialBalance
                           ELSE \E d \in ledger' :
                                  /\ d.seq = e.seq - 1
                                  /\ d.after = e.before /\ d.at <= e.at
                        /\ \A d \in ledger' :
                             d.seq = e.seq \/ d.ticket = e.ticket => d = e
      BY DEF ValidateEquityEventSequence
    <3>1. CASE e \in ledger
      BY <1>0, <2>3, <2>4, <3>1
         DEF LedgerContinuous, ValidateEquityEventSequence
    <3>2. CASE e = new
      BY <2>3, <2>4, <2>5, <3>2
    <3> QED
      BY <2>3, <3>1, <3>2
  <2>7. \A e \in ledger' : /\ Closed(e.ticket)'
                           /\ e.after = e.before + close'[e.ticket].pnl
    BY <1>0, <2>1, <2>2, <2>3 DEF LedgerContinuous, Closed
  <2> QED
    BY <2>6, <2>7 DEF LedgerContinuous, ValidateEquityEventSequence
<1> QED
  BY <1>2, <1>3, LedgerFrame

\* A written fill stays as it is.
LEMMA FillsStay ==
  ASSUME TypeOK, NEW c \in Commands, CommandStep(c)
  PROVE  \A t \in Tickets : Filled(t) => Filled(t)' /\ fill'[t] = fill[t]
<1>1. CASE fill' = fill
  BY <1>1 DEF Filled
<1>2. CASE WriteFill(c)
  <2>1. PICK u \in Tickets :
          /\ fill[u] \in {Absent, [at |-> mem[c].at,
                           recorded |-> mem[c].recorded, pnl |-> 0]}
          /\ fill' = [fill EXCEPT ![u] = [at |-> mem[c].at,
                       recorded |-> mem[c].recorded, pnl |-> 0]]
    BY <1>2 DEF WriteFill
  <2> QED
    BY <2>1 DEF Filled, TypeOK
<1> QED
  BY <1>1, <1>2, CommandFrame

\* Every step keeps what an entry knows of its fill.
LEMMA EntriesAreFilledStep == IInv /\ [Next]_vars => EntriesAreFilled'
<1> SUFFICES ASSUME IInv, [Next]_vars PROVE EntriesAreFilled'
  OBVIOUS
<1>0. TypeOK /\ EntriesAreFilled
  BY DEF IInv
<1>1. CASE UNCHANGED <<fill, opened, pc, mem>>
  BY <1>0, <1>1 DEF EntriesAreFilled, Filled
<1>2. ASSUME NEW c \in Commands, CommandStep(c)
      PROVE  EntriesAreFilled'
  <2>0. /\ pc \in [Commands -> Steps] /\ mem \in [Commands -> Memories]
        /\ mem[c] \in Memories /\ opened \subseteq Tickets
        /\ fill \in [Tickets -> Rows] /\ clock \in Instant
    BY <1>0 DEF TypeOK
  <2>1. Moved(c)
    BY <1>0, <1>2, CommandMoves
  <2>2. \A t \in Tickets : Filled(t) => Filled(t)'
    BY <1>0, <1>2, FillsStay
  <2>3. ASSUME pc'[c] \in {"enter", "find fill", "gate", "write fill"}
        PROVE  mem'[c].at \in Instant
    <3>1. CASE Begin(c)
      <4>1. PICK k \in Kinds, t \in Tickets, i \in Instant, p \in Pnls :
              /\ pc' = [pc EXCEPT ![c] = IF k = "auto-cycle" THEN "cycle"
                                                             ELSE k]
              /\ mem' = [mem EXCEPT ![c] = [Blank EXCEPT
                   !.kind = k,
                   !.ticket = IF k \in {"ticket", "enter", "settle",
                                        "auto-enter", "auto-exit"}
                              THEN {t} ELSE {},
                   !.at = IF k \in {"enter", "settle"} THEN i ELSE -1,
                   !.pnl = IF k = "settle" THEN p ELSE 0]]
        BY <3>1 DEF Begin, Go, Remember
      <4>2. k \in AllKinds
        BY LedgerAssumption
      <4>3. k = "enter"
        BY <2>0, <2>3, <4>1, <4>2 DEF AllKinds
      <4>4. mem'[c].at = i
        BY <2>0, <4>1, <4>3 DEF Blank
      <4> QED
        BY <4>4
    <3>2. CASE EntryQuote(c)
      <4>1. PICK i \in 0 .. clock : Remember(c, [mem[c] EXCEPT !.at = i])
        BY <3>2 DEF EntryQuote
      <4>2. mem'[c].at = i
        BY <2>0, <4>1 DEF Remember, Memories
      <4>3. i \in Instant
        BY <2>0, <4>1, LedgerAssumption DEF Instant
      <4> QED
        BY <4>2, <4>3
    <3>3. CASE CheckFill(c)
      BY <1>0, <3>3 DEF CheckFill, RequireRunning, Go, EntriesAreFilled
    <3>4. CASE FindFill(c)
      <4>1. pc[c] = "find fill"
        BY <3>4 DEF FindFill, Go
      <4>2. mem'[c].at = mem[c].at
        BY <2>0, <3>4 DEF FindFill, Remember, Memories
      <4> QED
        BY <1>0, <4>1, <4>2 DEF EntriesAreFilled
    <3>5. CASE RequireInactiveKillSwitch(c)
      <4>1. pc[c] = "gate"
        BY <3>5 DEF RequireInactiveKillSwitch, Go
      <4>2. mem'[c].at = mem[c].at
        BY <2>0, <3>5 DEF RequireInactiveKillSwitch, Remember, Memories
      <4> QED
        BY <1>0, <4>1, <4>2 DEF EntriesAreFilled
    <3> QED
      BY <1>0, <1>2, <2>3, <3>1, <3>2, <3>3, <3>4, <3>5, ArrivesAt
  <2>4. ASSUME pc'[c] \in {"open", "write position"}
        PROVE  \A t \in mem'[c].ticket : Filled(t)'
    <3>1. CASE WriteFill(c)
      <4>1. PICK t \in Tickets :
              /\ Of(c, t) /\ pc[c] = "write fill" /\ mem' = mem
              /\ fill' = [fill EXCEPT ![t] = [at |-> mem[c].at,
                           recorded |-> mem[c].recorded, pnl |-> 0]]
        BY <3>1 DEF WriteFill, Go
      <4>2. mem[c].at \in Instant
        BY <1>0, <4>1 DEF EntriesAreFilled
      <4>3. mem[c].at # -1
        BY <4>2, LedgerAssumption DEF Instant
      <4>4. fill'[t].at # -1
        BY <2>0, <4>1, <4>3
      <4>5. Filled(t)'
        BY <4>4 DEF Filled, Absent
      <4> QED
        BY <4>1, <4>5 DEF Of
    <3>2. CASE FindEntry(c)
      <4>1. PICK t \in Tickets :
              /\ Of(c, t) /\ mem' = mem /\ fill' = fill
              /\ Go(c, "find entry", IF Filled(t) THEN "open"
                                                  ELSE "entry gate")
        BY <3>2 DEF FindEntry, Local, rows
      <4>2. Filled(t)
        BY <2>0, <2>4, <4>1 DEF Go
      <4> QED
        BY <4>1, <4>2 DEF Of, Filled
    <3>3. CASE CheckOpen(c)
      <4>1. pc[c] = "open" /\ mem' = mem /\ fill' = fill
        BY <3>3 DEF CheckOpen, RequireRunning, Go, Local, rows
      <4> QED
        BY <1>0, <4>1 DEF EntriesAreFilled, Filled
    <3> QED
      BY <1>0, <1>2, <2>4, <3>1, <3>2, <3>3, ArrivesAt
  <2>5. \A t \in opened' : Filled(t)'
    <3>1. CASE opened' = opened
      BY <1>0, <2>0, <2>2, <3>1 DEF EntriesAreFilled
    <3>2. CASE WritePosition(c)
      <4>1. pc[c] = "write position" /\ opened' = opened \cup mem[c].ticket
        BY <3>2 DEF WritePosition
      <4>2. mem[c].ticket \subseteq Tickets
        BY <2>0 DEF Memories
      <4> QED
        BY <1>0, <2>0, <2>2, <4>1, <4>2 DEF EntriesAreFilled
    <3> QED
      BY <1>2, <3>1, <3>2, CommandFrame
  <2>6. ASSUME NEW d \in Commands, d # c
        PROVE  /\ pc'[d] \in {"enter", "find fill", "gate", "write fill"}
                    => mem'[d].at \in Instant
               /\ pc'[d] \in {"open", "write position"}
                    => \A t \in mem'[d].ticket : Filled(t)'
    <3>1. pc'[d] = pc[d] /\ mem'[d] = mem[d]
      BY <2>1, <2>6 DEF Moved
    <3>2. mem[d].ticket \subseteq Tickets
      BY <2>0 DEF Memories
    <3> QED
      BY <1>0, <2>2, <3>1, <3>2 DEF EntriesAreFilled
  <2> QED
    BY <2>3, <2>4, <2>5, <2>6 DEF EntriesAreFilled
<1> QED
  BY <1>1, <1>2 DEF Next, vars, rows, history, ToggleKillSwitch, Tick

\* A command does not hide another from the history.
LEMMA OthersExposed ==
  ASSUME NEW c \in Commands, CommandStep(c), NEW d \in exposed, d # c
  PROVE  d \in exposed'
<1> USE DEF rows, history, Local
<1>1. CASE Begin(c)
  BY <1>1 DEF Begin
<1>2. CASE Stop(c)
  BY <1>2 DEF Stop, End
<1>3. CASE ReadStart(c)
  BY <1>3 DEF ReadStart
<1>4. CASE WriteStart(c)
  BY <1>4 DEF WriteStart, End
<1>5. CASE ReadComplete(c)
  BY <1>5 DEF ReadComplete
<1>6. CASE ListPositions(c)
  BY <1>6 DEF ListPositions
<1>7. CASE ValidateCompletionPositionJournal(c)
  BY <1>7 DEF ValidateCompletionPositionJournal
<1>8. CASE WriteComplete(c)
  BY <1>8 DEF WriteComplete, Leave
<1>9. CASE ReadCancel(c)
  BY <1>9 DEF ReadCancel
<1>10. CASE WriteCancel(c)
  BY <1>10 DEF WriteCancel, Leave
<1>11. CASE CheckTicket(c)
  BY <1>11 DEF CheckTicket
<1>12. CASE WriteTicket(c)
  BY <1>12 DEF WriteTicket, End
<1>13. CASE CheckFill(c)
  BY <1>13 DEF CheckFill, RequireRunning
<1>14. CASE FindFill(c)
  BY <1>14 DEF FindFill
<1>15. CASE RequireInactiveKillSwitch(c)
  BY <1>15 DEF RequireInactiveKillSwitch
<1>16. CASE WriteFill(c)
  BY <1>16 DEF WriteFill
<1>17. CASE CheckOpen(c)
  BY <1>17 DEF CheckOpen, RequireRunning
<1>18. CASE WritePosition(c)
  BY <1>18 DEF WritePosition, Done, End
<1>19. CASE CheckClose(c)
  BY <1>19 DEF CheckClose, RequireRunning
<1>20. CASE StampClose(c)
  BY <1>20 DEF StampClose
<1>21. CASE WriteClose(c)
  BY <1>21 DEF WriteClose
<1>22. CASE CloseConflict(c)
  BY <1>22 DEF CloseConflict, End
<1>23. CASE CheckAccount(c)
  BY <1>23 DEF CheckAccount, RequireRunning
<1>24. CASE FindEvent(c)
  BY <1>24 DEF FindEvent, Done, End
<1>25. CASE ReadLedger(c)
  BY <1>25 DEF ReadLedger
<1>26. CASE WriteEvent(c)
  BY <1>26 DEF WriteEvent, Done, End
<1>27. CASE CheckAutoEnter(c)
  BY <1>27 DEF CheckAutoEnter, RequireRunning
<1>28. CASE FindEntry(c)
  BY <1>28 DEF FindEntry
<1>29. CASE EntryGate(c)
  BY <1>29 DEF EntryGate
<1>30. CASE EntryQuote(c)
  BY <1>30 DEF EntryQuote
<1>31. CASE CheckAutoExit(c)
  BY <1>31 DEF CheckAutoExit
<1>32. CASE ExitTriggered(c)
  BY <1>32 DEF ExitTriggered
<1>33. CASE NotTriggered(c)
  BY <1>33 DEF NotTriggered, End
<1>34. CASE CheckCycle(c)
  BY <1>34 DEF CheckCycle, RequireRunning
<1>35. CASE ScanPositions(c)
  BY <1>35 DEF ScanPositions
<1>36. CASE Visit(c)
  BY <1>36 DEF Visit
<1>37. CASE EndOfScan(c)
  BY <1>37 DEF EndOfScan, Done, End
<1>38. CASE PickPending(c)
  BY <1>38 DEF PickPending, Done, End
<1> QED BY <1>1, <1>2, <1>3, <1>4, <1>5, <1>6, <1>7, <1>8, <1>9, <1>10, <1>11,
         <1>12, <1>13, <1>14, <1>15, <1>16, <1>17, <1>18, <1>19, <1>20, <1>21,
         <1>22, <1>23, <1>24, <1>25, <1>26, <1>27, <1>28, <1>29, <1>30, <1>31,
         <1>32, <1>33, <1>34, <1>35, <1>36, <1>37, <1>38 DEF CommandStep

\* Every step keeps what is known of the entries past the Kill Switch.
LEMMA ExposedKnownStep == TypeOK /\ ExposedKnown /\ [Next]_vars => ExposedKnown'
<1> SUFFICES ASSUME TypeOK, ExposedKnown, [Next]_vars, killSwitch',
                    NEW d \in Commands, pc'[d] = "write fill"
             PROVE  d \in exposed' \/ \E t \in Tickets : Of(d, t)' /\ Filled(t)'
  BY DEF ExposedKnown
<1>1. CASE UNCHANGED vars
  BY <1>1 DEF ExposedKnown, vars, rows, history, Of, Filled
<1>2. CASE Tick
  BY <1>2 DEF ExposedKnown, Tick, rows, history, Of, Filled
<1>3. CASE ToggleKillSwitch
  BY <1>3 DEF ExposedKnown, ToggleKillSwitch
<1>4. ASSUME NEW c \in Commands, CommandStep(c)
      PROVE  d \in exposed' \/ \E t \in Tickets : Of(d, t)' /\ Filled(t)'
  <2>1. Moved(c) /\ killSwitch' = killSwitch
    BY <1>4, CommandMoves, CommandFrame
  <2>2. \A t \in Tickets : Filled(t) => Filled(t)'
    BY <1>4, FillsStay
  <2>3. CASE d # c
    <3>1. d \in exposed => d \in exposed'
      BY <1>4, <2>3, OthersExposed
    <3> QED
      BY <2>1, <2>2, <2>3, <3>1 DEF ExposedKnown, Moved, Of
  <2>4. CASE d = c /\ FindFill(c)
    <3>1. PICK t \in Tickets :
            /\ Of(c, t)
            /\ IF Filled(t)
               THEN Remember(c, [mem[c] EXCEPT !.recorded = fill[t].recorded])
               ELSE Go(c, "find fill", "gate")
      BY <2>4 DEF FindFill
    <3>2. Filled(t)
      BY <2>4, <3>1 DEF TypeOK, Go
    <3>3. mem'[c].ticket = mem[c].ticket
      <4>1. mem \in [Commands -> Memories] /\ mem[c] \in Memories
        BY DEF TypeOK
      <4> QED
        BY <3>1, <3>2, <4>1 DEF Remember, Memories
    <3> QED
      BY <2>2, <2>4, <3>1, <3>2, <3>3 DEF Of
  <2>5. CASE d = c /\ RequireInactiveKillSwitch(c)
    BY <2>1, <2>5 DEF RequireInactiveKillSwitch
  <2> QED
    BY <1>4, <2>3, <2>4, <2>5, ArrivesAt
<1> QED
  BY <1>1, <1>2, <1>3, <1>4 DEF Next

\* A command comes to write either under a check made while RUNNING, or from
\* another step of the same use case.
LEMMA ComesToWrite ==
  ASSUME TypeOK, NEW c \in Commands, CommandStep(c), pc'[c] \in WriteSteps
  PROVE  \/ Running'
         \/ pc[c] \in WriteSteps /\ late' = late /\ status' = status
<1>0. pc \in [Commands -> Steps]
  BY DEF TypeOK
<1> USE <1>0 DEF rows, history, Local, WriteSteps, Running
<1>1. CASE Begin(c)
  BY <1>1, LedgerAssumption, ZenonT(60) DEF Begin, Go, AllKinds
<1>2. CASE Stop(c)
  BY <1>2 DEF Stop, End
<1>3. CASE ReadStart(c)
  BY <1>3 DEF ReadStart, Go
<1>4. CASE WriteStart(c)
  BY <1>4 DEF WriteStart, End
<1>5. CASE ReadComplete(c)
  BY <1>5 DEF ReadComplete, Go
<1>6. CASE ListPositions(c)
  BY <1>6 DEF ListPositions, Go
<1>7. CASE ValidateCompletionPositionJournal(c)
  BY <1>7 DEF ValidateCompletionPositionJournal, Go
<1>8. CASE WriteComplete(c)
  BY <1>8 DEF WriteComplete, Leave
<1>9. CASE ReadCancel(c)
  BY <1>9 DEF ReadCancel, Go
<1>10. CASE WriteCancel(c)
  BY <1>10 DEF WriteCancel, Leave
<1>11. CASE CheckTicket(c)
  BY <1>11 DEF CheckTicket, Go
<1>12. CASE WriteTicket(c)
  BY <1>12 DEF WriteTicket, End
<1>13. CASE CheckFill(c)
  BY <1>13 DEF CheckFill, RequireRunning, Go
<1>14. CASE FindFill(c)
  BY <1>14 DEF FindFill, Go
<1>15. CASE RequireInactiveKillSwitch(c)
  BY <1>15 DEF RequireInactiveKillSwitch, Go
<1>16. CASE WriteFill(c)
  BY <1>16 DEF WriteFill, Go
<1>17. CASE CheckOpen(c)
  BY <1>17 DEF CheckOpen, RequireRunning, Go
<1>18. CASE WritePosition(c)
  BY <1>18 DEF WritePosition, Done, End
<1>19. CASE CheckClose(c)
  BY <1>19 DEF CheckClose, RequireRunning, Go
<1>20. CASE StampClose(c)
  BY <1>20 DEF StampClose, Go
<1>21. CASE WriteClose(c)
  BY <1>21 DEF WriteClose, Go
<1>22. CASE CloseConflict(c)
  BY <1>22 DEF CloseConflict, End
<1>23. CASE CheckAccount(c)
  BY <1>23 DEF CheckAccount, RequireRunning, Go
<1>24. CASE FindEvent(c)
  BY <1>24 DEF FindEvent, Done, End, Go
<1>25. CASE ReadLedger(c)
  BY <1>25 DEF ReadLedger, Go
<1>26. CASE WriteEvent(c)
  BY <1>26 DEF WriteEvent, Done, End
<1>27. CASE CheckAutoEnter(c)
  BY <1>27 DEF CheckAutoEnter, RequireRunning, Go
<1>28. CASE FindEntry(c)
  BY <1>28 DEF FindEntry, Go
<1>29. CASE EntryGate(c)
  BY <1>29 DEF EntryGate, Go
<1>30. CASE EntryQuote(c)
  BY <1>30 DEF EntryQuote, Go
<1>31. CASE CheckAutoExit(c)
  BY <1>31 DEF CheckAutoExit
<1>32. CASE ExitTriggered(c)
  BY <1>32 DEF ExitTriggered, Go
<1>33. CASE NotTriggered(c)
  BY <1>33 DEF NotTriggered, Go, End
<1>34. CASE CheckCycle(c)
  BY <1>34 DEF CheckCycle, RequireRunning, Go
<1>35. CASE ScanPositions(c)
  BY <1>35 DEF ScanPositions, Go
<1>36. CASE Visit(c)
  BY <1>36 DEF Visit, Go
<1>37. CASE EndOfScan(c)
  BY <1>37 DEF EndOfScan, Done, End, Go
<1>38. CASE PickPending(c)
  BY <1>38 DEF PickPending, Done, End, Go
<1> QED BY <1>1, <1>2, <1>3, <1>4, <1>5, <1>6, <1>7, <1>8, <1>9, <1>10, <1>11,
         <1>12, <1>13, <1>14, <1>15, <1>16, <1>17, <1>18, <1>19, <1>20, <1>21,
         <1>22, <1>23, <1>24, <1>25, <1>26, <1>27, <1>28, <1>29, <1>30, <1>31,
         <1>32, <1>33, <1>34, <1>35, <1>36, <1>37, <1>38 DEF CommandStep

\* A step of a command leaves the others in the history, or ends the period.
LEMMA OthersLate ==
  ASSUME NEW c \in Commands, CommandStep(c), NEW d \in Commands \ {c}
  PROVE  \/ Running'
         \/ status' = status /\ (d \in late => d \in late')
         \/ pc[d] \in WriteSteps => d \in late' 
<1> USE DEF rows, history, Local, Running
<1>1. CASE Begin(c)
  BY <1>1 DEF Begin
<1>2. CASE Stop(c)
  BY <1>2 DEF Stop, End
<1>3. CASE ReadStart(c)
  BY <1>3 DEF ReadStart
<1>4. CASE WriteStart(c)
  BY <1>4 DEF WriteStart, End
<1>5. CASE ReadComplete(c)
  BY <1>5 DEF ReadComplete
<1>6. CASE ListPositions(c)
  BY <1>6 DEF ListPositions
<1>7. CASE ValidateCompletionPositionJournal(c)
  BY <1>7 DEF ValidateCompletionPositionJournal
<1>8. CASE WriteComplete(c)
  BY <1>8 DEF WriteComplete, Leave
<1>9. CASE ReadCancel(c)
  BY <1>9 DEF ReadCancel
<1>10. CASE WriteCancel(c)
  BY <1>10 DEF WriteCancel, Leave
<1>11. CASE CheckTicket(c)
  BY <1>11 DEF CheckTicket
<1>12. CASE WriteTicket(c)
  BY <1>12 DEF WriteTicket, End
<1>13. CASE CheckFill(c)
  BY <1>13 DEF CheckFill, RequireRunning
<1>14. CASE FindFill(c)
  BY <1>14 DEF FindFill
<1>15. CASE RequireInactiveKillSwitch(c)
  BY <1>15 DEF RequireInactiveKillSwitch
<1>16. CASE WriteFill(c)
  BY <1>16 DEF WriteFill
<1>17. CASE CheckOpen(c)
  BY <1>17 DEF CheckOpen, RequireRunning
<1>18. CASE WritePosition(c)
  BY <1>18 DEF WritePosition, Done, End
<1>19. CASE CheckClose(c)
  BY <1>19 DEF CheckClose, RequireRunning
<1>20. CASE StampClose(c)
  BY <1>20 DEF StampClose
<1>21. CASE WriteClose(c)
  BY <1>21 DEF WriteClose
<1>22. CASE CloseConflict(c)
  BY <1>22 DEF CloseConflict, End
<1>23. CASE CheckAccount(c)
  BY <1>23 DEF CheckAccount, RequireRunning
<1>24. CASE FindEvent(c)
  BY <1>24 DEF FindEvent, Done, End
<1>25. CASE ReadLedger(c)
  BY <1>25 DEF ReadLedger
<1>26. CASE WriteEvent(c)
  BY <1>26 DEF WriteEvent, Done, End
<1>27. CASE CheckAutoEnter(c)
  BY <1>27 DEF CheckAutoEnter, RequireRunning
<1>28. CASE FindEntry(c)
  BY <1>28 DEF FindEntry
<1>29. CASE EntryGate(c)
  BY <1>29 DEF EntryGate
<1>30. CASE EntryQuote(c)
  BY <1>30 DEF EntryQuote
<1>31. CASE CheckAutoExit(c)
  BY <1>31 DEF CheckAutoExit
<1>32. CASE ExitTriggered(c)
  BY <1>32 DEF ExitTriggered
<1>33. CASE NotTriggered(c)
  BY <1>33 DEF NotTriggered, End
<1>34. CASE CheckCycle(c)
  BY <1>34 DEF CheckCycle, RequireRunning
<1>35. CASE ScanPositions(c)
  BY <1>35 DEF ScanPositions
<1>36. CASE Visit(c)
  BY <1>36 DEF Visit
<1>37. CASE EndOfScan(c)
  BY <1>37 DEF EndOfScan, Done, End
<1>38. CASE PickPending(c)
  BY <1>38 DEF PickPending, Done, End
<1> QED BY <1>1, <1>2, <1>3, <1>4, <1>5, <1>6, <1>7, <1>8, <1>9, <1>10, <1>11,
         <1>12, <1>13, <1>14, <1>15, <1>16, <1>17, <1>18, <1>19, <1>20, <1>21,
         <1>22, <1>23, <1>24, <1>25, <1>26, <1>27, <1>28, <1>29, <1>30, <1>31,
         <1>32, <1>33, <1>34, <1>35, <1>36, <1>37, <1>38 DEF CommandStep

\* Every step keeps the history of the commands that write late.
LEMMA LateKnownStep == TypeOK /\ LateKnown /\ [Next]_vars => LateKnown'
<1> SUFFICES ASSUME TypeOK, LateKnown, [Next]_vars, ~Running',
                    NEW d \in Commands, pc'[d] \in WriteSteps
             PROVE  d \in late'
  BY DEF LateKnown, WriteSteps
<1>1. CASE UNCHANGED <<status, pc, late>>
  BY <1>1 DEF LateKnown, Running
<1>2. ASSUME NEW c \in Commands, CommandStep(c)
      PROVE  d \in late'
  <2>1. CASE d # c
    <3>1. pc'[d] = pc[d]
      BY <1>2, <2>1, CommandMoves DEF Moved
    <3> QED
      BY <1>2, <2>1, <3>1, OthersLate DEF LateKnown, Running
  <2>2. CASE d = c
    BY <1>2, <2>2, ComesToWrite DEF LateKnown, Running
  <2> QED
    BY <2>1, <2>2
<1> QED
  BY <1>1, <1>2 DEF Next, vars, rows, history, ToggleKillSwitch, Tick

\* The lock passes from none to one cycle, and only its holder gives it up.
LEMMA LockPasses ==
  ASSUME NEW c \in Commands, CommandStep(c)
  PROVE  /\ lock' \subseteq lock \/ (lock = {} /\ lock' = {c})
         /\ \A d \in lock \ {c} : d \in lock'
<1> USE DEF rows, history, Local
<1>1. CASE Begin(c)
  BY <1>1 DEF Begin, TakeLock
<1>2. CASE Stop(c)
  BY <1>2 DEF Stop, End
<1>3. CASE ReadStart(c)
  BY <1>3 DEF ReadStart
<1>4. CASE WriteStart(c)
  BY <1>4 DEF WriteStart, End
<1>5. CASE ReadComplete(c)
  BY <1>5 DEF ReadComplete
<1>6. CASE ListPositions(c)
  BY <1>6 DEF ListPositions
<1>7. CASE ValidateCompletionPositionJournal(c)
  BY <1>7 DEF ValidateCompletionPositionJournal
<1>8. CASE WriteComplete(c)
  BY <1>8 DEF WriteComplete, Leave
<1>9. CASE ReadCancel(c)
  BY <1>9 DEF ReadCancel
<1>10. CASE WriteCancel(c)
  BY <1>10 DEF WriteCancel, Leave
<1>11. CASE CheckTicket(c)
  BY <1>11 DEF CheckTicket
<1>12. CASE WriteTicket(c)
  BY <1>12 DEF WriteTicket, End
<1>13. CASE CheckFill(c)
  BY <1>13 DEF CheckFill, RequireRunning
<1>14. CASE FindFill(c)
  BY <1>14 DEF FindFill
<1>15. CASE RequireInactiveKillSwitch(c)
  BY <1>15 DEF RequireInactiveKillSwitch
<1>16. CASE WriteFill(c)
  BY <1>16 DEF WriteFill
<1>17. CASE CheckOpen(c)
  BY <1>17 DEF CheckOpen, RequireRunning
<1>18. CASE WritePosition(c)
  BY <1>18 DEF WritePosition, Done, End
<1>19. CASE CheckClose(c)
  BY <1>19 DEF CheckClose, RequireRunning
<1>20. CASE StampClose(c)
  BY <1>20 DEF StampClose
<1>21. CASE WriteClose(c)
  BY <1>21 DEF WriteClose
<1>22. CASE CloseConflict(c)
  BY <1>22 DEF CloseConflict, End
<1>23. CASE CheckAccount(c)
  BY <1>23 DEF CheckAccount, RequireRunning
<1>24. CASE FindEvent(c)
  BY <1>24 DEF FindEvent, Done, End
<1>25. CASE ReadLedger(c)
  BY <1>25 DEF ReadLedger
<1>26. CASE WriteEvent(c)
  BY <1>26 DEF WriteEvent, Done, End
<1>27. CASE CheckAutoEnter(c)
  BY <1>27 DEF CheckAutoEnter, RequireRunning
<1>28. CASE FindEntry(c)
  BY <1>28 DEF FindEntry
<1>29. CASE EntryGate(c)
  BY <1>29 DEF EntryGate
<1>30. CASE EntryQuote(c)
  BY <1>30 DEF EntryQuote
<1>31. CASE CheckAutoExit(c)
  BY <1>31 DEF CheckAutoExit
<1>32. CASE ExitTriggered(c)
  BY <1>32 DEF ExitTriggered
<1>33. CASE NotTriggered(c)
  BY <1>33 DEF NotTriggered, End
<1>34. CASE CheckCycle(c)
  BY <1>34 DEF CheckCycle, RequireRunning
<1>35. CASE ScanPositions(c)
  BY <1>35 DEF ScanPositions
<1>36. CASE Visit(c)
  BY <1>36 DEF Visit
<1>37. CASE EndOfScan(c)
  BY <1>37 DEF EndOfScan, Done, End
<1>38. CASE PickPending(c)
  BY <1>38 DEF PickPending, Done, End
<1> QED BY <1>1, <1>2, <1>3, <1>4, <1>5, <1>6, <1>7, <1>8, <1>9, <1>10, <1>11,
         <1>12, <1>13, <1>14, <1>15, <1>16, <1>17, <1>18, <1>19, <1>20, <1>21,
         <1>22, <1>23, <1>24, <1>25, <1>26, <1>27, <1>28, <1>29, <1>30, <1>31,
         <1>32, <1>33, <1>34, <1>35, <1>36, <1>37, <1>38 DEF CommandStep

\* A command at a step of a cycle is a cycle under the lock.
LEMMA CycleHasLock ==
  ASSUME TypeOK, CyclesOnly, CycleLocked, NEW c \in Commands, CommandStep(c)
  PROVE  /\ mem'[c].kind = "auto-cycle" => c \in lock'
         /\ pc'[c] \in CycleSteps => mem'[c].kind = "auto-cycle"
<1>0. /\ pc \in [Commands -> Steps] /\ mem \in [Commands -> Memories]
      /\ mem[c] \in Memories
      /\ mem[c].kind = "auto-cycle" => c \in lock
      /\ pc[c] \in CycleSteps => mem[c].kind = "auto-cycle"
      /\ Blank.kind = "none" /\ [Blank EXCEPT !.kind = "auto-cycle"].kind = "auto-cycle"
  BY DEF TypeOK, CycleLocked, Blank
<1> USE <1>0 DEF rows, history, Local, CycleSteps, EntrySteps
<1>1. CASE Begin(c)
  <2>1. PICK k \in Kinds, t \in Tickets, i \in Instant, p \in Pnls :
          /\ Go(c, "idle", IF k = "auto-cycle" THEN "cycle" ELSE k)
          /\ Remember(c, [Blank EXCEPT
               !.kind = k,
               !.ticket = IF k \in {"ticket", "enter", "settle", "auto-enter",
                                    "auto-exit"} THEN {t} ELSE {},
               !.at = IF k \in {"enter", "settle"} THEN i ELSE -1,
               !.pnl = IF k = "settle" THEN p ELSE 0])
          /\ TakeLock(c, k)
    BY <1>1 DEF Begin
  <2>2. mem'[c].kind = k
    BY <2>1 DEF Remember, Blank
  <2>3. pc'[c] = IF k = "auto-cycle" THEN "cycle" ELSE k
    BY <2>1 DEF Go
  <2>4. k \in AllKinds \ {"enter", "auto-enter"}
    BY LedgerAssumption DEF CyclesOnly
  <2> QED
    BY <2>1, <2>2, <2>3, <2>4 DEF TakeLock, AllKinds
<1>2. CASE Stop(c)
  BY <1>2 DEF Stop, End, Go, Remember, Memories
<1>3. CASE ReadStart(c)
  BY <1>3 DEF ReadStart, Go, Remember, Memories
<1>4. CASE WriteStart(c)
  BY <1>4 DEF WriteStart, End, Go, Remember, Memories
<1>5. CASE ReadComplete(c)
  BY <1>5 DEF ReadComplete, Go, Remember, Memories
<1>6. CASE ListPositions(c)
  BY <1>6 DEF ListPositions, Go, Remember, Memories
<1>7. CASE ValidateCompletionPositionJournal(c)
  BY <1>7 DEF ValidateCompletionPositionJournal, Go, Remember, Memories
<1>8. CASE WriteComplete(c)
  BY <1>8 DEF WriteComplete, Leave, Go, Remember, Memories
<1>9. CASE ReadCancel(c)
  BY <1>9 DEF ReadCancel, Go, Remember, Memories
<1>10. CASE WriteCancel(c)
  BY <1>10 DEF WriteCancel, Leave, Go, Remember, Memories
<1>11. CASE CheckTicket(c)
  BY <1>11 DEF CheckTicket, Go, Remember, Memories
<1>12. CASE WriteTicket(c)
  BY <1>12 DEF WriteTicket, End, Go, Remember, Memories
<1>13. CASE CheckFill(c)
  BY <1>13 DEF CheckFill, RequireRunning, Go, Remember, Memories
<1>14. CASE FindFill(c)
  <2>1. mem'[c].kind = mem[c].kind
    <3>1. CASE mem' = mem
      BY <3>1
    <3>2. CASE mem' # mem
      <4>1. PICK x : mem' = [mem EXCEPT ![c] = [mem[c] EXCEPT !.recorded = x]]
        BY <1>14, <3>2 DEF FindFill, Remember
      <4> QED
        BY <4>1 DEF Memories
    <3> QED
      BY <3>1, <3>2
  <2>2. pc[c] = "find fill" /\ lock' = lock
    BY <1>14 DEF FindFill, Go
  <2> QED
    BY <2>1, <2>2
<1>15. CASE RequireInactiveKillSwitch(c)
  BY <1>15 DEF RequireInactiveKillSwitch, Go, Remember, Memories
<1>16. CASE WriteFill(c)
  BY <1>16 DEF WriteFill, Go, Remember, Memories
<1>17. CASE CheckOpen(c)
  BY <1>17 DEF CheckOpen, RequireRunning, Go, Remember, Memories
<1>18. CASE WritePosition(c)
  BY <1>18 DEF WritePosition, Done, End, Go, Remember, Memories
<1>19. CASE CheckClose(c)
  BY <1>19 DEF CheckClose, RequireRunning, Go, Remember, Memories
<1>20. CASE StampClose(c)
  BY <1>20 DEF StampClose, Go, Remember, Memories
<1>21. CASE WriteClose(c)
  BY <1>21 DEF WriteClose, Go, Remember, Memories
<1>22. CASE CloseConflict(c)
  BY <1>22, ZenonT(60) DEF CloseConflict, End, Go, Remember, Memories
<1>23. CASE CheckAccount(c)
  BY <1>23 DEF CheckAccount, RequireRunning, Go, Remember, Memories
<1>24. CASE FindEvent(c)
  BY <1>24, ZenonT(60) DEF FindEvent, Done, End, Go, Remember, Memories
<1>25. CASE ReadLedger(c)
  <2>1. PICK x, y : mem' = [mem EXCEPT ![c] = [mem[c] EXCEPT !.seq = x, !.before = y]]
    BY <1>25 DEF ReadLedger, Remember
  <2>2. mem'[c].kind = mem[c].kind
    BY <2>1 DEF Memories
  <2>3. pc'[c] = "write event" /\ lock' = lock
    BY <1>25 DEF ReadLedger, Go
  <2> QED
    BY <2>2, <2>3
<1>26. CASE WriteEvent(c)
  BY <1>26, ZenonT(60) DEF WriteEvent, Done, End, Go, Remember, Memories
<1>27. CASE CheckAutoEnter(c)
  BY <1>27 DEF CheckAutoEnter, RequireRunning, Go, Remember, Memories
<1>28. CASE FindEntry(c)
  BY <1>28 DEF FindEntry, Go, Remember, Memories
<1>29. CASE EntryGate(c)
  BY <1>29 DEF EntryGate, Go, Remember, Memories
<1>30. CASE EntryQuote(c)
  BY <1>30, ZenonT(60) DEF EntryQuote, Go, Remember, Memories
<1>31. CASE CheckAutoExit(c)
  BY <1>31, ZenonT(60) DEF CheckAutoExit, Go, Remember, Memories
<1>32. CASE ExitTriggered(c)
  <2>1. PICK x, y : mem' = [mem EXCEPT ![c] = [mem[c] EXCEPT !.at = x, !.pnl = y]]
    BY <1>32 DEF ExitTriggered, Remember
  <2>2. mem'[c].kind = mem[c].kind
    BY <2>1 DEF Memories
  <2>3. pc'[c] = "settle" /\ lock' = lock
    BY <1>32 DEF ExitTriggered, Go
  <2> QED
    BY <2>2, <2>3
<1>33. CASE NotTriggered(c)
  <2>1. CASE mem[c].kind = "auto-cycle"
    <3>1. mem' = [mem EXCEPT ![c] = [mem[c] EXCEPT !.ticket = {}, !.active = TRUE]]
      BY <1>33, <2>1 DEF NotTriggered, Remember
    <3>2. mem'[c].kind = mem[c].kind
      BY <3>1 DEF Memories
    <3>3. lock' = lock
      BY <1>33, <2>1 DEF NotTriggered
    <3> QED
      BY <2>1, <3>2, <3>3
  <2>2. CASE mem[c].kind # "auto-cycle"
    BY <1>33, <2>2 DEF NotTriggered, End, Remember
  <2> QED
    BY <2>1, <2>2
<1>34. CASE CheckCycle(c)
  BY <1>34 DEF CheckCycle, RequireRunning, Go, Remember, Memories
<1>35. CASE ScanPositions(c)
  BY <1>35 DEF ScanPositions, Go, Remember, Memories
<1>36. CASE Visit(c)
  <2>1. PICK x, y : mem' = [mem EXCEPT ![c] = [mem[c] EXCEPT !.todo = x, !.ticket = y]]
    <3>1. PICK u \in mem[c].todo :
            Remember(c, [mem[c] EXCEPT !.todo = @ \ {u},
                                       !.ticket = IF Settled(u) THEN {} ELSE {u}])
      BY <1>36 DEF Visit
    <3> QED
      BY <3>1 DEF Remember
  <2>2. mem'[c].kind = mem[c].kind
    BY <2>1 DEF Memories
  <2>3. pc[c] = "visit" /\ lock' = lock
    BY <1>36 DEF Visit, Go
  <2> QED
    BY <2>2, <2>3
<1>37. CASE EndOfScan(c)
  BY <1>37, ZenonT(60) DEF EndOfScan, Done, End, Go, Remember, Memories
<1>38. CASE PickPending(c)
  BY <1>38, ZenonT(60) DEF PickPending, Done, End, Go, Remember, Memories
<1> QED BY <1>1, <1>2, <1>3, <1>4, <1>5, <1>6, <1>7, <1>8, <1>9, <1>10, <1>11,
         <1>12, <1>13, <1>14, <1>15, <1>16, <1>17, <1>18, <1>19, <1>20, <1>21,
         <1>22, <1>23, <1>24, <1>25, <1>26, <1>27, <1>28, <1>29, <1>30, <1>31,
         <1>32, <1>33, <1>34, <1>35, <1>36, <1>37, <1>38 DEF CommandStep

\* Where a cycle that scans, and one that enters, comes from.
LEMMA ComesToScan ==
  ASSUME TypeOK, CyclesOnly, NEW c \in Commands, CommandStep(c)
  PROVE  /\ pc'[c] = "visit" =>
              \/ ScanPositions(c)
              \/ NotTriggered(c) /\ mem'[c].active
              \/ Visit(c) /\ pc[c] = "visit"
         /\ pc'[c] \in EntrySteps =>
              \/ EndOfScan(c) /\ pc[c] = "visit" /\ mem[c].todo = {}
                   /\ ~mem[c].active
              \/ pc[c] \in EntrySteps
<1>0. /\ pc \in [Commands -> Steps] /\ mem \in [Commands -> Memories]
      /\ mem[c] \in Memories
  BY DEF TypeOK
<1> USE <1>0 DEF rows, history, Local, EntrySteps
<1>1. CASE Begin(c)
  <2>1. PICK k \in Kinds : Go(c, "idle", IF k = "auto-cycle" THEN "cycle" ELSE k)
    BY <1>1 DEF Begin
  <2>2. k \in AllKinds \ {"enter", "auto-enter"}
    BY LedgerAssumption DEF CyclesOnly
  <2> QED
    BY <2>1, <2>2 DEF Go, AllKinds
<1>2. CASE Stop(c)
  BY <1>2 DEF Stop, End, Go, Remember, Memories
<1>3. CASE ReadStart(c)
  BY <1>3 DEF ReadStart, Go, Remember, Memories
<1>4. CASE WriteStart(c)
  BY <1>4 DEF WriteStart, End, Go, Remember, Memories
<1>5. CASE ReadComplete(c)
  BY <1>5 DEF ReadComplete, Go, Remember, Memories
<1>6. CASE ListPositions(c)
  BY <1>6 DEF ListPositions, Go, Remember, Memories
<1>7. CASE ValidateCompletionPositionJournal(c)
  BY <1>7 DEF ValidateCompletionPositionJournal, Go, Remember, Memories
<1>8. CASE WriteComplete(c)
  BY <1>8 DEF WriteComplete, Leave, Go, Remember, Memories
<1>9. CASE ReadCancel(c)
  BY <1>9 DEF ReadCancel, Go, Remember, Memories
<1>10. CASE WriteCancel(c)
  BY <1>10 DEF WriteCancel, Leave, Go, Remember, Memories
<1>11. CASE CheckTicket(c)
  BY <1>11 DEF CheckTicket, Go, Remember, Memories
<1>12. CASE WriteTicket(c)
  BY <1>12 DEF WriteTicket, End, Go, Remember, Memories
<1>13. CASE CheckFill(c)
  BY <1>13 DEF CheckFill, RequireRunning, Go, Remember, Memories
<1>14. CASE FindFill(c)
  BY <1>14 DEF FindFill, Go, Remember, Memories
<1>15. CASE RequireInactiveKillSwitch(c)
  BY <1>15 DEF RequireInactiveKillSwitch, Go, Remember, Memories
<1>16. CASE WriteFill(c)
  BY <1>16 DEF WriteFill, Go, Remember, Memories
<1>17. CASE CheckOpen(c)
  BY <1>17 DEF CheckOpen, RequireRunning, Go, Remember, Memories
<1>18. CASE WritePosition(c)
  BY <1>18 DEF WritePosition, Done, End, Go, Remember, Memories
<1>19. CASE CheckClose(c)
  BY <1>19 DEF CheckClose, RequireRunning, Go, Remember, Memories
<1>20. CASE StampClose(c)
  BY <1>20 DEF StampClose, Go, Remember, Memories
<1>21. CASE WriteClose(c)
  BY <1>21 DEF WriteClose, Go, Remember, Memories
<1>22. CASE CloseConflict(c)
  BY <1>22 DEF CloseConflict, End, Go, Remember, Memories
<1>23. CASE CheckAccount(c)
  BY <1>23 DEF CheckAccount, RequireRunning, Go, Remember, Memories
<1>24. CASE FindEvent(c)
  BY <1>24, ZenonT(60) DEF FindEvent, Done, End, Go, Remember, Memories
<1>25. CASE ReadLedger(c)
  BY <1>25 DEF ReadLedger, Go, Remember, Memories
<1>26. CASE WriteEvent(c)
  BY <1>26, ZenonT(60) DEF WriteEvent, Done, End, Go, Remember, Memories
<1>27. CASE CheckAutoEnter(c)
  BY <1>27 DEF CheckAutoEnter, RequireRunning, Go, Remember, Memories
<1>28. CASE FindEntry(c)
  BY <1>28 DEF FindEntry, Go, Remember, Memories
<1>29. CASE EntryGate(c)
  BY <1>29 DEF EntryGate, Go, Remember, Memories
<1>30. CASE EntryQuote(c)
  BY <1>30 DEF EntryQuote, Go, Remember, Memories
<1>31. CASE CheckAutoExit(c)
  BY <1>31 DEF CheckAutoExit, Go, Remember, Memories
<1>32. CASE ExitTriggered(c)
  BY <1>32 DEF ExitTriggered, Go, Remember, Memories
<1>33. CASE NotTriggered(c)
  BY <1>33, ZenonT(60) DEF NotTriggered, End, Go, Remember, Memories
<1>34. CASE CheckCycle(c)
  BY <1>34 DEF CheckCycle, RequireRunning, Go, Remember, Memories
<1>35. CASE ScanPositions(c)
  BY <1>35 DEF ScanPositions, Go, Remember, Memories
<1>36. CASE Visit(c)
  BY <1>36, ZenonT(60) DEF Visit, Go, Remember, Memories
<1>37. CASE EndOfScan(c)
  BY <1>37, ZenonT(60) DEF EndOfScan, Done, End, Go, Remember, Memories
<1>38. CASE PickPending(c)
  BY <1>38 DEF PickPending, Done, End, Go, Remember, Memories
<1> QED BY <1>1, <1>2, <1>3, <1>4, <1>5, <1>6, <1>7, <1>8, <1>9, <1>10, <1>11,
         <1>12, <1>13, <1>14, <1>15, <1>16, <1>17, <1>18, <1>19, <1>20, <1>21,
         <1>22, <1>23, <1>24, <1>25, <1>26, <1>27, <1>28, <1>29, <1>30, <1>31,
         <1>32, <1>33, <1>34, <1>35, <1>36, <1>37, <1>38 DEF CommandStep

\* Fills of positions, closes and their events stay, and so does what hides a
\* position from the scans.
LEMMA HiddenStays ==
  ASSUME IInv, NEW c \in Commands, CommandStep(c)
  PROVE  /\ \A t \in Tickets : Closed(t) => Closed(t)'
         /\ \A t \in opened, done, ahead \in SUBSET opened :
              FullBefore(t, done, ahead) => FullBefore(t, done, ahead)'
         /\ \A t \in opened : Behind(t) => Behind(t)'
<1>0. TypeOK /\ EntriesAreFilled /\ opened \subseteq Tickets
  BY DEF IInv, TypeOK
<1>1. \A t \in Tickets : Closed(t) => Closed(t)'
  BY ClosesStay DEF Next, Closed
<1>2. \A t \in Tickets : Accounted(t) => Accounted(t)'
  <2>1. ledger \subseteq ledger'
    BY CommandFrame DEF WriteEvent
  <2> QED
    BY <2>1 DEF Accounted
<1>3. \A t \in Tickets : Settled(t) => Settled(t)'
  BY <1>1, <1>2 DEF Settled
<1>4. opened \subseteq opened'
  BY CommandFrame DEF WritePosition
<1>5. \A t \in opened : fill'[t] = fill[t]
  BY <1>0, FillsStay DEF EntriesAreFilled
<1>6. ASSUME NEW t \in opened, NEW done \in SUBSET opened,
             NEW ahead \in SUBSET opened, FullBefore(t, done, ahead)
      PROVE  FullBefore(t, done, ahead)'
  BY <1>0, <1>3, <1>4, <1>5, <1>6 DEF FullBefore
<1>7. ASSUME NEW t \in opened, Behind(t)
      PROVE  Behind(t)'
  <2>1. PICK done \in SUBSET opened : FullBefore(t, done, {})
    BY <1>7 DEF Behind
  <2>2. FullBefore(t, done, {})'
    BY <1>6, <2>1
  <2>3. done \in SUBSET opened'
    BY <1>4
  <2> QED
    BY <2>2, <2>3 DEF Behind
<1> QED
  BY <1>1, <1>6, <1>7

\* A scan that begins has before it all positions that are not hidden by those
\* it returned.
LEMMA ScanBegins ==
  ASSUME IInv, NEW c \in Commands, ScanPositions(c), NEW t \in opened
  PROVE  \/ t \in mem'[c].todo
         \/ (\E done \in SUBSET opened : FullBefore(t, done, mem[c].todo))'
<1>1. PICK seen \in Oldest(opened, OpenedAt, PositionScanLimit) :
        mem' = [mem EXCEPT ![c] = [mem[c] EXCEPT !.todo = seen]]
  BY DEF ScanPositions, Remember
<1>2. mem'[c].todo = seen
  BY <1>1 DEF IInv, TypeOK, Memories
<1>3. UNCHANGED <<fill, opened, close, ledger>> /\ opened \subseteq Tickets
  BY DEF ScanPositions, Local, rows, IInv, TypeOK
<1>4. CASE t \notin seen
  <2>1. /\ seen \subseteq opened /\ Cardinality(seen) = PositionScanLimit
        /\ \A u \in seen : OpenedAt[u] <= OpenedAt[t]
    BY <1>1, <1>4 DEF Oldest
  <2>2. \A u \in seen : fill[u].at <= fill[t].at
    BY <1>3, <2>1 DEF OpenedAt
  <2>3. {} \cup seen = seen
    OBVIOUS
  <2>4. FullBefore(t, {}, mem[c].todo)'
    BY <1>2, <1>3, <2>1, <2>2, <2>3 DEF FullBefore
  <2>5. {} \in SUBSET opened'
    OBVIOUS
  <2> QED
    BY <2>4, <2>5
<1> QED
  BY <1>2, <1>4

\* Every step keeps one cycle at a time and what its scan has found.
LEMMA CyclesKnownStep == IInv /\ [Next]_vars => CyclesKnown'
<1> SUFFICES ASSUME IInv, [Next]_vars, CyclesOnly
             PROVE  (CycleLocked /\ ScanKnown /\ OneActiveInSight)'
  BY DEF CyclesKnown, CyclesOnly
<1>0. TypeOK /\ CycleLocked /\ ScanKnown /\ OneActiveInSight
  BY DEF IInv, CyclesKnown
<1>1. CASE UNCHANGED <<rows, lock, pc, mem>>
  <2>1. CycleLocked'
    BY <1>0, <1>1 DEF CycleLocked
  <2>2. \A t : /\ Closed(t)' <=> Closed(t)
               /\ Settled(t)' <=> Settled(t)
    BY <1>1 DEF Closed, Settled, Accounted, rows
  <2>3. \A t : Behind(t)' <=> Behind(t)
    BY <1>1, <2>2 DEF Behind, FullBefore, rows
  <2>4. OneActiveInSight'
    BY <1>0, <1>1, <2>2, <2>3 DEF OneActiveInSight, rows
  <2>5. ASSUME NEW d \in Commands, NEW t \in opened
        PROVE  (\E done \in SUBSET opened : FullBefore(t, done, mem[d].todo))
                 => (\E done \in SUBSET opened :
                       FullBefore(t, done, mem[d].todo))'
    BY <1>1, <2>2 DEF FullBefore, rows
  <2>6. opened' = opened /\ pc' = pc /\ mem' = mem
    BY <1>1 DEF rows
  <2>7. ScanKnown'
    BY <1>0, <2>2, <2>3, <2>5, <2>6 DEF ScanKnown
  <2> QED
    BY <2>1, <2>4, <2>7
<1>2. ASSUME NEW c \in Commands, CommandStep(c)
      PROVE  (CycleLocked /\ ScanKnown /\ OneActiveInSight)'
  <2>1. Moved(c)
    BY <1>0, <1>2, CommandMoves
  <2>2. CycleLocked'
    <3>1. /\ lock' \subseteq lock \/ (lock = {} /\ lock' = {c})
          /\ \A d \in lock \ {c} : d \in lock'
      BY <1>2, LockPasses
    <3>2. \A x, y \in lock' : x = y
      BY <1>0, <3>1 DEF CycleLocked
    <3>3. ASSUME NEW d \in Commands
          PROVE  /\ mem'[d].kind = "auto-cycle" => d \in lock'
                 /\ pc'[d] \in CycleSteps => mem'[d].kind = "auto-cycle"
      <4>1. CASE d = c
        BY <1>0, <1>2, <4>1, CycleHasLock
      <4>2. CASE d # c
        BY <1>0, <2>1, <3>1, <4>2 DEF Moved, CycleLocked
      <4> QED
        BY <4>1, <4>2
    <3> QED
      BY <3>2, <3>3 DEF CycleLocked
  <2>3. /\ \A t \in Tickets : Closed(t) => Closed(t)'
        /\ \A t \in opened, done, ahead \in SUBSET opened :
             FullBefore(t, done, ahead) => FullBefore(t, done, ahead)'
        /\ \A t \in opened : Behind(t) => Behind(t)'
    BY <1>2, HiddenStays
  <2>4. opened \subseteq Tickets /\ opened' \subseteq Tickets
    BY <1>0, TypeOKStep DEF TypeOK
  <2>5. CASE WritePosition(c)
    <3>1. /\ pc[c] = "write position"
          /\ opened' = opened \cup mem[c].ticket
          /\ pc'[c] \in {"idle", "cycle"}
      BY <1>0, <2>5 DEF WritePosition, Done, End, TypeOK
    <3>2. \A t \in opened : Closed(t) \/ Behind(t)
      BY <1>0, <3>1 DEF ScanKnown, EntrySteps
    <3>3. \A t, u \in mem[c].ticket : t = u
      BY <1>0 DEF TypeOK, Memories
    <3>4. \A t \in opened : Closed(t)' \/ Behind(t)'
      BY <2>3, <2>4, <3>2
    <3>5. OneActiveInSight'
      BY <3>1, <3>3, <3>4 DEF OneActiveInSight
    <3>6. mem[c].kind = "auto-cycle" /\ c \in lock
      BY <1>0, <3>1 DEF CycleLocked, CycleSteps, EntrySteps
    <3>7. ASSUME NEW d \in Commands
          PROVE  pc'[d] \notin EntrySteps /\ pc'[d] # "visit"
      <4>1. CASE d = c
        BY <3>1, <4>1 DEF EntrySteps
      <4>2. CASE d # c
        BY <1>0, <2>1, <3>6, <4>2 DEF Moved, CycleLocked, CycleSteps
      <4> QED
        BY <4>1, <4>2
    <3> QED
      BY <2>2, <3>5, <3>7 DEF ScanKnown
  <2>6. CASE ~WritePosition(c)
    <3>1. opened' = opened
      BY <1>2, <2>6, CommandFrame
    <3>2. OneActiveInSight'
      BY <1>0, <2>3, <2>4, <3>1 DEF OneActiveInSight
    <3> DEFINE Seen(d, t) ==
          \/ mem[d].active \/ t \in mem[d].todo
          \/ \E done \in SUBSET opened : FullBefore(t, done, mem[d].todo)
    <3>3. ASSUME NEW d \in Commands, NEW t \in opened,
                 ~Closed(t)', ~Behind(t)'
          PROVE  /\ pc'[d] \notin EntrySteps
                 /\ pc'[d] = "visit" => Seen(d, t)'
      <4>0. ~Closed(t) /\ ~Behind(t)
        BY <2>3, <2>4, <3>3
      <4>1. /\ pc[d] \notin EntrySteps
            /\ pc[d] = "visit" => Seen(d, t)
        BY <1>0, <4>0 DEF ScanKnown
      <4>2. CASE d # c
        <5>1. pc'[d] = pc[d] /\ mem'[d] = mem[d]
          BY <2>1, <4>2 DEF Moved
        <5>2. ASSUME NEW done \in SUBSET opened, NEW ahead,
                     ahead = mem[d].todo, FullBefore(t, done, ahead)
              PROVE  FullBefore(t, done, ahead)' /\ ahead = mem'[d].todo
          <6>1. ahead \in SUBSET opened
            BY <5>2 DEF FullBefore
          <6> QED
            BY <2>3, <5>1, <5>2, <6>1
        <5>3. pc[d] = "visit" => Seen(d, t)'
          BY <3>1, <4>1, <5>1, <5>2
        <5> QED
          BY <4>1, <5>1, <5>3
      <4>3. ASSUME d = c PROVE pc'[d] \notin EntrySteps
        <5>1. ASSUME EndOfScan(c), pc[c] = "visit", mem[c].todo = {},
                     ~mem[c].active
              PROVE  FALSE
          <6>1. PICK done \in SUBSET opened : FullBefore(t, done, {})
            BY <4>1, <4>3, <5>1
          <6> QED
            BY <4>0, <6>1 DEF Behind
        <5> QED
          BY <1>0, <1>2, <4>1, <4>3, <5>1, ComesToScan
      <4>4. ASSUME d = c, pc'[c] = "visit"
            PROVE  Seen(c, t)'
        <5>1. CASE ScanPositions(c)
          BY <5>1, ScanBegins
        <5>2. CASE Visit(c) /\ pc[c] = "visit"
          <6>1. PICK u \in mem[c].todo :
                  /\ Go(c, "visit", CASE ~Closed(u) -> "exit quote"
                                      [] Settled(u) -> "visit"
                                      [] OTHER -> "account")
                  /\ Remember(c, [mem[c] EXCEPT !.todo = @ \ {u},
                                    !.ticket = IF Settled(u) THEN {} ELSE {u}])
            BY <5>2 DEF Visit
          <6>2. Closed(u) /\ Settled(u)
            BY <1>0, <4>4, <6>1 DEF Go, TypeOK, Settled
          <6>3. mem'[c].todo = mem[c].todo \ {u} /\ mem'[c].active = mem[c].active
            BY <1>0, <6>1 DEF Remember, TypeOK, Memories
          <6>4. CASE t \in mem[c].todo \/ mem[c].active
            BY <4>0, <6>2, <6>3, <6>4
          <6>5. ASSUME NEW done \in SUBSET opened,
                       FullBefore(t, done, mem[c].todo)
                PROVE  Seen(c, t)'
            <7>1. done \cup mem[c].todo \subseteq opened
              BY <6>5 DEF FullBefore
            <7>2. (done \cup {u}) \cup (mem[c].todo \ {u}) = done \cup mem[c].todo
              BY <6>1
            <7>3. FullBefore(t, done \cup {u}, mem[c].todo \ {u})
              BY <6>1, <6>2, <6>5, <7>2 DEF FullBefore
            <7>4. PICK W \in SUBSET opened, T \in SUBSET opened :
                    /\ W = done \cup {u} /\ T = mem[c].todo \ {u}
                    /\ FullBefore(t, W, T)
              BY <6>1, <7>1, <7>3
            <7>5. FullBefore(t, W, T)'
              BY <2>3, <7>4
            <7>6. W \in SUBSET opened' /\ T = mem'[c].todo
              BY <3>1, <6>3, <7>4
            <7> QED
              BY <7>5, <7>6
          <6> QED
            BY <4>1, <4>4, <5>2, <6>4, <6>5
        <5> QED
          BY <1>0, <1>2, <4>4, <5>1, <5>2, ComesToScan
      <4> QED
        BY <4>2, <4>3, <4>4
    <3>4. ScanKnown'
      BY <3>1, <3>3 DEF ScanKnown
    <3> QED
      BY <2>2, <3>2, <3>4
  <2> QED
    BY <2>5, <2>6
<1> QED
  BY <1>1, <1>2 DEF Next, vars, rows, history, ToggleKillSwitch, Tick

\* The initial states satisfy the invariant.
LEMMA IInvInit == Init => IInv
<1> SUFFICES ASSUME Init PROVE IInv
  OBVIOUS
<1>1. 0 \in Instant
  BY LedgerAssumption DEF Instant
<1>2. \A t \in Tickets : ~Closed(t)
  BY DEF Init, Closed
<1>3. TypeOK
  <2>1. Absent \in Rows
    BY DEF Absent, Rows
  <2>2. created \in [Tickets -> Instant \cup {-1}]
    BY <1>1 DEF Init
  <2>3. /\ fill \in [Tickets -> Rows] /\ close \in [Tickets -> Rows]
        /\ opened \subseteq Tickets /\ ledger \subseteq Events
    BY <2>1 DEF Init
  <2>4. pc \in [Commands -> Steps] /\ mem \in [Commands -> Memories]
    BY BlankTyped DEF Init, Steps
  <2> QED
    BY <1>1, <2>2, <2>3, <2>4 DEF Init, TypeOK
<1>4. ledger = {} /\ \A c \in Commands : pc[c] = "idle"
  BY DEF Init
<1>5. ExposedKnown /\ LateKnown
  BY <1>4 DEF Init, ExposedKnown, LateKnown, WriteSteps
<1>6. CyclesKnown
  BY <1>4 DEF Init, Blank, CyclesKnown, CycleLocked, ScanKnown,
     OneActiveInSight, CycleSteps, EntrySteps
<1>7. EntriesAreFilled
  BY <1>4 DEF Init, EntriesAreFilled
<1> QED
  BY <1>2, <1>3, <1>4, <1>5, <1>6, <1>7 DEF IInv, StartsAreDated, ResultsKnown,
     ClosesAreWhole, AccountsClose, NextEventKnown, LedgerContinuous,
     ValidateEquityEventSequence

\* IInv is an invariant of the specification.
THEOREM Invariance == Spec => []IInv
<1>1. IInv /\ [Next]_vars => IInv'
  BY TypeOKStep, StartsAreDatedStep, ResultsKnownStep, ClosesAreWholeStep,
     AccountsCloseStep, NextEventKnownStep, LedgerContinuousStep,
     ExposedKnownStep, LateKnownStep, EntriesAreFilledStep, CyclesKnownStep
  DEF IInv
<1> QED BY IInvInit, <1>1, PTL DEF Spec

\* The types of the tables, for any commands and any interleaving.
THEOREM TypeCorrect == Spec => []TypeOK
<1>1. IInv => TypeOK
  BY DEF IInv
<1> QED BY Invariance, <1>1, PTL

\* Whatever settlements race on, the ledger is numbered without gap, each
\* event starts from the equity the one before left, no earlier in time, no
\* close is accounted twice and every event has the result of its close.
THEOREM LedgerNeverBreaks == Spec => []LedgerContinuous
<1>1. IInv => LedgerContinuous
  BY DEF IInv
<1> QED BY Invariance, <1>1, PTL

\* When all fills are written by cycles, of two positions open together one is
\* behind as many settled positions, none younger, as a scan returns.  The lock
\* leaves one cycle at a time, and it enters only when its scan has come upon
\* no active position, whatever settlements close meanwhile: only the LIMIT of
\* the scan lets it enter beside one.
THEOREM OnePositionInSight ==
  ASSUME CyclesOnly
  PROVE  Spec => []OneActiveInSight
<1>1. IInv => OneActiveInSight
  BY DEF IInv, CyclesKnown
<1> QED BY Invariance, <1>1, PTL

\* Lifecycle commands that race move the validation forward only: UPDATE
\* names the status that was read.
THEOREM StatusForward == Spec => StatusMoves
<1>1. [Next]_vars =>
        [\/ status = "PLANNED" /\ status' \in {"RUNNING", "CANCELLED"}
         \/ status = "RUNNING" /\ status' \in {"COMPLETED", "CANCELLED"}]_status
  <2> SUFFICES ASSUME [Next]_vars, status' # status
         PROVE \/ status = "PLANNED" /\ status' \in {"RUNNING", "CANCELLED"}
               \/ status = "RUNNING" /\ status' \in {"COMPLETED", "CANCELLED"}
    OBVIOUS
  <2>1. PICK c \in Commands : CommandStep(c)
    BY DEF Next, ToggleKillSwitch, Tick, vars, rows
  <2>2. WriteStart(c) \/ WriteComplete(c) \/ WriteCancel(c)
    BY <2>1, CommandFrame
  <2> QED
    BY <2>2 DEF WriteStart, WriteComplete, WriteCancel, Leave
<1> QED BY <1>1, PTL DEF Spec, StatusMoves

\* While the Kill Switch is armed, no entry that had not read it inactive
\* before writes a fill, whichever commands run beside it.
THEOREM FillsAreGated == Spec => FillsHonourKillSwitch
<1>1. IInv => TypeOK /\ ExposedKnown
  BY DEF IInv
<1>2. TypeOK /\ ExposedKnown /\ [Next]_vars =>
        [killSwitch /\ fill' # fill => \E c \in exposed : pc'[c] # pc[c]]_fill
  <2> SUFFICES ASSUME TypeOK, ExposedKnown, [Next]_vars, killSwitch,
                      fill' # fill
               PROVE  \E c \in exposed : pc'[c] # pc[c]
    OBVIOUS
  <2>1. PICK c \in Commands : CommandStep(c)
    BY DEF Next, ToggleKillSwitch, Tick, vars, rows
  <2>2. WriteFill(c)
    BY <2>1, CommandFrame
  <2>3. pc[c] = "write fill" /\ pc'[c] = "open"
    BY <2>2 DEF WriteFill, Go, TypeOK
  <2>4. ASSUME NEW t \in Tickets, Of(c, t) PROVE ~Filled(t)
    <3>1. PICK u \in Tickets :
            /\ Of(c, u)
            /\ fill[u] \in {Absent, [at |-> mem[c].at,
                             recorded |-> mem[c].recorded, pnl |-> 0]}
            /\ fill' = [fill EXCEPT ![u] = [at |-> mem[c].at,
                         recorded |-> mem[c].recorded, pnl |-> 0]]
      BY <2>2 DEF WriteFill
    <3>2. u = t
      BY <2>4, <3>1 DEF Of
    <3> QED
      BY <3>1, <3>2 DEF Filled, TypeOK
  <2>5. c \in exposed
    BY <2>3, <2>4 DEF ExposedKnown
  <2> QED
    BY <2>3, <2>5
<1> QED BY <1>1, <1>2, Invariance, PTL DEF Spec, FillsHonourKillSwitch

\* Outside of the RUNNING period a row is written only by a command that had
\* passed its check when the period ended, whatever the commands.
THEOREM LateWritesAreChecked == Spec => LateWritesWereChecked
<1>1. IInv => TypeOK /\ LateKnown
  BY DEF IInv
<1>2. TypeOK /\ LateKnown /\ [Next]_vars =>
        [\A c \in Commands :
           ~Running /\ status' = status /\ pc'[c] # pc[c]
             /\ <<created, fill, opened, close, ledger>>'
                  # <<created, fill, opened, close, ledger>>
           => c \in late]_<<rows, pc>>
  <2> SUFFICES ASSUME TypeOK, LateKnown, [Next]_vars, ~Running,
                      NEW c \in Commands, pc'[c] # pc[c],
                      <<created, fill, opened, close, ledger>>'
                        # <<created, fill, opened, close, ledger>>
               PROVE  c \in late
    OBVIOUS
  <2>1. PICK d \in Commands : CommandStep(d)
    BY DEF Next, ToggleKillSwitch, Tick, vars, rows
  <2>2. d = c
    BY <2>1, CommandMoves DEF Moved
  <2>3. \/ WriteTicket(c) \/ WriteFill(c) \/ WritePosition(c)
        \/ WriteClose(c) \/ WriteEvent(c)
    BY <2>1, <2>2, CommandFrame
  <2>4. pc[c] \in WriteSteps
    BY <2>3 DEF WriteSteps, WriteTicket, WriteFill, WritePosition, WriteClose,
       WriteEvent, Go
  <2> QED
    BY <2>4 DEF LateKnown
<1> QED BY <1>1, <1>2, Invariance, PTL DEF Spec, LateWritesWereChecked

-----------------------------------------------------------------------------
(* The ledger implements EquityAccount *)

\* The last event of a valid ledger is the one with the highest number.
LEMMA LastOf ==
  ASSUME NEW events, events \subseteq Events,
         ValidateEquityEventSequence(events),
         NEW last \in events \cup {Opening},
         \A d \in events : d.seq <= last.seq
  PROVE  (CHOOSE l \in events \cup {Opening} : IsLast(l, events)) = last
<1>1. \A d \in events : d.seq \in Nat \ {0}
  BY DEF Events
<1>2. IsLast(last, events)
  BY <1>1 DEF IsLast, Opening
<1>3. ASSUME NEW other \in events \cup {Opening}, IsLast(other, events)
      PROVE  other = last
  <2>1. CASE events = {}
    BY <2>1
  <2>2. CASE events # {}
    <3>1. other \in events /\ last \in events
      BY <1>2, <1>3, <2>2 DEF IsLast
    <3>2. other.seq = last.seq
      BY <1>1, <1>2, <1>3, <2>2, <3>1 DEF IsLast
    <3> QED
      BY <3>1, <3>2 DEF ValidateEquityEventSequence
  <2> QED
    BY <2>1, <2>2
<1> QED
  BY <1>2, <1>3

LEMMA LastIs ==
  ASSUME ledger \subseteq Events, ValidateEquityEventSequence(ledger),
         NEW last \in ledger \cup {Opening},
         \A d \in ledger : d.seq <= last.seq
  PROVE  Last = last
BY LastOf DEF Last

LEMMA LastIsNext ==
  ASSUME ledger' \subseteq Events, ValidateEquityEventSequence(ledger'),
         NEW last, last \in ledger' \cup {Opening},
         \A d \in ledger' : d.seq <= last.seq
  PROVE  Last' = last
BY LastOf DEF Last

Results == {<<t, close[t].pnl>> : t \in {u \in Tickets : Closed(u)}}
SettledTickets == {e.ticket : e \in ledger}

\* A close that is written is a close of the account; one written again is a
\* stutter.
LEMMA CloseImplements ==
  ASSUME IInv, NEW c \in Commands, WriteClose(c), UNCHANGED ledger
  PROVE  [Account!Next]_<<Results, SettledTickets, Last.after>>
<1>1. PICK t \in Tickets, row \in Rows :
        /\ row.at \in Instant /\ row.pnl \in Pnls
        /\ close[t] \in {Absent, row}
        /\ close' = [close EXCEPT ![t] = row]
  BY CloseWritten
<1>2. close \in [Tickets -> Rows]
  BY DEF IInv, TypeOK
<1>3. SettledTickets' = SettledTickets /\ Last' = Last
  BY DEF SettledTickets, Last
<1>4. row # Absent
  BY <1>1, LedgerAssumption DEF Absent, Instant
<1>5. CASE close[t] = row
  <2>1. close' = close
    BY <1>1, <1>2, <1>5
  <2> QED
    BY <1>3, <2>1 DEF Results, Closed
<1>6. CASE close[t] = Absent
  <2>1. ~Closed(t) /\ Closed(t)' /\ close'[t].pnl = row.pnl
    BY <1>1, <1>2, <1>4, <1>6 DEF Closed
  <2>2. \A u \in Tickets \ {t} : close'[u] = close[u]
    BY <1>1, <1>2
  <2>3. Results' = Results \cup {<<t, row.pnl>>}
    BY <2>1, <2>2 DEF Results, Closed
  <2>4. \A r \in Results : r[1] # t
    BY <2>1 DEF Results
  <2>5. Account!Close(t, row.pnl)
    BY <1>3, <2>3, <2>4 DEF Account!Close, Results, SettledTickets
  <2> QED
    BY <1>1, <2>5 DEF Account!Next
<1> QED
  BY <1>1, <1>5, <1>6

\* An event that is written settles its close.
LEMMA EventImplements ==
  ASSUME IInv, NEW c \in Commands, WriteEvent(c), LedgerContinuous',
         ledger' \subseteq Events
  PROVE  [Account!Next]_<<Results, SettledTickets, Last.after>>
<1>1. PICK t \in Tickets, last \in ledger \cup {Opening} :
        /\ Closed(t) /\ ~Accounted(t)
        /\ last.seq \in Nat /\ last.after \in Nat \ {0}
        /\ last.after + close[t].pnl \in Nat
        /\ \A d \in ledger : d.seq <= last.seq
        /\ ledger' = ledger \cup
             {[ticket |-> t, seq |-> last.seq + 1, before |-> last.after,
               after |-> last.after + close[t].pnl, at |-> close[t].at]}
        /\ close' = close
  BY EventWritten
<1> DEFINE new == [ticket |-> t, seq |-> last.seq + 1, before |-> last.after,
                   after |-> last.after + close[t].pnl, at |-> close[t].at]
<1>2. /\ new.ticket = t /\ new.seq = last.seq + 1
      /\ new.after = last.after + close[t].pnl
  OBVIOUS
<1>3. ledger' = ledger \cup {new}
  BY <1>1
<1> HIDE DEF new
<1>4. \A d \in ledger : d.seq \in Nat
  BY DEF IInv, TypeOK, Events
<1>5. Last = last
  BY <1>1, LastIs DEF IInv, TypeOK, LedgerContinuous
<1>6. Last' = new
  <2>1. \A d \in ledger' : d.seq <= new.seq
    BY <1>1, <1>2, <1>3, <1>4
  <2>2. ValidateEquityEventSequence(ledger')
    BY DEF LedgerContinuous, ValidateEquityEventSequence
  <2> QED
    BY <1>3, <2>1, <2>2, LastIsNext
<1>7. SettledTickets' = SettledTickets \cup {t} /\ t \notin SettledTickets
  BY <1>1, <1>2, <1>3 DEF SettledTickets, Accounted
<1>8. Results' = Results /\ <<t, close[t].pnl>> \in Results
  BY <1>1 DEF Results, Closed
<1>9. PICK v \in Pnls : v = close[t].pnl
  BY <1>1 DEF IInv, ClosesAreWhole
<1>10. Account!Settle(t, v)
  <2>1. last.after > 0 /\ last.after + v >= 0
    BY <1>1, <1>9
  <2>2. Last'.after = last.after + v
    BY <1>2, <1>6, <1>9
  <2>3. <<t, v>> \in Results
    BY <1>8, <1>9
  <2> QED
    BY <1>5, <1>7, <1>8, <2>1, <2>2, <2>3
       DEF Account!Settle, Results, SettledTickets
<1>11. t \in Tickets
  BY <1>1
<1> QED
  BY <1>10, <1>11 DEF Account!Next

\* Whatever the commands race on, the equity ledger is an account that takes
\* the result of each close once and never goes below zero.
THEOREM LedgerImplementsAccount == Spec => AccountImplemented
<1>1. Init => Account!Init
  <2> SUFFICES ASSUME Init PROVE Account!Init
    OBVIOUS
  <2>1. ledger = {} /\ \A t \in Tickets : ~Closed(t)
    BY DEF Init, Closed
  <2>2. Last = Opening
    BY <2>1 DEF Last, IsLast
  <2> QED
    BY <2>1, <2>2 DEF Account!Init, Opening
<1>2. IInv /\ IInv' /\ [Next]_vars =>
        [Account!Next]_<<Results, SettledTickets, Last.after>>
  <2> SUFFICES ASSUME IInv, IInv', [Next]_vars
               PROVE  [Account!Next]_<<Results, SettledTickets, Last.after>>
    OBVIOUS
  <2>1. CASE UNCHANGED <<close, ledger>>
    BY <2>1 DEF Results, Closed, SettledTickets, Last
  <2>2. ASSUME NEW c \in Commands, CommandStep(c)
        PROVE  [Account!Next]_<<Results, SettledTickets, Last.after>>
    <3>1. CASE WriteClose(c)
      BY <3>1, CloseImplements DEF WriteClose
    <3>2. CASE WriteEvent(c)
      BY <3>2, EventImplements DEF IInv, TypeOK
    <3> QED
      BY <2>1, <2>2, <3>1, <3>2, CommandFrame
  <2> QED
    BY <2>1, <2>2 DEF Next, ToggleKillSwitch, Tick, vars, rows
<1> QED BY <1>1, <1>2, Invariance, PTL
        DEF Spec, AccountImplemented, Account!Spec, Results, SettledTickets
=============================================================================
