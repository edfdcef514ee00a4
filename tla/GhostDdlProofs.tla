---------------------------- MODULE GhostDdlProofs ----------------------------
(***************************************************************************)
(* Proofs for GhostDdl, for any rows, values, instances, batch size and    *)
(* bounds: nothing written during a migration is missed by it, a write is  *)
(* refused only for the two causes the code leaves open, the old copy is   *)
(* never forgotten, and the table a migration works on stays a LiveTable.  *)
(***************************************************************************)
EXTENDS GhostDdl, FiniteSetTheorems, WellFoundedInduction, TLAPS

\* Ids come from one sequence: a row has one writer at a time, so its entries
\* carry different ids and the write under way has the greatest of them.
Ids ==
  /\ \A e \in entries \union read : e.id <= writes
  /\ \A p \in pend : p.id <= writes
  /\ \A p \in pend : \A e \in entries \union read : e.row = p.row => e.id < p.id
  /\ \A p, q \in pend : p.row = q.row => p = q
  /\ \A e, f \in entries \union read : e.row = f.row /\ e.id = f.id => e = f

\* One run at a time, and under the swap's lock nobody writes.
Held ==
  /\ \A i \in Instance : pc[i] \in Migrating \union Failing => holder = i
  /\ \A i \in Instance : pc[i] = "swap" => locked
  /\ locked => pend = {}

\* What createGhost has put in place at each of its statements, and that every
\* write is logged from the moment the trigger is there.
Prepared ==
  \A i \in Instance :
    /\ pc[i] \in {"create", "drop_log", "create_log", "add_trigger", "count"} => cursor = 0
    /\ pc[i] \in {"drop_log", "create_log", "add_trigger", "count"} =>
         "ghost" \in catalog /\ ghost = Empty
    /\ pc[i] = "create_log" => LogUnused /\ "changelog" \notin catalog
    /\ pc[i] = "add_trigger" /\ "trigger" \notin catalog => LogUnused /\ entries = {}
    /\ pc[i] \in Captured =>
         {"ghost", "trigger"} \subseteq catalog /\ \A p \in pend : p.logged

\* The copy has put nothing past its cursor, and what a replay has read are the
\* first entries of each row.
Ordered ==
  \A i \in Instance :
    /\ pc[i] = "copy" => \A r \in Row : r > cursor => ghost[r] = None
    /\ pc[i] \in {"replay1", "replay2"} /\ "changelog" \in catalog =>
         /\ read \subseteq entries
         /\ \A e \in read : \A f \in entries \ read : e.row = f.row => e.id < f.id

IInv == TypeOK /\ Ids /\ Held /\ Prepared /\ Ordered /\ NothingMissed

\* A pending cleanup names a changelog older than the one a trigger writes to.
OlderLogs ==
  /\ logOid <= runs
  /\ \A i \in Instance : pc[i] \in {"create", "drop_log", "create_log"} => logOid < runs
  /\ \A i \in Instance : \A t \in timers[i] :
       /\ t.log <= logOid
       /\ t.log = logOid => /\ "trigger" \notin catalog
                            /\ \A j \in Instance : pc[j] # "add_trigger"

\* Without a mishap a trigger stands on its ghost and its changelog.
Standing ==
  "trigger" \in catalog /\ mishaps = {} =>
    /\ {"ghost", "changelog"} \subseteq catalog
    /\ \A i \in Instance :
         pc[i] \notin {"drop_log", "create_log", "add_trigger", "undo_ghost", "undo_log"}

\* Nor does a run lose its changelog before it has a trigger.
LogThere ==
  mishaps = {} =>
    \A i \in Instance : pc[i] = "add_trigger" => "changelog" \in catalog

CauseInv == IInv /\ OlderLogs /\ Standing /\ LogThere

\* Row ids are numbers, and 0 stands for no row.
LEMMA RowIds == 0 \in Nat /\ \A r \in Row : r \in Nat /\ r # 0
BY ConstantsAssumption

-----------------------------------------------------------------------------
(* The last entry of a row.                                                *)

\* A bounded set of natural numbers that is not empty has a greatest element.
LEMMA GreatestExists ==
  ASSUME NEW S \in SUBSET Nat, S # {}, NEW b \in Nat, \A n \in S : n <= b
  PROVE  \E m \in S : \A n \in S : n <= m
<1> DEFINE T == {b - n : n \in S}
<1>1. T \subseteq Nat BY SMT
<1>2. PICK s \in S : TRUE OBVIOUS
<1>3. b - s \in T OBVIOUS
<1>4. PICK x \in T : \A y \in T : ~ (<<y, x>> \in OpToRel(<, Nat))
  BY <1>1, <1>3, NatLessThanWellFounded, WFMin, Zenon
<1>5. \A y \in T : ~ (y < x)
  BY <1>1, <1>4 DEF OpToRel
<1>6. PICK m \in S : x = b - m OBVIOUS
<1>7. \A n \in S : b - n \in T OBVIOUS
<1>8. \A n \in S : ~ (b - n < b - m) BY <1>5, <1>6, <1>7
<1> QED BY <1>8

\* A row with an entry has a last one.
LEMMA LastExists ==
  ASSUME NEW log \in SUBSET Entry, NEW b \in Nat, \A e \in log : e.id <= b,
         NEW r, EntriesOf(log, r) # {}
  PROVE  /\ LastOf(log, r) \in EntriesOf(log, r)
         /\ \A f \in EntriesOf(log, r) : f.id <= LastOf(log, r).id
<1> DEFINE S == {e.id : e \in EntriesOf(log, r)}
<1>1. S \in SUBSET Nat /\ \A n \in S : n <= b BY DEF EntriesOf, Entry
<1>2. S # {} OBVIOUS
<1>3. PICK m \in S : \A n \in S : n <= m BY <1>1, <1>2, GreatestExists
<1>4. \E e \in EntriesOf(log, r) : \A f \in EntriesOf(log, r) : f.id <= e.id BY <1>3
<1> QED BY <1>4 DEF LastOf

\* An entry that no other of its row follows is the last one.
LEMMA LastIs ==
  ASSUME NEW log \in SUBSET Entry, NEW b \in Nat, \A e \in log : e.id <= b,
         \A e, f \in log : e.row = f.row /\ e.id = f.id => e = f,
         NEW r, NEW e \in EntriesOf(log, r), \A f \in EntriesOf(log, r) : f.id <= e.id
  PROVE  LastOf(log, r) = e
<1>1. /\ LastOf(log, r) \in EntriesOf(log, r)
      /\ \A f \in EntriesOf(log, r) : f.id <= LastOf(log, r).id
  BY LastExists
<1>2. /\ LastOf(log, r) \in log /\ LastOf(log, r).row = r
      /\ e \in log /\ e.row = r
  BY <1>1 DEF EntriesOf
<1>3. LastOf(log, r).id <= e.id /\ e.id <= LastOf(log, r).id BY <1>1
<1>4. LastOf(log, r).id \in Nat /\ e.id \in Nat BY <1>2 DEF Entry
<1>5. LastOf(log, r).id = e.id BY <1>3, <1>4
<1> QED BY <1>2, <1>5

\* A replay gives rows.
LEMMA ReplayedType ==
  ASSUME NEW rows \in [Row -> Content], NEW log \in SUBSET Entry,
         NEW b \in Nat, \A e \in log : e.id <= b
  PROVE  Replayed(rows, log) \in [Row -> Content]
<1> SUFFICES ASSUME NEW r \in Row, EntriesOf(log, r) # {}
             PROVE  LastOf(log, r).val \in Content
  BY DEF Replayed
<1>1. LastOf(log, r) \in log BY LastExists DEF EntriesOf
<1> QED BY <1>1 DEF Entry

-----------------------------------------------------------------------------
(* Types.                                                                  *)

\* The initial state satisfies the inductive invariant.
LEMMA InitIInv == Init => IInv
<1> SUFFICES ASSUME Init PROVE IInv OBVIOUS
<1>1. TypeOK
  BY ConstantsAssumption
  DEF Init, TypeOK, Content, Empty, Location
<1>2. Ids /\ Held
  BY DEF Init, Ids, Held, Migrating, Failing
<1>3. Prepared /\ Ordered /\ NothingMissed
  BY DEF Init, Prepared, Ordered, NothingMissed, Captured
<1> QED BY <1>1, <1>2, <1>3 DEF IInv

\* Every step keeps the types.
LEMMA TypeStep ==
  ASSUME IInv, [Next]_vars
  PROVE  TypeOK'
<1> USE ConstantsAssumption DEF IInv
<1>1. ASSUME NEW r \in Row, NEW v \in Content, Write(r, v) PROVE TypeOK'
  <2> DEFINE p == [id |-> writes + 1, row |-> r, val |-> v,
                   logged |-> "trigger" \in catalog]
  <2>1. p \in Pending BY DEF Pending, TypeOK
  <2> HIDE DEF p
  <2>2. pend' = pend \union {p} BY <1>1 DEF Write, p
  <2> QED BY <1>1, <2>1, <2>2 DEF Write, TypeOK, runVars, boundVars
<1>2. ASSUME NEW p \in pend, Commit(p) PROVE TypeOK'
  <2>1. p \in Pending BY DEF TypeOK
  <2>2. [id |-> p.id, row |-> p.row, val |-> p.val] \in Entry /\ p.row \in Row /\ p.val \in Content
    BY <2>1 DEF Pending, Entry
  <2>3. entries' \subseteq Entry BY <1>2, <2>2 DEF Commit, TypeOK
  <2> QED BY <1>2, <2>2, <2>3 DEF Commit, TypeOK, runVars, boundVars
<1>3. ASSUME NEW p \in pend, Abort(p) PROVE TypeOK'
  BY <1>3
    DEF Abort, tableVars, runVars, boundVars, TypeOK, Object, Location,
        Migrating, Failing, Sweeping
<1>4. ASSUME NEW i \in Instance, Start(i) PROVE TypeOK'
  BY <1>4
    DEF Start, Step, Goto, tableVars, runVars, boundVars, TypeOK, Object,
        Location, Migrating, Failing, Sweeping
<1>5. ASSUME NEW i \in Instance, CreateGhost(i) PROVE TypeOK'
  BY <1>5 DEF CreateGhost, Empty, Content, Step, Goto, tableVars, runVars, boundVars, TypeOK, Object,
     Location, Migrating
<1>6. ASSUME NEW i \in Instance, GhostExists(i) PROVE TypeOK'
  BY <1>6
    DEF GhostExists, Step, Goto, tableVars, runVars, boundVars, TypeOK,
        Object, Location, Migrating, Failing, Sweeping
<1>7. ASSUME NEW i \in Instance, DropLeftLog(i) PROVE TypeOK'
  BY <1>7
    DEF DropLeftLog, Step, Goto, LogUnused, tableVars, runVars, boundVars,
        TypeOK, Object, Location, Migrating, Failing, Sweeping
<1>8. ASSUME NEW i \in Instance, CreateLog(i) PROVE TypeOK'
  BY <1>8
    DEF CreateLog, Step, Goto, tableVars, runVars, boundVars, TypeOK, Object,
        Location, Migrating, Failing, Sweeping
<1>9. ASSUME NEW i \in Instance, AddTrigger(i) PROVE TypeOK'
  BY <1>9
    DEF AddTrigger, Step, Goto, tableVars, runVars, boundVars, TypeOK,
        Object, Location, Migrating, Failing, Sweeping
<1>10. ASSUME NEW i \in Instance, TriggerExists(i) PROVE TypeOK'
  BY <1>10
    DEF TriggerExists, Step, Goto, tableVars, runVars, boundVars, TypeOK,
        Object, Location, Migrating, Failing, Sweeping
<1>11. ASSUME NEW i \in Instance, CountRows(i) PROVE TypeOK'
  BY <1>11
    DEF CountRows, Step, Goto, Empty, tableVars, runVars, boundVars, TypeOK,
        Object, Location, Migrating, Failing, Sweeping
<1>12. ASSUME NEW i \in Instance, CopyBatch(i) PROVE TypeOK'
  <2>1. PICK batch \in SUBSET Ahead, last \in Row \union {0} :
          LET inserted == {r \in batch : ghost[r] = None} IN
          /\ ghost' = [r \in Row |-> IF r \in inserted THEN live[r] ELSE ghost[r]]
          /\ cursor' = last
          /\ Step(i, "copy", IF Cardinality(inserted) < BatchSize THEN "read1" ELSE "copy")
    BY <1>12 DEF CopyBatch
  <2>2. ghost' \in [Row -> Content] BY <2>1 DEF TypeOK
  <2>3. pc' \in [Instance -> Location] BY <2>1 DEF Step, Goto, TypeOK, Location, Migrating
  <2> QED BY <1>12, <2>1, <2>2, <2>3 DEF CopyBatch, TypeOK, tableVars, boundVars
<1>13. ASSUME NEW i \in Instance, NEW from, NEW to,
            <<from, to>> \in {<<"read1", "replay1">>, <<"read2", "replay2">>}, ReadChangelog(i, from, to) PROVE TypeOK'
  BY <1>13
    DEF ReadChangelog, Step, Goto, tableVars, runVars, boundVars, TypeOK,
        Object, Location, Migrating, Failing, Sweeping
<1>14. ASSUME NEW i \in Instance, NEW from, NEW to,
            <<from, to>> \in {<<"replay1", "read2">>, <<"replay2", "lock">>}, ReplayChangelog(i, from, to) PROVE TypeOK'
  <2>1. Replayed(ghost, read) \in [Row -> Content]
    BY ReplayedType DEF TypeOK, Ids
  <2> QED BY <1>14, <2>1
    DEF ReplayChangelog, Step, Goto, TypeOK, Location, Migrating, tableVars, boundVars
<1>15. ASSUME NEW i \in Instance, LockTable(i) PROVE TypeOK'
  BY <1>15
    DEF LockTable, Step, Goto, tableVars, runVars, boundVars, TypeOK, Object,
        Location, Migrating, Failing, Sweeping
<1>16. ASSUME NEW i \in Instance, Swap(i) PROVE TypeOK'
  <2>1. Replayed(ghost, entries) \in [Row -> Content]
    BY ReplayedType DEF TypeOK, Ids
  <2>2. [old |-> shape + 1, log |-> logOid] \in [old : Nat, log : Nat] BY DEF TypeOK
  <2>3. timers' \in [Instance -> SUBSET [old : Nat, log : Nat]]
    BY <1>16, <2>2 DEF Swap, TypeOK
  <2> QED BY <1>16, <2>1, <2>3
    DEF Swap, SwapTables, Step, Goto, TypeOK, Location, Object, Empty, Content, boundVars
<1>17. ASSUME NEW i \in Instance, SwapAnswerLost(i) PROVE TypeOK'
  <2>1. Replayed(ghost, entries) \in [Row -> Content]
    BY ReplayedType DEF TypeOK, Ids
  <2>2. pc' \in [Instance -> Location]
    BY <1>17 DEF SwapAnswerLost, Step, Goto, TypeOK, Location, Failing
  <2>3. locked' \in BOOLEAN BY <1>17 DEF SwapAnswerLost, SwapTables
  <2>4. faults' \in Nat /\ shape' \in Nat /\ oldOid' \in Nat
    BY <1>17 DEF SwapAnswerLost, SwapTables, TypeOK
  <2>5. ghost' \in [Row -> Content]
    BY <1>17 DEF SwapAnswerLost, SwapTables, Empty, Content
  <2>6. catalog' \subseteq Object
    BY <1>17 DEF SwapAnswerLost, SwapTables, TypeOK, Object
  <2>7. entries' \subseteq Entry
    BY <1>17 DEF SwapAnswerLost, SwapTables
  <2> QED BY <1>17, <2>1, <2>2, <2>3, <2>4, <2>5, <2>6, <2>7, Zenon
    DEF SwapAnswerLost, SwapTables, TypeOK, runVars
<1>19. ASSUME NEW i \in Instance, RunRefused(i) PROVE TypeOK'
  BY <1>19
    DEF RunRefused, Refused, Goto, tableVars, runVars, boundVars, TypeOK, Object,
        Location, Migrating, Failing, Sweeping
<1>20. ASSUME NEW i \in Instance, StepFails(i) PROVE TypeOK'
  <2>1. pc' \in [Instance -> Location]
    BY <1>20 DEF StepFails, Goto, TypeOK, Location, Failing
  <2>2. locked' \in BOOLEAN BY <1>20 DEF StepFails
  <2>3. faults' \in Nat BY <1>20 DEF StepFails, TypeOK
  <2> QED BY <1>20, <2>1, <2>2, <2>3, Zenon DEF StepFails, TypeOK, tableVars, runVars
<1>21. ASSUME NEW i \in Instance, UndoTrigger(i) PROVE TypeOK'
  BY <1>21
    DEF UndoTrigger, Step, Goto, tableVars, runVars, boundVars, TypeOK,
        Object, Location, Migrating, Failing, Sweeping
<1>22. ASSUME NEW i \in Instance, UndoTriggerFails(i) PROVE TypeOK'
  BY <1>22
    DEF UndoTriggerFails, Step, Goto, tableVars, runVars, boundVars, TypeOK,
        Object, Location, Migrating, Failing, Sweeping
<1>23. ASSUME NEW i \in Instance, UndoGhost(i) PROVE TypeOK'
  BY <1>23 DEF UndoGhost, Empty, Content, Step, Goto, tableVars, runVars, boundVars, TypeOK, Object,
     Location, Failing
<1>24. ASSUME NEW i \in Instance, UndoLog(i) PROVE TypeOK'
  BY <1>24
    DEF UndoLog, Step, Goto, LogUnused, tableVars, runVars, boundVars,
        TypeOK, Object, Location, Migrating, Failing, Sweeping
<1>25. ASSUME NEW i \in Instance, UndoFails(i) PROVE TypeOK'
  BY <1>25
    DEF UndoFails, Goto, tableVars, runVars, boundVars, TypeOK, Object,
        Location, Migrating, Failing, Sweeping
<1>26. ASSUME NEW i \in Instance, NEW t \in timers[i], Cleanup(i, t) PROVE TypeOK'
  BY <1>26 DEF Cleanup, TypeOK, tableVars, runVars, boundVars
<1>27. ASSUME NEW i \in Instance, NEW t \in timers[i], CleanupFails(i, t) PROVE TypeOK'
  BY <1>27
    DEF CleanupFails, tableVars, runVars, boundVars, TypeOK, Object,
        Location, Migrating, Failing, Sweeping
<1>28. ASSUME NEW i \in Instance, Crash(i) PROVE TypeOK'
  BY <1>28
    DEF Crash, Goto, tableVars, runVars, boundVars, TypeOK, Object, Location,
        Migrating, Failing, Sweeping
<1>29. ASSUME NEW i \in Instance, Boot(i) PROVE TypeOK'
  BY <1>29
    DEF Boot, Step, Goto, tableVars, runVars, boundVars, TypeOK, Object,
        Location, Migrating, Failing, Sweeping
<1>30. ASSUME NEW i \in Instance, SweepLog(i) PROVE TypeOK'
  BY <1>30
    DEF SweepLog, Step, Goto, LogUnused, tableVars, runVars, boundVars,
        TypeOK, Object, Location, Migrating, Failing, Sweeping
<1>31. ASSUME NEW i \in Instance, SweepOld(i) PROVE TypeOK'
  BY <1>31
    DEF SweepOld, Step, Goto, tableVars, runVars, boundVars, TypeOK, Object,
        Location, Migrating, Failing, Sweeping
<1>32. ASSUME NEW i \in Instance, SweepFails(i) PROVE TypeOK'
  BY <1>32
    DEF SweepFails, Goto, tableVars, runVars, boundVars, TypeOK, Object,
        Location, Migrating, Failing, Sweeping
<1>33. CASE UNCHANGED vars
  BY <1>33
    DEF vars, TypeOK, Object, Location, Migrating, Failing, Sweeping
<1> QED
  BY <1>1, <1>2, <1>3, <1>4, <1>5, <1>6, <1>7, <1>8, <1>9, <1>10, <1>11,
     <1>12, <1>13, <1>14, <1>15, <1>16, <1>17, <1>19, <1>20, <1>21,
     <1>22, <1>23, <1>24, <1>25, <1>26, <1>27, <1>28, <1>29, <1>30, <1>31,
     <1>32, <1>33
    DEF Next, RunStep, Settle, Fault

-----------------------------------------------------------------------------
(* The ids, the lock and what createGhost puts in place.                   *)

\* Every step keeps the order of the ids.
LEMMA IdsStep ==
  ASSUME IInv, [Next]_vars
  PROVE  Ids'
<1> USE DEF IInv
<1>1. ASSUME NEW r \in Row, NEW v \in Content, Write(r, v) PROVE Ids'
  <2> DEFINE w == [id |-> writes + 1, row |-> r, val |-> v,
                   logged |-> "trigger" \in catalog]
  <2>1. w.id = writes + 1 /\ w.row = r OBVIOUS
  <2> HIDE DEF w
  <2>2. /\ pend' = pend \union {w} /\ writes' = writes + 1
        /\ entries' = entries /\ read' = read
        /\ \A p \in pend : p.row # r
    BY <1>1 DEF Write, runVars, w
  <2>3. /\ \A e \in entries \union read : e.id \in Nat
        /\ \A p \in pend : p.id \in Nat
        /\ writes \in Nat
    BY DEF TypeOK, Entry, Pending
  <2> QED BY <2>1, <2>2, <2>3 DEF Ids
<1>2. ASSUME NEW p \in pend, Commit(p) PROVE Ids'
  <2> DEFINE n == [id |-> p.id, row |-> p.row, val |-> p.val]
  <2>1. n.id = p.id /\ n.row = p.row OBVIOUS
  <2> HIDE DEF n
  <2>2. /\ pend' \subseteq pend /\ p \notin pend' /\ writes' = writes
        /\ entries' \subseteq entries \union {n} /\ read' = read
    BY <1>2 DEF Commit, runVars, n
  <2>3. /\ \A e \in entries \union read : e.id \in Nat
        /\ \A q \in pend : q.id \in Nat
        /\ writes \in Nat
    BY DEF TypeOK, Entry, Pending
  <2> QED BY <2>1, <2>2, <2>3 DEF Ids
<1>3. ASSUME NEW p \in pend, Abort(p) PROVE Ids'
  BY <1>3 DEF Abort, Ids, runVars
<1>4. ASSUME NEW i \in Instance, Start(i) PROVE Ids'
  BY <1>4
    DEF Start, Step, Goto, tableVars, runVars, boundVars, Ids
<1>5. ASSUME NEW i \in Instance, CreateGhost(i) PROVE Ids'
  BY <1>5
    DEF CreateGhost, Step, Goto, Empty, tableVars, runVars, boundVars, Ids
<1>6. ASSUME NEW i \in Instance, GhostExists(i) PROVE Ids'
  BY <1>6
    DEF GhostExists, Step, Goto, tableVars, runVars, boundVars, Ids
<1>7. ASSUME NEW i \in Instance, DropLeftLog(i) PROVE Ids'
  BY <1>7
    DEF DropLeftLog, Step, Goto, LogUnused, tableVars, runVars, boundVars, Ids
<1>8. ASSUME NEW i \in Instance, CreateLog(i) PROVE Ids'
  BY <1>8
    DEF CreateLog, Step, Goto, tableVars, runVars, boundVars, Ids
<1>9. ASSUME NEW i \in Instance, AddTrigger(i) PROVE Ids'
  BY <1>9
    DEF AddTrigger, Step, Goto, tableVars, runVars, boundVars, Ids
<1>10. ASSUME NEW i \in Instance, TriggerExists(i) PROVE Ids'
  BY <1>10
    DEF TriggerExists, Step, Goto, tableVars, runVars, boundVars, Ids
<1>11. ASSUME NEW i \in Instance, CountRows(i) PROVE Ids'
  BY <1>11
    DEF CountRows, Step, Goto, Empty, tableVars, runVars, boundVars, Ids
<1>12. ASSUME NEW i \in Instance, CopyBatch(i) PROVE Ids'
  BY <1>12
    DEF CopyBatch, Step, Goto, IsFirst, IsLast, Ahead, RowsOf, tableVars,
        runVars, boundVars, Ids
<1>13. ASSUME NEW i \in Instance, NEW from, NEW to,
            <<from, to>> \in {<<"read1", "replay1">>, <<"read2", "replay2">>}, ReadChangelog(i, from, to) PROVE Ids'
  BY <1>13
    DEF ReadChangelog, Step, Goto, tableVars, runVars, boundVars, Ids
<1>14. ASSUME NEW i \in Instance, NEW from, NEW to,
            <<from, to>> \in {<<"replay1", "read2">>, <<"replay2", "lock">>}, ReplayChangelog(i, from, to) PROVE Ids'
  BY <1>14
    DEF ReplayChangelog, Step, Goto, tableVars, runVars, boundVars, Ids
<1>15. ASSUME NEW i \in Instance, LockTable(i) PROVE Ids'
  BY <1>15
    DEF LockTable, Step, Goto, tableVars, runVars, boundVars, Ids
<1>16. ASSUME NEW i \in Instance, Swap(i) PROVE Ids'
  BY <1>16
    DEF Swap, Step, Goto, SwapTables, Empty, tableVars, runVars, boundVars,
        Ids
<1>17. ASSUME NEW i \in Instance, SwapAnswerLost(i) PROVE Ids'
  BY <1>17
    DEF SwapAnswerLost, Step, Goto, SwapTables, Empty, tableVars, runVars,
        boundVars, Ids
<1>19. ASSUME NEW i \in Instance, RunRefused(i) PROVE Ids'
  BY <1>19
    DEF RunRefused, Refused, Goto, tableVars, runVars, boundVars, Ids
<1>20. ASSUME NEW i \in Instance, StepFails(i) PROVE Ids'
  BY <1>20
    DEF StepFails, Goto, tableVars, runVars, boundVars, Ids
<1>21. ASSUME NEW i \in Instance, UndoTrigger(i) PROVE Ids'
  BY <1>21
    DEF UndoTrigger, Step, Goto, tableVars, runVars, boundVars, Ids
<1>22. ASSUME NEW i \in Instance, UndoTriggerFails(i) PROVE Ids'
  BY <1>22
    DEF UndoTriggerFails, Step, Goto, tableVars, runVars, boundVars, Ids
<1>23. ASSUME NEW i \in Instance, UndoGhost(i) PROVE Ids'
  BY <1>23
    DEF UndoGhost, Step, Goto, Empty, tableVars, runVars, boundVars, Ids
<1>24. ASSUME NEW i \in Instance, UndoLog(i) PROVE Ids'
  BY <1>24
    DEF UndoLog, Step, Goto, LogUnused, tableVars, runVars, boundVars, Ids
<1>25. ASSUME NEW i \in Instance, UndoFails(i) PROVE Ids'
  BY <1>25
    DEF UndoFails, Goto, tableVars, runVars, boundVars, Ids
<1>26. ASSUME NEW i \in Instance, NEW t \in timers[i], Cleanup(i, t) PROVE Ids'
  BY <1>26
    DEF Cleanup, LogUnused, tableVars, runVars, boundVars, Ids
<1>27. ASSUME NEW i \in Instance, NEW t \in timers[i], CleanupFails(i, t) PROVE Ids'
  BY <1>27
    DEF CleanupFails, tableVars, runVars, boundVars, Ids
<1>28. ASSUME NEW i \in Instance, Crash(i) PROVE Ids'
  BY <1>28
    DEF Crash, Goto, tableVars, runVars, boundVars, Ids
<1>29. ASSUME NEW i \in Instance, Boot(i) PROVE Ids'
  BY <1>29
    DEF Boot, Step, Goto, tableVars, runVars, boundVars, Ids
<1>30. ASSUME NEW i \in Instance, SweepLog(i) PROVE Ids'
  BY <1>30
    DEF SweepLog, Step, Goto, LogUnused, tableVars, runVars, boundVars, Ids
<1>31. ASSUME NEW i \in Instance, SweepOld(i) PROVE Ids'
  BY <1>31
    DEF SweepOld, Step, Goto, tableVars, runVars, boundVars, Ids
<1>32. ASSUME NEW i \in Instance, SweepFails(i) PROVE Ids'
  BY <1>32
    DEF SweepFails, Goto, tableVars, runVars, boundVars, Ids
<1>33. CASE UNCHANGED vars
  BY <1>33
    DEF vars, Ids
<1> QED
  BY <1>1, <1>2, <1>3, <1>4, <1>5, <1>6, <1>7, <1>8, <1>9, <1>10, <1>11,
     <1>12, <1>13, <1>14, <1>15, <1>16, <1>17, <1>19, <1>20, <1>21,
     <1>22, <1>23, <1>24, <1>25, <1>26, <1>27, <1>28, <1>29, <1>30, <1>31,
     <1>32, <1>33
    DEF Next, RunStep, Settle, Fault

\* Every step keeps one run and the lock's promise.
LEMMA HeldStep ==
  ASSUME IInv, [Next]_vars
  PROVE  Held'
<1> USE ConstantsAssumption DEF IInv, TypeOK
<1>1. ASSUME NEW r \in Row, NEW v \in Content, Write(r, v) PROVE Held'
  BY <1>1
    DEF Write, tableVars, runVars, boundVars, Held, Migrating, Failing,
        Sweeping
<1>2. ASSUME NEW p \in pend, Commit(p) PROVE Held'
  BY <1>2
    DEF Commit, tableVars, runVars, boundVars, Held, Migrating, Failing,
        Sweeping
<1>3. ASSUME NEW p \in pend, Abort(p) PROVE Held'
  BY <1>3
    DEF Abort, tableVars, runVars, boundVars, Held, Migrating, Failing,
        Sweeping
<1>4. ASSUME NEW i \in Instance, Start(i) PROVE Held'
  BY <1>4
    DEF Start, Step, Goto, tableVars, runVars, boundVars, Held, Migrating,
        Failing, Sweeping
<1>5. ASSUME NEW i \in Instance, CreateGhost(i) PROVE Held'
  BY <1>5
    DEF CreateGhost, Step, Goto, Empty, tableVars, runVars, boundVars, Held,
        Migrating, Failing, Sweeping
<1>6. ASSUME NEW i \in Instance, GhostExists(i) PROVE Held'
  BY <1>6
    DEF GhostExists, Step, Goto, tableVars, runVars, boundVars, Held,
        Migrating, Failing, Sweeping
<1>7. ASSUME NEW i \in Instance, DropLeftLog(i) PROVE Held'
  BY <1>7
    DEF DropLeftLog, Step, Goto, LogUnused, tableVars, runVars, boundVars,
        Held, Migrating, Failing, Sweeping
<1>8. ASSUME NEW i \in Instance, CreateLog(i) PROVE Held'
  BY <1>8
    DEF CreateLog, Step, Goto, tableVars, runVars, boundVars, Held,
        Migrating, Failing, Sweeping
<1>9. ASSUME NEW i \in Instance, AddTrigger(i) PROVE Held'
  BY <1>9
    DEF AddTrigger, Step, Goto, tableVars, runVars, boundVars, Held,
        Migrating, Failing, Sweeping
<1>10. ASSUME NEW i \in Instance, TriggerExists(i) PROVE Held'
  BY <1>10
    DEF TriggerExists, Step, Goto, tableVars, runVars, boundVars, Held,
        Migrating, Failing, Sweeping
<1>11. ASSUME NEW i \in Instance, CountRows(i) PROVE Held'
  BY <1>11
    DEF CountRows, Step, Goto, Empty, tableVars, runVars, boundVars, Held,
        Migrating, Failing, Sweeping
<1>12. ASSUME NEW i \in Instance, CopyBatch(i) PROVE Held'
  BY <1>12
    DEF CopyBatch, Step, Goto, IsFirst, IsLast, Ahead, RowsOf, tableVars,
        runVars, boundVars, Held, Migrating, Failing, Sweeping
<1>13. ASSUME NEW i \in Instance, NEW from, NEW to,
            <<from, to>> \in {<<"read1", "replay1">>, <<"read2", "replay2">>}, ReadChangelog(i, from, to) PROVE Held'
  BY <1>13
    DEF ReadChangelog, Step, Goto, tableVars, runVars, boundVars, Held,
        Migrating, Failing, Sweeping
<1>14. ASSUME NEW i \in Instance, NEW from, NEW to,
            <<from, to>> \in {<<"replay1", "read2">>, <<"replay2", "lock">>}, ReplayChangelog(i, from, to) PROVE Held'
  BY <1>14
    DEF ReplayChangelog, Step, Goto, tableVars, runVars, boundVars, Held,
        Migrating, Failing, Sweeping
<1>15. ASSUME NEW i \in Instance, LockTable(i) PROVE Held'
  BY <1>15
    DEF LockTable, Step, Goto, tableVars, runVars, boundVars, Held,
        Migrating, Failing, Sweeping
<1>16. ASSUME NEW i \in Instance, Swap(i) PROVE Held'
  BY <1>16
    DEF Swap, Step, Goto, SwapTables, Empty, tableVars, runVars, boundVars,
        Held, Migrating, Failing, Sweeping
<1>17. ASSUME NEW i \in Instance, SwapAnswerLost(i) PROVE Held'
  BY <1>17
    DEF SwapAnswerLost, Step, Goto, SwapTables, Empty, tableVars, runVars,
        boundVars, Held, Migrating, Failing, Sweeping
<1>19. ASSUME NEW i \in Instance, RunRefused(i) PROVE Held'
  BY <1>19
    DEF RunRefused, Refused, Goto, tableVars, runVars, boundVars, Held, Migrating,
        Failing, Sweeping
<1>20. ASSUME NEW i \in Instance, StepFails(i) PROVE Held'
  BY <1>20
    DEF StepFails, Goto, tableVars, runVars, boundVars, Held, Migrating,
        Failing, Sweeping
<1>21. ASSUME NEW i \in Instance, UndoTrigger(i) PROVE Held'
  BY <1>21
    DEF UndoTrigger, Step, Goto, tableVars, runVars, boundVars, Held,
        Migrating, Failing, Sweeping
<1>22. ASSUME NEW i \in Instance, UndoTriggerFails(i) PROVE Held'
  BY <1>22
    DEF UndoTriggerFails, Step, Goto, tableVars, runVars, boundVars, Held,
        Migrating, Failing, Sweeping
<1>23. ASSUME NEW i \in Instance, UndoGhost(i) PROVE Held'
  BY <1>23
    DEF UndoGhost, Step, Goto, Empty, tableVars, runVars, boundVars, Held,
        Migrating, Failing, Sweeping
<1>24. ASSUME NEW i \in Instance, UndoLog(i) PROVE Held'
  BY <1>24
    DEF UndoLog, Step, Goto, LogUnused, tableVars, runVars, boundVars, Held,
        Migrating, Failing, Sweeping
<1>25. ASSUME NEW i \in Instance, UndoFails(i) PROVE Held'
  BY <1>25
    DEF UndoFails, Goto, tableVars, runVars, boundVars, Held, Migrating,
        Failing, Sweeping
<1>26. ASSUME NEW i \in Instance, NEW t \in timers[i], Cleanup(i, t) PROVE Held'
  BY <1>26
    DEF Cleanup, LogUnused, tableVars, runVars, boundVars, Held, Migrating,
        Failing, Sweeping
<1>27. ASSUME NEW i \in Instance, NEW t \in timers[i], CleanupFails(i, t) PROVE Held'
  BY <1>27
    DEF CleanupFails, tableVars, runVars, boundVars, Held, Migrating,
        Failing, Sweeping
<1>28. ASSUME NEW i \in Instance, Crash(i) PROVE Held'
  BY <1>28
    DEF Crash, Goto, tableVars, runVars, boundVars, Held, Migrating, Failing,
        Sweeping
<1>29. ASSUME NEW i \in Instance, Boot(i) PROVE Held'
  BY <1>29
    DEF Boot, Step, Goto, tableVars, runVars, boundVars, Held, Migrating,
        Failing, Sweeping
<1>30. ASSUME NEW i \in Instance, SweepLog(i) PROVE Held'
  BY <1>30
    DEF SweepLog, Step, Goto, LogUnused, tableVars, runVars, boundVars, Held,
        Migrating, Failing, Sweeping
<1>31. ASSUME NEW i \in Instance, SweepOld(i) PROVE Held'
  BY <1>31
    DEF SweepOld, Step, Goto, tableVars, runVars, boundVars, Held, Migrating,
        Failing, Sweeping
<1>32. ASSUME NEW i \in Instance, SweepFails(i) PROVE Held'
  BY <1>32
    DEF SweepFails, Goto, tableVars, runVars, boundVars, Held, Migrating,
        Failing, Sweeping
<1>33. CASE UNCHANGED vars
  BY <1>33
    DEF vars, Held, Migrating, Failing, Sweeping
<1> QED
  BY <1>1, <1>2, <1>3, <1>4, <1>5, <1>6, <1>7, <1>8, <1>9, <1>10, <1>11,
     <1>12, <1>13, <1>14, <1>15, <1>16, <1>17, <1>19, <1>20, <1>21,
     <1>22, <1>23, <1>24, <1>25, <1>26, <1>27, <1>28, <1>29, <1>30, <1>31,
     <1>32, <1>33
    DEF Next, RunStep, Settle, Fault

\* Every step keeps what createGhost has put in place.
LEMMA PreparedStep ==
  ASSUME IInv, [Next]_vars
  PROVE  Prepared'
<1> USE ConstantsAssumption DEF IInv, TypeOK
<1>1. ASSUME NEW r \in Row, NEW v \in Content, Write(r, v) PROVE Prepared'
  <2> DEFINE w == [id |-> writes + 1, row |-> r, val |-> v,
                   logged |-> "trigger" \in catalog]
  <2>1. w.logged = ("trigger" \in catalog) OBVIOUS
  <2> HIDE DEF w
  <2>2. /\ pend' = pend \union {w}
        /\ "trigger" \in catalog => "changelog" \in catalog
        /\ pc' = pc /\ catalog' = catalog /\ ghost' = ghost /\ cursor' = cursor
        /\ entries' = entries
    BY <1>1 DEF Write, runVars, w
  <2> QED BY <2>1, <2>2 DEF Prepared, Captured, LogUnused
<1>2. ASSUME NEW p \in pend, Commit(p) PROVE Prepared'
  BY <1>2
    DEF Commit, tableVars, runVars, boundVars, Prepared, Captured, LogUnused,
        Held, Migrating, Failing, Sweeping
<1>3. ASSUME NEW p \in pend, Abort(p) PROVE Prepared'
  BY <1>3
    DEF Abort, tableVars, runVars, boundVars, Prepared, Captured, LogUnused,
        Held, Migrating, Failing, Sweeping
<1>4. ASSUME NEW i \in Instance, Start(i) PROVE Prepared'
  BY <1>4
    DEF Start, Step, Goto, tableVars, runVars, boundVars, Prepared, Captured,
        LogUnused, Held, Migrating, Failing, Sweeping
<1>5. ASSUME NEW i \in Instance, CreateGhost(i) PROVE Prepared'
  BY <1>5
    DEF CreateGhost, Step, Goto, Empty, tableVars, runVars, boundVars,
        Prepared, Captured, LogUnused, Held, Migrating, Failing, Sweeping
<1>6. ASSUME NEW i \in Instance, GhostExists(i) PROVE Prepared'
  BY <1>6
    DEF GhostExists, Step, Goto, tableVars, runVars, boundVars, Prepared,
        Captured, LogUnused, Held, Migrating, Failing, Sweeping
<1>7. ASSUME NEW i \in Instance, DropLeftLog(i) PROVE Prepared'
  BY <1>7
    DEF DropLeftLog, Step, Goto, tableVars, runVars, boundVars, Prepared,
        Captured, LogUnused, Held, Migrating, Failing, Sweeping
<1>8. ASSUME NEW i \in Instance, CreateLog(i) PROVE Prepared'
  BY <1>8
    DEF CreateLog, Step, Goto, tableVars, runVars, boundVars, Prepared,
        Captured, LogUnused, Held, Migrating, Failing, Sweeping
<1>9. ASSUME NEW i \in Instance, AddTrigger(i) PROVE Prepared'
  BY <1>9
    DEF AddTrigger, Step, Goto, tableVars, runVars, boundVars, Prepared,
        Captured, LogUnused, Held, Migrating, Failing, Sweeping
<1>10. ASSUME NEW i \in Instance, TriggerExists(i) PROVE Prepared'
  BY <1>10
    DEF TriggerExists, Step, Goto, tableVars, runVars, boundVars, Prepared,
        Captured, LogUnused, Held, Migrating, Failing, Sweeping
<1>11. ASSUME NEW i \in Instance, CountRows(i) PROVE Prepared'
  BY <1>11
    DEF CountRows, Step, Goto, Empty, tableVars, runVars, boundVars,
        Prepared, Captured, LogUnused, Held, Migrating, Failing, Sweeping
<1>12. ASSUME NEW i \in Instance, CopyBatch(i) PROVE Prepared'
  BY <1>12
    DEF CopyBatch, Step, Goto, IsFirst, IsLast, Ahead, RowsOf, tableVars,
        runVars, boundVars, Prepared, Captured, LogUnused, Held, Migrating,
        Failing, Sweeping
<1>13. ASSUME NEW i \in Instance, NEW from, NEW to,
            <<from, to>> \in {<<"read1", "replay1">>, <<"read2", "replay2">>}, ReadChangelog(i, from, to) PROVE Prepared'
  BY <1>13
    DEF ReadChangelog, Step, Goto, tableVars, runVars, boundVars, Prepared,
        Captured, LogUnused, Held, Migrating, Failing, Sweeping
<1>14. ASSUME NEW i \in Instance, NEW from, NEW to,
            <<from, to>> \in {<<"replay1", "read2">>, <<"replay2", "lock">>}, ReplayChangelog(i, from, to) PROVE Prepared'
  BY <1>14
    DEF ReplayChangelog, Step, Goto, tableVars, runVars, boundVars, Prepared,
        Captured, LogUnused, Held, Migrating, Failing, Sweeping
<1>15. ASSUME NEW i \in Instance, LockTable(i) PROVE Prepared'
  BY <1>15
    DEF LockTable, Step, Goto, tableVars, runVars, boundVars, Prepared,
        Captured, LogUnused, Held, Migrating, Failing, Sweeping
<1>16. ASSUME NEW i \in Instance, Swap(i) PROVE Prepared'
  BY <1>16
    DEF Swap, Step, Goto, SwapTables, Empty, tableVars, runVars, boundVars,
        Prepared, Captured, LogUnused, Held, Migrating, Failing, Sweeping
<1>17. ASSUME NEW i \in Instance, SwapAnswerLost(i) PROVE Prepared'
  BY <1>17
    DEF SwapAnswerLost, Step, Goto, SwapTables, Empty, tableVars, runVars,
        boundVars, Prepared, Captured, LogUnused, Held, Migrating, Failing,
        Sweeping
<1>19. ASSUME NEW i \in Instance, RunRefused(i) PROVE Prepared'
  BY <1>19
    DEF RunRefused, Refused, Goto, tableVars, runVars, boundVars, Prepared,
        Captured, LogUnused, Held, Migrating, Failing, Sweeping
<1>20. ASSUME NEW i \in Instance, StepFails(i) PROVE Prepared'
  BY <1>20
    DEF StepFails, Goto, tableVars, runVars, boundVars, Prepared, Captured,
        LogUnused, Held, Migrating, Failing, Sweeping
<1>21. ASSUME NEW i \in Instance, UndoTrigger(i) PROVE Prepared'
  BY <1>21
    DEF UndoTrigger, Step, Goto, tableVars, runVars, boundVars, Prepared,
        Captured, LogUnused, Held, Migrating, Failing, Sweeping
<1>22. ASSUME NEW i \in Instance, UndoTriggerFails(i) PROVE Prepared'
  BY <1>22
    DEF UndoTriggerFails, Step, Goto, tableVars, runVars, boundVars,
        Prepared, Captured, LogUnused, Held, Migrating, Failing, Sweeping
<1>23. ASSUME NEW i \in Instance, UndoGhost(i) PROVE Prepared'
  BY <1>23
    DEF UndoGhost, Step, Goto, Empty, tableVars, runVars, boundVars,
        Prepared, Captured, LogUnused, Held, Migrating, Failing, Sweeping
<1>24. ASSUME NEW i \in Instance, UndoLog(i) PROVE Prepared'
  BY <1>24
    DEF UndoLog, Step, Goto, tableVars, runVars, boundVars, Prepared,
        Captured, LogUnused, Held, Migrating, Failing, Sweeping
<1>25. ASSUME NEW i \in Instance, UndoFails(i) PROVE Prepared'
  BY <1>25
    DEF UndoFails, Goto, tableVars, runVars, boundVars, Prepared, Captured,
        LogUnused, Held, Migrating, Failing, Sweeping
<1>26. ASSUME NEW i \in Instance, NEW t \in timers[i], Cleanup(i, t) PROVE Prepared'
  BY <1>26
    DEF Cleanup, tableVars, runVars, boundVars, Prepared, Captured,
        LogUnused, Held, Migrating, Failing, Sweeping
<1>27. ASSUME NEW i \in Instance, NEW t \in timers[i], CleanupFails(i, t) PROVE Prepared'
  BY <1>27
    DEF CleanupFails, tableVars, runVars, boundVars, Prepared, Captured,
        LogUnused, Held, Migrating, Failing, Sweeping
<1>28. ASSUME NEW i \in Instance, Crash(i) PROVE Prepared'
  BY <1>28
    DEF Crash, Goto, tableVars, runVars, boundVars, Prepared, Captured,
        LogUnused, Held, Migrating, Failing, Sweeping
<1>29. ASSUME NEW i \in Instance, Boot(i) PROVE Prepared'
  BY <1>29
    DEF Boot, Step, Goto, tableVars, runVars, boundVars, Prepared, Captured,
        LogUnused, Held, Migrating, Failing, Sweeping
<1>30. ASSUME NEW i \in Instance, SweepLog(i) PROVE Prepared'
  BY <1>30
    DEF SweepLog, Step, Goto, tableVars, runVars, boundVars, Prepared,
        Captured, LogUnused, Held, Migrating, Failing, Sweeping
<1>31. ASSUME NEW i \in Instance, SweepOld(i) PROVE Prepared'
  BY <1>31
    DEF SweepOld, Step, Goto, tableVars, runVars, boundVars, Prepared,
        Captured, LogUnused, Held, Migrating, Failing, Sweeping
<1>32. ASSUME NEW i \in Instance, SweepFails(i) PROVE Prepared'
  BY <1>32
    DEF SweepFails, Goto, tableVars, runVars, boundVars, Prepared, Captured,
        LogUnused, Held, Migrating, Failing, Sweeping
<1>33. CASE UNCHANGED vars
  BY <1>33
    DEF vars, Prepared, Captured, LogUnused, Held, Migrating, Failing,
        Sweeping
<1> QED
  BY <1>1, <1>2, <1>3, <1>4, <1>5, <1>6, <1>7, <1>8, <1>9, <1>10, <1>11,
     <1>12, <1>13, <1>14, <1>15, <1>16, <1>17, <1>19, <1>20, <1>21,
     <1>22, <1>23, <1>24, <1>25, <1>26, <1>27, <1>28, <1>29, <1>30, <1>31,
     <1>32, <1>33
    DEF Next, RunStep, Settle, Fault

\* Every step keeps the order of the copy and of the replay.
LEMMA OrderedStep ==
  ASSUME IInv, [Next]_vars
  PROVE  Ordered'
<1> USE ConstantsAssumption DEF IInv, TypeOK
<1>1. ASSUME NEW r \in Row, NEW v \in Content, Write(r, v) PROVE Ordered'
  BY <1>1
    DEF Write, tableVars, runVars, boundVars, Ordered, Held, Migrating,
        Failing, Sweeping
<1>2. ASSUME NEW p \in pend, Commit(p) PROVE Ordered'
  <2> DEFINE n == [id |-> p.id, row |-> p.row, val |-> p.val]
  <2>1. n.id = p.id /\ n.row = p.row OBVIOUS
  <2> HIDE DEF n
  <2>2. /\ entries \subseteq entries' /\ entries' \subseteq entries \union {n}
        /\ read' = read /\ pc' = pc /\ catalog' = catalog /\ ghost' = ghost
        /\ cursor' = cursor
    BY <1>2 DEF Commit, runVars, n
  <2>3. \A e \in entries \union read : e.row = n.row => e.id < n.id
    BY <2>1 DEF Ids
  <2> QED BY <2>2, <2>3 DEF Ordered
<1>3. ASSUME NEW p \in pend, Abort(p) PROVE Ordered'
  BY <1>3
    DEF Abort, tableVars, runVars, boundVars, Ordered, Held, Migrating,
        Failing, Sweeping
<1>4. ASSUME NEW i \in Instance, Start(i) PROVE Ordered'
  BY <1>4
    DEF Start, Step, Goto, tableVars, runVars, boundVars, Ordered, Held,
        Migrating, Failing, Sweeping
<1>5. ASSUME NEW i \in Instance, CreateGhost(i) PROVE Ordered'
  BY <1>5
    DEF CreateGhost, Step, Goto, Empty, tableVars, runVars, boundVars,
        Ordered, Held, Migrating, Failing, Sweeping
<1>6. ASSUME NEW i \in Instance, GhostExists(i) PROVE Ordered'
  BY <1>6
    DEF GhostExists, Step, Goto, tableVars, runVars, boundVars, Ordered,
        Held, Migrating, Failing, Sweeping
<1>7. ASSUME NEW i \in Instance, DropLeftLog(i) PROVE Ordered'
  BY <1>7
    DEF DropLeftLog, Step, Goto, LogUnused, tableVars, runVars, boundVars,
        Ordered, Held, Migrating, Failing, Sweeping
<1>8. ASSUME NEW i \in Instance, CreateLog(i) PROVE Ordered'
  BY <1>8
    DEF CreateLog, Step, Goto, tableVars, runVars, boundVars, Ordered, Held,
        Migrating, Failing, Sweeping
<1>9. ASSUME NEW i \in Instance, AddTrigger(i) PROVE Ordered'
  BY <1>9
    DEF AddTrigger, Step, Goto, tableVars, runVars, boundVars, Ordered, Held,
        Migrating, Failing, Sweeping
<1>10. ASSUME NEW i \in Instance, TriggerExists(i) PROVE Ordered'
  BY <1>10
    DEF TriggerExists, Step, Goto, tableVars, runVars, boundVars, Ordered,
        Held, Migrating, Failing, Sweeping
<1>11. ASSUME NEW i \in Instance, CountRows(i) PROVE Ordered'
  <2>1. \A r \in Row : ghost[r] = None
    BY <1>11 DEF CountRows, Step, Prepared, Empty
  <2> QED BY <1>11, <2>1
    DEF CountRows, Step, Goto, Ordered, Held, Migrating, tableVars, runVars
<1>12. ASSUME NEW i \in Instance, CopyBatch(i) PROVE Ordered'
  <2>1. PICK last \in Row \union {0}, to \in {"copy", "read1"} :
          IsLast(last, ghost') /\ cursor' = last /\ pc' = [pc EXCEPT ![i] = to]
    BY <1>12 DEF CopyBatch, Step, Goto
  <2>2. \A r \in Row : r > last => ghost'[r] = None
    <3> SUFFICES ASSUME NEW r \in Row, r > last, ghost'[r] # None PROVE FALSE
      OBVIOUS
    <3>1. r \in RowsOf(ghost') BY DEF RowsOf
    <3>2. r <= last BY <2>1, <3>1 DEF IsLast
    <3>3. r \in Nat /\ last \in Nat BY RowIds
    <3> QED BY <3>2, <3>3
  <2>3. \A j \in Instance : j # i => pc[j] \notin {"copy", "replay1", "replay2"}
    BY <1>12 DEF CopyBatch, Step, Held, Migrating
  <2> QED BY <2>1, <2>2, <2>3 DEF Ordered
<1>13. ASSUME NEW i \in Instance, NEW from, NEW to,
            <<from, to>> \in {<<"read1", "replay1">>, <<"read2", "replay2">>}, ReadChangelog(i, from, to) PROVE Ordered'
  BY <1>13
    DEF ReadChangelog, Step, Goto, tableVars, runVars, boundVars, Ordered,
        Held, Migrating, Failing, Sweeping
<1>14. ASSUME NEW i \in Instance, NEW from, NEW to,
            <<from, to>> \in {<<"replay1", "read2">>, <<"replay2", "lock">>}, ReplayChangelog(i, from, to) PROVE Ordered'
  BY <1>14
    DEF ReplayChangelog, Step, Goto, tableVars, runVars, boundVars, Ordered,
        Held, Migrating, Failing, Sweeping
<1>15. ASSUME NEW i \in Instance, LockTable(i) PROVE Ordered'
  BY <1>15
    DEF LockTable, Step, Goto, tableVars, runVars, boundVars, Ordered, Held,
        Migrating, Failing, Sweeping
<1>16. ASSUME NEW i \in Instance, Swap(i) PROVE Ordered'
  BY <1>16
    DEF Swap, Step, Goto, SwapTables, Empty, tableVars, runVars, boundVars,
        Ordered, Held, Migrating, Failing, Sweeping
<1>17. ASSUME NEW i \in Instance, SwapAnswerLost(i) PROVE Ordered'
  BY <1>17
    DEF SwapAnswerLost, Step, Goto, SwapTables, Empty, tableVars, runVars,
        boundVars, Ordered, Held, Migrating, Failing, Sweeping
<1>19. ASSUME NEW i \in Instance, RunRefused(i) PROVE Ordered'
  BY <1>19
    DEF RunRefused, Refused, Goto, tableVars, runVars, boundVars, Ordered, Held,
        Migrating, Failing, Sweeping
<1>20. ASSUME NEW i \in Instance, StepFails(i) PROVE Ordered'
  BY <1>20
    DEF StepFails, Goto, tableVars, runVars, boundVars, Ordered, Held,
        Migrating, Failing, Sweeping
<1>21. ASSUME NEW i \in Instance, UndoTrigger(i) PROVE Ordered'
  BY <1>21
    DEF UndoTrigger, Step, Goto, tableVars, runVars, boundVars, Ordered,
        Held, Migrating, Failing, Sweeping
<1>22. ASSUME NEW i \in Instance, UndoTriggerFails(i) PROVE Ordered'
  BY <1>22
    DEF UndoTriggerFails, Step, Goto, tableVars, runVars, boundVars, Ordered,
        Held, Migrating, Failing, Sweeping
<1>23. ASSUME NEW i \in Instance, UndoGhost(i) PROVE Ordered'
  BY <1>23
    DEF UndoGhost, Step, Goto, Empty, tableVars, runVars, boundVars, Ordered,
        Held, Migrating, Failing, Sweeping
<1>24. ASSUME NEW i \in Instance, UndoLog(i) PROVE Ordered'
  BY <1>24
    DEF UndoLog, Step, Goto, LogUnused, tableVars, runVars, boundVars,
        Ordered, Held, Migrating, Failing, Sweeping
<1>25. ASSUME NEW i \in Instance, UndoFails(i) PROVE Ordered'
  BY <1>25
    DEF UndoFails, Goto, tableVars, runVars, boundVars, Ordered, Held,
        Migrating, Failing, Sweeping
<1>26. ASSUME NEW i \in Instance, NEW t \in timers[i], Cleanup(i, t) PROVE Ordered'
  BY <1>26
    DEF Cleanup, LogUnused, tableVars, runVars, boundVars, Ordered, Held,
        Migrating, Failing, Sweeping
<1>27. ASSUME NEW i \in Instance, NEW t \in timers[i], CleanupFails(i, t) PROVE Ordered'
  BY <1>27
    DEF CleanupFails, tableVars, runVars, boundVars, Ordered, Held,
        Migrating, Failing, Sweeping
<1>28. ASSUME NEW i \in Instance, Crash(i) PROVE Ordered'
  BY <1>28
    DEF Crash, Goto, tableVars, runVars, boundVars, Ordered, Held, Migrating,
        Failing, Sweeping
<1>29. ASSUME NEW i \in Instance, Boot(i) PROVE Ordered'
  BY <1>29
    DEF Boot, Step, Goto, tableVars, runVars, boundVars, Ordered, Held,
        Migrating, Failing, Sweeping
<1>30. ASSUME NEW i \in Instance, SweepLog(i) PROVE Ordered'
  BY <1>30
    DEF SweepLog, Step, Goto, LogUnused, tableVars, runVars, boundVars,
        Ordered, Held, Migrating, Failing, Sweeping
<1>31. ASSUME NEW i \in Instance, SweepOld(i) PROVE Ordered'
  BY <1>31
    DEF SweepOld, Step, Goto, tableVars, runVars, boundVars, Ordered, Held,
        Migrating, Failing, Sweeping
<1>32. ASSUME NEW i \in Instance, SweepFails(i) PROVE Ordered'
  BY <1>32
    DEF SweepFails, Goto, tableVars, runVars, boundVars, Ordered, Held,
        Migrating, Failing, Sweeping
<1>33. CASE UNCHANGED vars
  BY <1>33
    DEF vars, Ordered, Held, Migrating, Failing, Sweeping
<1> QED
  BY <1>1, <1>2, <1>3, <1>4, <1>5, <1>6, <1>7, <1>8, <1>9, <1>10, <1>11,
     <1>12, <1>13, <1>14, <1>15, <1>16, <1>17, <1>19, <1>20, <1>21,
     <1>22, <1>23, <1>24, <1>25, <1>26, <1>27, <1>28, <1>29, <1>30, <1>31,
     <1>32, <1>33
    DEF Next, RunStep, Settle, Fault

-----------------------------------------------------------------------------
(* Nothing is missed.                                                      *)

\* The run that is past its trigger, if there is one.
LEMMA OneRun ==
  ASSUME IInv, NEW i \in Instance, NEW j \in Instance,
         pc[i] \in Captured, pc[j] \in Migrating \union Failing
  PROVE  i = j
BY DEF IInv, Held, Captured, Migrating

\* Past the copy: every row has been passed.
Copied == {"read1", "replay1", "read2", "replay2", "lock", "swap"}

\* A step that leaves the rows, the changelog and the cursor alone, and moves no
\* run into the copy, misses nothing.
LEMMA MissedFrame ==
  ASSUME NothingMissed,
         live' = live, ghost' = ghost, entries' = entries, cursor' = cursor,
         "changelog" \in catalog' => "changelog" \in catalog,
         \A j \in Instance : pc'[j] \in Captured =>
           pc'[j] = pc[j] \/ (pc[j] \in Copied /\ pc'[j] \in Copied)
  PROVE  NothingMissed'
<1> SUFFICES ASSUME NEW j \in Instance, NEW r \in Row,
                    pc'[j] \in Captured, "changelog" \in catalog'
             PROVE  IF EntriesOf(entries, r) # {}
                    THEN LastOf(entries, r).val = live[r]
                    ELSE Passed(j, r)' => ghost[r] = live[r]
  BY DEF NothingMissed, EntriesOf, LastOf
<1>1. pc[j] \in Captured BY DEF Captured, Copied
<1>2. Passed(j, r)' => Passed(j, r) BY DEF Passed, Copied
<1> QED BY <1>1, <1>2 DEF NothingMissed

\* Every step keeps the ghost and the changelog together equal to the table.
LEMMA MissedStep ==
  ASSUME IInv, [Next]_vars
  PROVE  NothingMissed'
<1> USE ConstantsAssumption DEF IInv
<1>1. ASSUME NEW r \in Row, NEW v \in Content, Write(r, v) PROVE NothingMissed'
  <2>1. UNCHANGED <<live, ghost, entries, cursor, catalog, pc>>
    BY <1>1 DEF Write, tableVars, runVars
  <2> QED BY <2>1, MissedFrame
<1>2. ASSUME NEW p \in pend, Commit(p) PROVE NothingMissed'
  <2> DEFINE n == [id |-> p.id, row |-> p.row, val |-> p.val]
  <2>1. n.id = p.id /\ n.row = p.row /\ n.val = p.val OBVIOUS
  <2>2. n \in Entry BY DEF TypeOK, Pending, Entry
  <2> HIDE DEF n
  <2>3. p.row \in Row /\ live' = [live EXCEPT ![p.row] = p.val]
    BY <1>2 DEF Commit, TypeOK, Pending
  <2>4. /\ pc' = pc /\ catalog' = catalog /\ ghost' = ghost /\ cursor' = cursor
        /\ p.logged => entries' = entries \union {n}
    BY <1>2 DEF Commit, runVars, n
  <2> SUFFICES ASSUME NEW i \in Instance, NEW r \in Row,
                      pc[i] \in Captured, "changelog" \in catalog
               PROVE  IF EntriesOf(entries', r) # {}
                      THEN LastOf(entries', r).val = live'[r]
                      ELSE Passed(i, r) => ghost[r] = live'[r]
    BY <2>4 DEF NothingMissed, Passed
  <2>5. entries' = entries \union {n} BY <2>4 DEF Prepared
  <2>6. CASE r = p.row
    <3>1. n \in EntriesOf(entries', r) BY <2>1, <2>5, <2>6 DEF EntriesOf
    <3>2. \A f \in EntriesOf(entries', r) : f.id <= n.id
      <4> SUFFICES ASSUME NEW f \in EntriesOf(entries', r), f # n PROVE f.id <= n.id
        BY <2>2 DEF Entry
      <4>1. f \in entries /\ f.row = p.row BY <2>5, <2>6 DEF EntriesOf
      <4>2. f.id < n.id BY <2>1, <4>1 DEF Ids
      <4>3. f.id \in Nat /\ n.id \in Nat BY <2>2, <4>1 DEF TypeOK, Entry
      <4> QED BY <4>2, <4>3
    <3>3. \A e \in entries' : e.id <= writes BY <2>1, <2>5 DEF Ids
    <3>4. \A e, f \in entries' : e.row = f.row /\ e.id = f.id => e = f
      BY <2>1, <2>2, <2>5 DEF Ids, Entry
    <3>5. entries' \in SUBSET Entry BY <2>2, <2>5 DEF TypeOK
    <3>6. LastOf(entries', r) = n
      BY <3>1, <3>2, <3>3, <3>4, <3>5, LastIs DEF TypeOK
    <3>7. live'[r] = n.val BY <2>1, <2>3, <2>6 DEF TypeOK
    <3> QED BY <3>1, <3>6, <3>7
  <2>7. CASE r # p.row
    <3>1. EntriesOf(entries', r) = EntriesOf(entries, r)
      BY <2>1, <2>5, <2>7 DEF EntriesOf
    <3>2. LastOf(entries', r) = LastOf(entries, r) BY <3>1 DEF LastOf
    <3>3. live'[r] = live[r] BY <2>3, <2>7 DEF TypeOK
    <3> QED BY <3>1, <3>2, <3>3 DEF NothingMissed
  <2> QED BY <2>6, <2>7
<1>3. ASSUME NEW p \in pend, Abort(p) PROVE NothingMissed'
  <2>1. UNCHANGED <<live, ghost, entries, cursor, catalog, pc>>
    BY <1>3 DEF Abort, tableVars, runVars
  <2> QED BY <2>1, MissedFrame
<1>4. ASSUME NEW i \in Instance, Start(i) PROVE NothingMissed'
  <2>1. \A j \in Instance : pc'[j] \notin Captured
    BY <1>4 DEF Start, Step, Goto, Held, Captured, Migrating, Failing, TypeOK
  <2> QED BY <2>1 DEF NothingMissed
<1>5. ASSUME NEW i \in Instance, CreateGhost(i) PROVE NothingMissed'
  <2>1. \A j \in Instance : pc'[j] \notin Captured
    BY <1>5 DEF CreateGhost, Step, Goto, Held, Captured, Migrating, Failing, TypeOK
  <2> QED BY <2>1 DEF NothingMissed
<1>6. ASSUME NEW i \in Instance, GhostExists(i) PROVE NothingMissed'
  <2>1. UNCHANGED <<live, ghost, entries, cursor>> /\ ("changelog" \in catalog' => "changelog" \in catalog)
    BY <1>6 DEF GhostExists, tableVars, runVars
  <2>2. \A j \in Instance : pc'[j] \in Captured =>
          pc'[j] = pc[j] \/ (pc[j] \in Copied /\ pc'[j] \in Copied)
    BY <1>6 DEF GhostExists, Step, Goto, Captured, TypeOK
  <2> QED BY <2>1, <2>2, MissedFrame
<1>7. ASSUME NEW i \in Instance, DropLeftLog(i) PROVE NothingMissed'
  <2>1. "changelog" \notin catalog' BY <1>7 DEF DropLeftLog
  <2> QED BY <2>1 DEF NothingMissed
<1>8. ASSUME NEW i \in Instance, CreateLog(i) PROVE NothingMissed'
  <2>1. \A j \in Instance : pc'[j] \notin Captured
    BY <1>8 DEF CreateLog, Step, Goto, Held, Captured, Migrating, Failing, TypeOK
  <2> QED BY <2>1 DEF NothingMissed
<1>9. ASSUME NEW i \in Instance, AddTrigger(i) PROVE NothingMissed'
  <2>1. entries = {} BY <1>9 DEF AddTrigger, Step, Prepared
  <2>2. /\ pc' = [pc EXCEPT ![i] = "count"] /\ entries' = {}
        /\ \A j \in Instance : j # i => pc[j] \notin Captured
    BY <1>9, <2>1 DEF AddTrigger, Step, Goto, Held, Captured, Migrating
  <2>3. \A r \in Row : EntriesOf({}, r) = {} BY DEF EntriesOf
  <2>4. \A r \in Row : ~ Passed(i, r)' BY <2>2 DEF Passed, TypeOK
  <2>5. \A j \in Instance : pc'[j] \in Captured => j = i BY <2>2 DEF TypeOK
  <2> QED BY <2>2, <2>3, <2>4, <2>5 DEF NothingMissed
<1>10. ASSUME NEW i \in Instance, TriggerExists(i) PROVE NothingMissed'
  <2>1. UNCHANGED <<live, ghost, entries, cursor>> /\ ("changelog" \in catalog' => "changelog" \in catalog)
    BY <1>10 DEF TriggerExists, tableVars, runVars
  <2>2. \A j \in Instance : pc'[j] \in Captured =>
          pc'[j] = pc[j] \/ (pc[j] \in Copied /\ pc'[j] \in Copied)
    BY <1>10 DEF TriggerExists, Step, Goto, Captured, TypeOK
  <2> QED BY <2>1, <2>2, MissedFrame
<1>11. ASSUME NEW i \in Instance, CountRows(i) PROVE NothingMissed'
  <2>1. /\ \A r \in Row : ghost[r] = None
        /\ cursor = 0 /\ pc[i] = "count"
    BY <1>11 DEF CountRows, Step, Prepared, Empty
  <2>2. \A j \in Instance : j # i => pc[j] \notin Captured
    BY <1>11 DEF CountRows, Step, Held, Captured, Migrating
  <2>3. /\ live' = live /\ ghost' = ghost /\ cursor' = cursor /\ entries' = entries
        /\ catalog' = catalog
    BY <1>11 DEF CountRows, tableVars, runVars
  <2>4. CASE live = Empty
    <3>1. pc' = [pc EXCEPT ![i] = "read1"] BY <1>11, <2>4 DEF CountRows, Step, Goto
    <3>2. \A r \in Row : live[r] = ghost[r] BY <2>1, <2>4 DEF Empty
    <3> QED BY <2>1, <2>2, <2>3, <3>1, <3>2
      DEF NothingMissed, Captured, Passed, EntriesOf, LastOf
  <2>5. CASE live # Empty
    <3>1. pc' = [pc EXCEPT ![i] = "copy"] BY <1>11, <2>5 DEF CountRows, Step, Goto
    <3>2. \A r \in Row : ~ (r <= cursor) BY <2>1
    <3> QED BY <2>1, <2>2, <2>3, <3>1, <3>2
      DEF NothingMissed, Captured, Passed, EntriesOf, LastOf
  <2> QED BY <2>4, <2>5
<1>12. ASSUME NEW i \in Instance, CopyBatch(i) PROVE NothingMissed'
  <2> DEFINE inserted(batch) == {r \in batch : ghost[r] = None}
  <2>1. PICK batch \in SUBSET Ahead, last \in Row \union {0} :
          /\ IsFirst(batch, Ahead, BatchSize)
          /\ ghost' = [r \in Row |-> IF r \in inserted(batch) THEN live[r] ELSE ghost[r]]
          /\ IsLast(last, ghost')
          /\ cursor' = last
          /\ Step(i, "copy", IF Cardinality(inserted(batch)) < BatchSize
                             THEN "read1" ELSE "copy")
    BY <1>12 DEF CopyBatch
  <2>0. cursor \in Nat /\ last \in Nat /\ \A r \in Row : r \in Nat /\ r # 0
    BY RowIds DEF TypeOK
  <2>2. pc[i] = "copy" BY <2>1 DEF Step
  <2>3. inserted(batch) = batch BY <2>1, <2>2 DEF Ordered, Ahead, RowsOf
  <2>4. PICK to \in {"copy", "read1"} :
          /\ pc' = [pc EXCEPT ![i] = to]
          /\ to = "read1" => Cardinality(batch) < BatchSize
    BY <2>1, <2>3 DEF Step, Goto
  <2>5. /\ live' = live /\ entries' = entries /\ catalog' = catalog
    BY <1>12 DEF CopyBatch, tableVars
  <2>6. \A j \in Instance : j # i => pc[j] \notin Captured
    BY <2>2 DEF Held, Captured, Migrating
  <2>7. \A r \in Row : ghost'[r] = IF r \in batch THEN live[r] ELSE ghost[r]
    BY <2>1, <2>3
  <2>8. ASSUME NEW r \in Row, r > cursor, to = "copy" => r <= last
        PROVE  ghost'[r] = live[r]
    <3>1. ghost[r] = None BY <2>2, <2>8 DEF Ordered
    <3>2. CASE live[r] = None BY <2>7, <3>1, <3>2
    <3>3. CASE live[r] # None
      <4>1. r \in Ahead BY <2>8, <3>3 DEF Ahead, RowsOf
      <4>2. CASE to = "read1"
        <5>1. batch = Ahead BY <2>1, <2>4, <4>2 DEF IsFirst
        <5> QED BY <2>7, <4>1, <5>1
      <4>3. CASE to = "copy"
        <5>0. r <= last /\ r \in Nat /\ r # 0 BY <2>0, <2>8, <4>3
        <5>1. r <= last /\ last \in RowsOf(ghost')
          BY <2>1, <5>0 DEF IsLast
        <5>2. last > cursor /\ last \in Row BY <2>8, <2>0, <5>1 DEF RowsOf
        <5>3. last \in batch
          BY <2>2, <2>7, <5>1, <5>2 DEF Ordered, RowsOf
        <5>4. r \in batch BY <2>1, <4>1, <5>1, <5>3 DEF IsFirst
        <5> QED BY <2>7, <5>4
      <4> QED BY <2>4, <4>2, <4>3
    <3> QED BY <3>2, <3>3
  <2>9. ASSUME NEW r \in Row, r <= cursor PROVE ghost'[r] = ghost[r]
    <3>1. r \in Nat /\ cursor \in Nat BY <2>0
    <3>2. ~ (r > cursor) BY <2>9, <3>1
    <3>3. r \notin Ahead BY <3>2 DEF Ahead
    <3> QED BY <2>7, <3>3
  <2> SUFFICES ASSUME NEW r \in Row, "changelog" \in catalog
               PROVE  IF EntriesOf(entries, r) # {}
                      THEN LastOf(entries, r).val = live[r]
                      ELSE Passed(i, r)' => ghost'[r] = live[r]
    BY <2>4, <2>5, <2>6 DEF NothingMissed, EntriesOf, LastOf
  <2>10. CASE EntriesOf(entries, r) # {}
    BY <2>2, <2>10 DEF NothingMissed, Captured
  <2>11. CASE EntriesOf(entries, r) = {}
    <3> SUFFICES ASSUME Passed(i, r)' PROVE ghost'[r] = live[r] BY <2>11
    <3>1. to = "copy" => r <= last BY <2>1, <2>4 DEF Passed, TypeOK
    <3>2. CASE r <= cursor
      BY <2>2, <2>9, <2>11, <3>2 DEF NothingMissed, Captured, Passed
    <3>3. CASE r > cursor BY <2>8, <3>1, <3>3
    <3>4. r \in Nat /\ cursor \in Nat BY <2>0
    <3>5. r <= cursor \/ r > cursor BY <3>4
    <3> QED BY <3>2, <3>3, <3>5
  <2> QED BY <2>10, <2>11
<1>13. ASSUME NEW i \in Instance, NEW from, NEW to,
            <<from, to>> \in {<<"read1", "replay1">>, <<"read2", "replay2">>}, ReadChangelog(i, from, to) PROVE NothingMissed'
  <2>1. UNCHANGED <<live, ghost, entries, cursor>> /\ ("changelog" \in catalog' => "changelog" \in catalog)
    BY <1>13 DEF ReadChangelog, tableVars, runVars
  <2>2. \A j \in Instance : pc'[j] \in Captured =>
          pc'[j] = pc[j] \/ (pc[j] \in Copied /\ pc'[j] \in Copied)
    BY <1>13 DEF ReadChangelog, Step, Goto, Captured, Copied, TypeOK
  <2> QED BY <2>1, <2>2, MissedFrame
<1>14. ASSUME NEW i \in Instance, NEW from, NEW to,
            <<from, to>> \in {<<"replay1", "read2">>, <<"replay2", "lock">>}, ReplayChangelog(i, from, to) PROVE NothingMissed'
  <2>1. /\ pc[i] \in {"replay1", "replay2"} /\ pc[i] = from
        /\ "changelog" \in catalog /\ pc' = [pc EXCEPT ![i] = to]
        /\ ghost' = Replayed(ghost, read) /\ entries' = entries \ read
        /\ live' = live /\ catalog' = catalog /\ cursor' = cursor
    BY <1>14 DEF ReplayChangelog, Step, Goto, tableVars
  <2>2. \A j \in Instance : j # i => pc[j] \notin Captured
    BY <2>1 DEF Held, Captured, Migrating
  <2>3. /\ read \subseteq entries
        /\ \A e \in read : \A f \in entries \ read : e.row = f.row => e.id < f.id
    BY <2>1 DEF Ordered
  <2> SUFFICES ASSUME NEW r \in Row
               PROVE  IF EntriesOf(entries \ read, r) # {}
                      THEN LastOf(entries \ read, r).val = live[r]
                      ELSE ghost'[r] = live[r]
    BY <2>1, <2>2 DEF NothingMissed
  <2>4. /\ EntriesOf(entries, r) # {} => LastOf(entries, r).val = live[r]
        /\ EntriesOf(entries, r) = {} => ghost[r] = live[r]
    BY <2>1 DEF NothingMissed, Captured, Passed
  <2>5. ghost'[r] = IF EntriesOf(read, r) = {} THEN ghost[r] ELSE LastOf(read, r).val
    BY <2>1 DEF Replayed
  <2>6. CASE EntriesOf(entries \ read, r) # {}
    <3> DEFINE m == LastOf(entries \ read, r)
    <3>1. m \in EntriesOf(entries \ read, r) /\ \A f \in EntriesOf(entries \ read, r) : f.id <= m.id
      BY <2>6, LastExists DEF TypeOK, Ids
    <3>2. m \in EntriesOf(entries, r) BY <3>1 DEF EntriesOf
    <3>3. \A f \in EntriesOf(entries, r) : f.id <= m.id
      <4> SUFFICES ASSUME NEW f \in EntriesOf(entries, r), f \in read PROVE f.id <= m.id
        BY <3>1 DEF EntriesOf
      <4>1. f.id < m.id BY <2>3, <3>1 DEF EntriesOf
      <4>2. f.id \in Nat /\ m.id \in Nat BY <3>2 DEF EntriesOf, TypeOK, Entry
      <4> QED BY <4>1, <4>2
    <3> HIDE DEF m
    <3>4. LastOf(entries, r) = m BY <3>2, <3>3, LastIs DEF TypeOK, Ids
    <3>5. EntriesOf(entries, r) # {} BY <3>2
    <3> QED BY <2>4, <2>6, <3>4, <3>5 DEF m
  <2>7. CASE EntriesOf(entries \ read, r) = {}
    <3>1. EntriesOf(read, r) = EntriesOf(entries, r) BY <2>3, <2>7 DEF EntriesOf
    <3>2. LastOf(read, r) = LastOf(entries, r) BY <3>1 DEF LastOf
    <3> QED BY <2>4, <2>5, <2>7, <3>1, <3>2
  <2> QED BY <2>6, <2>7
<1>15. ASSUME NEW i \in Instance, LockTable(i) PROVE NothingMissed'
  <2>1. UNCHANGED <<live, ghost, entries, cursor>> /\ ("changelog" \in catalog' => "changelog" \in catalog)
    BY <1>15 DEF LockTable, tableVars, runVars
  <2>2. \A j \in Instance : pc'[j] \in Captured =>
          pc'[j] = pc[j] \/ (pc[j] \in Copied /\ pc'[j] \in Copied)
    BY <1>15 DEF LockTable, Step, Goto, Captured, Copied, TypeOK
  <2> QED BY <2>1, <2>2, MissedFrame
<1>16. ASSUME NEW i \in Instance, Swap(i) PROVE NothingMissed'
  <2>1. \A j \in Instance : pc'[j] \notin Captured
    BY <1>16 DEF Swap, Step, Goto, Held, Captured, Migrating, Failing, TypeOK
  <2> QED BY <2>1 DEF NothingMissed
<1>17. ASSUME NEW i \in Instance, SwapAnswerLost(i) PROVE NothingMissed'
  <2>1. \A j \in Instance : pc'[j] \notin Captured
    BY <1>17 DEF SwapAnswerLost, Step, Goto, Held, Captured, Migrating, Failing, TypeOK
  <2> QED BY <2>1 DEF NothingMissed
<1>19. ASSUME NEW i \in Instance, RunRefused(i) PROVE NothingMissed'
  <2>1. UNCHANGED <<live, ghost, entries, cursor>> /\ ("changelog" \in catalog' => "changelog" \in catalog)
    BY <1>19 DEF RunRefused, tableVars, runVars
  <2>2. \A j \in Instance : pc'[j] \in Captured =>
          pc'[j] = pc[j] \/ (pc[j] \in Copied /\ pc'[j] \in Copied)
    BY <1>19 DEF RunRefused, Goto, Captured, TypeOK
  <2> QED BY <2>1, <2>2, MissedFrame
<1>20. ASSUME NEW i \in Instance, StepFails(i) PROVE NothingMissed'
  <2>1. UNCHANGED <<live, ghost, entries, cursor>> /\ ("changelog" \in catalog' => "changelog" \in catalog)
    BY <1>20 DEF StepFails, tableVars, runVars
  <2>2. \A j \in Instance : pc'[j] \in Captured =>
          pc'[j] = pc[j] \/ (pc[j] \in Copied /\ pc'[j] \in Copied)
    BY <1>20 DEF StepFails, Goto, Captured, TypeOK
  <2> QED BY <2>1, <2>2, MissedFrame
<1>21. ASSUME NEW i \in Instance, UndoTrigger(i) PROVE NothingMissed'
  <2>1. UNCHANGED <<live, ghost, entries, cursor>> /\ ("changelog" \in catalog' => "changelog" \in catalog)
    BY <1>21 DEF UndoTrigger, tableVars, runVars
  <2>2. \A j \in Instance : pc'[j] \in Captured =>
          pc'[j] = pc[j] \/ (pc[j] \in Copied /\ pc'[j] \in Copied)
    BY <1>21 DEF UndoTrigger, Step, Goto, Captured, TypeOK
  <2> QED BY <2>1, <2>2, MissedFrame
<1>22. ASSUME NEW i \in Instance, UndoTriggerFails(i) PROVE NothingMissed'
  <2>1. UNCHANGED <<live, ghost, entries, cursor>> /\ ("changelog" \in catalog' => "changelog" \in catalog)
    BY <1>22 DEF UndoTriggerFails, tableVars, runVars
  <2>2. \A j \in Instance : pc'[j] \in Captured =>
          pc'[j] = pc[j] \/ (pc[j] \in Copied /\ pc'[j] \in Copied)
    BY <1>22 DEF UndoTriggerFails, Step, Goto, Captured, TypeOK
  <2> QED BY <2>1, <2>2, MissedFrame
<1>23. ASSUME NEW i \in Instance, UndoGhost(i) PROVE NothingMissed'
  <2>1. \A j \in Instance : pc'[j] \notin Captured
    BY <1>23 DEF UndoGhost, Step, Goto, Held, Captured, Migrating, Failing, TypeOK
  <2> QED BY <2>1 DEF NothingMissed
<1>24. ASSUME NEW i \in Instance, UndoLog(i) PROVE NothingMissed'
  <2>1. "changelog" \notin catalog' BY <1>24 DEF UndoLog
  <2> QED BY <2>1 DEF NothingMissed
<1>25. ASSUME NEW i \in Instance, UndoFails(i) PROVE NothingMissed'
  <2>1. UNCHANGED <<live, ghost, entries, cursor>> /\ ("changelog" \in catalog' => "changelog" \in catalog)
    BY <1>25 DEF UndoFails, tableVars, runVars
  <2>2. \A j \in Instance : pc'[j] \in Captured =>
          pc'[j] = pc[j] \/ (pc[j] \in Copied /\ pc'[j] \in Copied)
    BY <1>25 DEF UndoFails, Goto, Captured, TypeOK
  <2> QED BY <2>1, <2>2, MissedFrame
<1>26. ASSUME NEW i \in Instance, NEW t \in timers[i], Cleanup(i, t) PROVE NothingMissed'
  <2>1. CASE "changelog" \notin catalog' BY <2>1 DEF NothingMissed
  <2>2. CASE "changelog" \in catalog'
    <3>1. UNCHANGED <<live, ghost, entries, cursor, pc>> /\ "changelog" \in catalog
      BY <1>26, <2>2 DEF Cleanup, tableVars, runVars
    <3> QED BY <3>1, MissedFrame
  <2> QED BY <2>1, <2>2
<1>27. ASSUME NEW i \in Instance, NEW t \in timers[i], CleanupFails(i, t) PROVE NothingMissed'
  <2>1. UNCHANGED <<live, ghost, entries, cursor, catalog, pc>>
    BY <1>27 DEF CleanupFails, tableVars, runVars
  <2> QED BY <2>1, MissedFrame
<1>28. ASSUME NEW i \in Instance, Crash(i) PROVE NothingMissed'
  <2>1. UNCHANGED <<live, ghost, entries, cursor>> /\ ("changelog" \in catalog' => "changelog" \in catalog)
    BY <1>28 DEF Crash, tableVars, runVars
  <2>2. \A j \in Instance : pc'[j] \in Captured =>
          pc'[j] = pc[j] \/ (pc[j] \in Copied /\ pc'[j] \in Copied)
    BY <1>28 DEF Crash, Goto, Captured, TypeOK
  <2> QED BY <2>1, <2>2, MissedFrame
<1>29. ASSUME NEW i \in Instance, Boot(i) PROVE NothingMissed'
  <2>1. UNCHANGED <<live, ghost, entries, cursor>> /\ ("changelog" \in catalog' => "changelog" \in catalog)
    BY <1>29 DEF Boot, tableVars, runVars
  <2>2. \A j \in Instance : pc'[j] \in Captured =>
          pc'[j] = pc[j] \/ (pc[j] \in Copied /\ pc'[j] \in Copied)
    BY <1>29 DEF Boot, Step, Goto, Captured, TypeOK
  <2> QED BY <2>1, <2>2, MissedFrame
<1>30. ASSUME NEW i \in Instance, SweepLog(i) PROVE NothingMissed'
  <2>1. "changelog" \notin catalog' BY <1>30 DEF SweepLog
  <2> QED BY <2>1 DEF NothingMissed
<1>31. ASSUME NEW i \in Instance, SweepOld(i) PROVE NothingMissed'
  <2>1. UNCHANGED <<live, ghost, entries, cursor>> /\ ("changelog" \in catalog' => "changelog" \in catalog)
    BY <1>31 DEF SweepOld, tableVars, runVars
  <2>2. \A j \in Instance : pc'[j] \in Captured =>
          pc'[j] = pc[j] \/ (pc[j] \in Copied /\ pc'[j] \in Copied)
    BY <1>31 DEF SweepOld, Step, Goto, Captured, TypeOK
  <2> QED BY <2>1, <2>2, MissedFrame
<1>32. ASSUME NEW i \in Instance, SweepFails(i) PROVE NothingMissed'
  <2>1. UNCHANGED <<live, ghost, entries, cursor>> /\ ("changelog" \in catalog' => "changelog" \in catalog)
    BY <1>32 DEF SweepFails, tableVars, runVars
  <2>2. \A j \in Instance : pc'[j] \in Captured =>
          pc'[j] = pc[j] \/ (pc[j] \in Copied /\ pc'[j] \in Copied)
    BY <1>32 DEF SweepFails, Goto, Captured, TypeOK
  <2> QED BY <2>1, <2>2, MissedFrame
<1>33. CASE UNCHANGED vars
  <2>1. UNCHANGED <<live, ghost, entries, cursor, catalog, pc>> BY <1>33 DEF vars
  <2> QED BY <2>1, MissedFrame
<1> QED
  BY <1>1, <1>2, <1>3, <1>4, <1>5, <1>6, <1>7, <1>8, <1>9, <1>10, <1>11,
     <1>12, <1>13, <1>14, <1>15, <1>16, <1>17, <1>19, <1>20, <1>21,
     <1>22, <1>23, <1>24, <1>25, <1>26, <1>27, <1>28, <1>29, <1>30, <1>31,
     <1>32, <1>33
    DEF Next, RunStep, Settle, Fault

-----------------------------------------------------------------------------
(* The theorems.                                                           *)

\* Every step keeps the inductive invariant.
LEMMA IInvStep == IInv /\ [Next]_vars => IInv'
BY TypeStep, IdsStep, HeldStep, PreparedStep, OrderedStep, MissedStep DEF IInv

\* The inductive invariant holds in every reachable state.
THEOREM Inductive == Spec => []IInv
BY InitIInv, IInvStep, PTL DEF Spec

\* The state is well typed, for any rows, instances and bounds.
THEOREM TypeCorrect == Spec => []TypeOK
<1>1. IInv => TypeOK BY DEF IInv
<1> QED BY <1>1, Inductive, PTL

\* However writers, batches, replays, failures and restarts interleave, a row
\* the copy has passed is in the ghost or its last value is in the changelog.
THEOREM NothingIsMissed == Spec => []NothingMissed
<1>1. IInv => NothingMissed BY DEF IInv
<1> QED BY <1>1, Inductive, PTL

\* Under the lock, the ghost with the rest of the changelog replayed is the table.
LEMMA SwapKeepsRows ==
  ASSUME IInv, NEW i \in Instance, pc[i] = "swap", "changelog" \in catalog
  PROVE  Replayed(ghost, entries) = live
<1>1. \A r \in Row : IF EntriesOf(entries, r) # {}
                     THEN LastOf(entries, r).val = live[r] ELSE ghost[r] = live[r]
  BY DEF IInv, NothingMissed, Captured, Passed
<1>2. live \in [Row -> Content] BY DEF IInv, TypeOK
<1> QED BY <1>1, <1>2 DEF Replayed

\* Every step is one of LiveTable or leaves it alone: a commit writes a row,
\* a swap changes the shape.
LEMMA RefinesStep ==
  ASSUME IInv, [Next]_vars
  PROVE  [LT!Next]_(LT!vars)
<1>1. ASSUME NEW r \in Row, NEW v \in Content, Write(r, v) PROVE [LT!Next]_(LT!vars)
  BY <1>1 DEF Write, tableVars, LT!vars
<1>2. ASSUME NEW p \in pend, Commit(p) PROVE [LT!Next]_(LT!vars)
  <2>1. p.row \in Row /\ p.val \in Value \union {None}
    BY DEF IInv, TypeOK, Pending, Content
  <2>2. live' = [live EXCEPT ![p.row] = p.val] /\ shape' = shape BY <1>2 DEF Commit
  <2> QED BY <2>1, <2>2 DEF LT!Next, LT!Write
<1>3. ASSUME NEW p \in pend, Abort(p) PROVE [LT!Next]_(LT!vars)
  BY <1>3 DEF Abort, tableVars, LT!vars
<1>4. ASSUME NEW i \in Instance, Start(i) PROVE [LT!Next]_(LT!vars)
  BY <1>4 DEF Start, tableVars, LT!vars
<1>5. ASSUME NEW i \in Instance, CreateGhost(i) PROVE [LT!Next]_(LT!vars)
  BY <1>5 DEF CreateGhost, tableVars, LT!vars
<1>6. ASSUME NEW i \in Instance, GhostExists(i) PROVE [LT!Next]_(LT!vars)
  BY <1>6 DEF GhostExists, tableVars, LT!vars
<1>7. ASSUME NEW i \in Instance, DropLeftLog(i) PROVE [LT!Next]_(LT!vars)
  BY <1>7 DEF DropLeftLog, tableVars, LT!vars
<1>8. ASSUME NEW i \in Instance, CreateLog(i) PROVE [LT!Next]_(LT!vars)
  BY <1>8 DEF CreateLog, tableVars, LT!vars
<1>9. ASSUME NEW i \in Instance, AddTrigger(i) PROVE [LT!Next]_(LT!vars)
  BY <1>9 DEF AddTrigger, tableVars, LT!vars
<1>10. ASSUME NEW i \in Instance, TriggerExists(i) PROVE [LT!Next]_(LT!vars)
  BY <1>10 DEF TriggerExists, tableVars, LT!vars
<1>11. ASSUME NEW i \in Instance, CountRows(i) PROVE [LT!Next]_(LT!vars)
  BY <1>11 DEF CountRows, tableVars, LT!vars
<1>12. ASSUME NEW i \in Instance, CopyBatch(i) PROVE [LT!Next]_(LT!vars)
  BY <1>12 DEF CopyBatch, tableVars, LT!vars
<1>13. ASSUME NEW i \in Instance, NEW from, NEW to,
            <<from, to>> \in {<<"read1", "replay1">>, <<"read2", "replay2">>}, ReadChangelog(i, from, to) PROVE [LT!Next]_(LT!vars)
  BY <1>13 DEF ReadChangelog, tableVars, LT!vars
<1>14. ASSUME NEW i \in Instance, NEW from, NEW to,
            <<from, to>> \in {<<"replay1", "read2">>, <<"replay2", "lock">>}, ReplayChangelog(i, from, to) PROVE [LT!Next]_(LT!vars)
  BY <1>14 DEF ReplayChangelog, tableVars, LT!vars
<1>15. ASSUME NEW i \in Instance, LockTable(i) PROVE [LT!Next]_(LT!vars)
  BY <1>15 DEF LockTable, tableVars, LT!vars
<1>16. ASSUME NEW i \in Instance, Swap(i) PROVE [LT!Next]_(LT!vars)
  <2>1. pc[i] = "swap" /\ "changelog" \in catalog BY <1>16 DEF Swap, SwapTables, Step
  <2>2. live' = live /\ shape' = shape + 1
    BY <1>16, <2>1, SwapKeepsRows DEF Swap, SwapTables
  <2> QED BY <2>2 DEF LT!Next, LT!Migrate
<1>17. ASSUME NEW i \in Instance, SwapAnswerLost(i) PROVE [LT!Next]_(LT!vars)
  <2>1. pc[i] = "swap" /\ "changelog" \in catalog BY <1>17 DEF SwapAnswerLost, SwapTables, Step
  <2>2. live' = live /\ shape' = shape + 1
    BY <1>17, <2>1, SwapKeepsRows DEF SwapAnswerLost, SwapTables
  <2> QED BY <2>2 DEF LT!Next, LT!Migrate
<1>19. ASSUME NEW i \in Instance, RunRefused(i) PROVE [LT!Next]_(LT!vars)
  BY <1>19 DEF RunRefused, Refused, tableVars, LT!vars
<1>20. ASSUME NEW i \in Instance, StepFails(i) PROVE [LT!Next]_(LT!vars)
  BY <1>20 DEF StepFails, tableVars, LT!vars
<1>21. ASSUME NEW i \in Instance, UndoTrigger(i) PROVE [LT!Next]_(LT!vars)
  BY <1>21 DEF UndoTrigger, tableVars, LT!vars
<1>22. ASSUME NEW i \in Instance, UndoTriggerFails(i) PROVE [LT!Next]_(LT!vars)
  BY <1>22 DEF UndoTriggerFails, tableVars, LT!vars
<1>23. ASSUME NEW i \in Instance, UndoGhost(i) PROVE [LT!Next]_(LT!vars)
  BY <1>23 DEF UndoGhost, tableVars, LT!vars
<1>24. ASSUME NEW i \in Instance, UndoLog(i) PROVE [LT!Next]_(LT!vars)
  BY <1>24 DEF UndoLog, tableVars, LT!vars
<1>25. ASSUME NEW i \in Instance, UndoFails(i) PROVE [LT!Next]_(LT!vars)
  BY <1>25 DEF UndoFails, tableVars, LT!vars
<1>26. ASSUME NEW i \in Instance, NEW t \in timers[i], Cleanup(i, t) PROVE [LT!Next]_(LT!vars)
  BY <1>26 DEF Cleanup, tableVars, LT!vars
<1>27. ASSUME NEW i \in Instance, NEW t \in timers[i], CleanupFails(i, t) PROVE [LT!Next]_(LT!vars)
  BY <1>27 DEF CleanupFails, tableVars, LT!vars
<1>28. ASSUME NEW i \in Instance, Crash(i) PROVE [LT!Next]_(LT!vars)
  BY <1>28 DEF Crash, tableVars, LT!vars
<1>29. ASSUME NEW i \in Instance, Boot(i) PROVE [LT!Next]_(LT!vars)
  BY <1>29 DEF Boot, tableVars, LT!vars
<1>30. ASSUME NEW i \in Instance, SweepLog(i) PROVE [LT!Next]_(LT!vars)
  BY <1>30 DEF SweepLog, tableVars, LT!vars
<1>31. ASSUME NEW i \in Instance, SweepOld(i) PROVE [LT!Next]_(LT!vars)
  BY <1>31 DEF SweepOld, tableVars, LT!vars
<1>32. ASSUME NEW i \in Instance, SweepFails(i) PROVE [LT!Next]_(LT!vars)
  BY <1>32 DEF SweepFails, tableVars, LT!vars
<1>33. CASE UNCHANGED vars
  BY <1>33
    DEF vars, LT!vars
<1> QED
  BY <1>1, <1>2, <1>3, <1>4, <1>5, <1>6, <1>7, <1>8, <1>9, <1>10, <1>11,
     <1>12, <1>13, <1>14, <1>15, <1>16, <1>17, <1>19, <1>20, <1>21,
     <1>22, <1>23, <1>24, <1>25, <1>26, <1>27, <1>28, <1>29, <1>30, <1>31,
     <1>32, <1>33
    DEF Next, RunStep, Settle, Fault

\* The table a migration works on is a LiveTable throughout.
THEOREM Refinement == Spec => ImplementsLiveTable
<1>1. Init => LT!Init BY ConstantsAssumption DEF Init, LT!Init
<1>2. IInv /\ [Next]_vars => [LT!Next]_(LT!vars) BY RefinesStep
<1> QED BY <1>1, <1>2, Inductive, PTL DEF Spec, ImplementsLiveTable, LT!Spec

-----------------------------------------------------------------------------
(* Why a write may be refused.                                             *)

\* Every step keeps a pending cleanup's changelog older than a trigger's.
LEMMA OlderLogsStep ==
  ASSUME CauseInv, [Next]_vars
  PROVE  OlderLogs'
<1> USE ConstantsAssumption DEF CauseInv, IInv, TypeOK
<1>1. ASSUME NEW r \in Row, NEW v \in Content, Write(r, v) PROVE OlderLogs'
  BY <1>1
    DEF Write, tableVars, runVars, boundVars, OlderLogs, Held, Migrating,
        Failing, Sweeping
<1>2. ASSUME NEW p \in pend, Commit(p) PROVE OlderLogs'
  BY <1>2
    DEF Commit, tableVars, runVars, boundVars, OlderLogs, Held, Migrating,
        Failing, Sweeping
<1>3. ASSUME NEW p \in pend, Abort(p) PROVE OlderLogs'
  BY <1>3
    DEF Abort, tableVars, runVars, boundVars, OlderLogs, Held, Migrating,
        Failing, Sweeping
<1>4. ASSUME NEW i \in Instance, Start(i) PROVE OlderLogs'
  BY <1>4
    DEF Start, Step, Goto, tableVars, runVars, boundVars, OlderLogs, Held,
        Migrating, Failing, Sweeping
<1>5. ASSUME NEW i \in Instance, CreateGhost(i) PROVE OlderLogs'
  BY <1>5
    DEF CreateGhost, Step, Goto, Empty, tableVars, runVars, boundVars,
        OlderLogs, Held, Migrating, Failing, Sweeping
<1>6. ASSUME NEW i \in Instance, GhostExists(i) PROVE OlderLogs'
  BY <1>6
    DEF GhostExists, Step, Goto, tableVars, runVars, boundVars, OlderLogs,
        Held, Migrating, Failing, Sweeping
<1>7. ASSUME NEW i \in Instance, DropLeftLog(i) PROVE OlderLogs'
  BY <1>7
    DEF DropLeftLog, Step, Goto, LogUnused, tableVars, runVars, boundVars,
        OlderLogs, Held, Migrating, Failing, Sweeping
<1>8. ASSUME NEW i \in Instance, CreateLog(i) PROVE OlderLogs'
  BY <1>8
    DEF CreateLog, Step, Goto, tableVars, runVars, boundVars, OlderLogs,
        Held, Migrating, Failing, Sweeping
<1>9. ASSUME NEW i \in Instance, AddTrigger(i) PROVE OlderLogs'
  BY <1>9
    DEF AddTrigger, Step, Goto, tableVars, runVars, boundVars, OlderLogs,
        Held, Migrating, Failing, Sweeping
<1>10. ASSUME NEW i \in Instance, TriggerExists(i) PROVE OlderLogs'
  BY <1>10
    DEF TriggerExists, Step, Goto, tableVars, runVars, boundVars, OlderLogs,
        Held, Migrating, Failing, Sweeping
<1>11. ASSUME NEW i \in Instance, CountRows(i) PROVE OlderLogs'
  BY <1>11
    DEF CountRows, Step, Goto, Empty, tableVars, runVars, boundVars,
        OlderLogs, Held, Migrating, Failing, Sweeping
<1>12. ASSUME NEW i \in Instance, CopyBatch(i) PROVE OlderLogs'
  BY <1>12
    DEF CopyBatch, Step, Goto, IsFirst, IsLast, Ahead, RowsOf, tableVars,
        runVars, boundVars, OlderLogs, Held, Migrating, Failing, Sweeping
<1>13. ASSUME NEW i \in Instance, NEW from, NEW to,
            <<from, to>> \in {<<"read1", "replay1">>, <<"read2", "replay2">>}, ReadChangelog(i, from, to) PROVE OlderLogs'
  BY <1>13
    DEF ReadChangelog, Step, Goto, tableVars, runVars, boundVars, OlderLogs,
        Held, Migrating, Failing, Sweeping
<1>14. ASSUME NEW i \in Instance, NEW from, NEW to,
            <<from, to>> \in {<<"replay1", "read2">>, <<"replay2", "lock">>}, ReplayChangelog(i, from, to) PROVE OlderLogs'
  BY <1>14
    DEF ReplayChangelog, Step, Goto, tableVars, runVars, boundVars,
        OlderLogs, Held, Migrating, Failing, Sweeping
<1>15. ASSUME NEW i \in Instance, LockTable(i) PROVE OlderLogs'
  BY <1>15
    DEF LockTable, Step, Goto, tableVars, runVars, boundVars, OlderLogs,
        Held, Migrating, Failing, Sweeping
<1>16. ASSUME NEW i \in Instance, Swap(i) PROVE OlderLogs'
  BY <1>16
    DEF Swap, Step, Goto, SwapTables, Empty, tableVars, runVars, boundVars,
        OlderLogs, Held, Migrating, Failing, Sweeping
<1>17. ASSUME NEW i \in Instance, SwapAnswerLost(i) PROVE OlderLogs'
  BY <1>17
    DEF SwapAnswerLost, Step, Goto, SwapTables, Empty, tableVars, runVars,
        boundVars, OlderLogs, Held, Migrating, Failing, Sweeping
<1>19. ASSUME NEW i \in Instance, RunRefused(i) PROVE OlderLogs'
  BY <1>19
    DEF RunRefused, Refused, Goto, tableVars, runVars, boundVars, OlderLogs, Held,
        Migrating, Failing, Sweeping
<1>20. ASSUME NEW i \in Instance, StepFails(i) PROVE OlderLogs'
  BY <1>20
    DEF StepFails, Goto, tableVars, runVars, boundVars, OlderLogs, Held,
        Migrating, Failing, Sweeping
<1>21. ASSUME NEW i \in Instance, UndoTrigger(i) PROVE OlderLogs'
  BY <1>21
    DEF UndoTrigger, Step, Goto, tableVars, runVars, boundVars, OlderLogs,
        Held, Migrating, Failing, Sweeping
<1>22. ASSUME NEW i \in Instance, UndoTriggerFails(i) PROVE OlderLogs'
  BY <1>22
    DEF UndoTriggerFails, Step, Goto, tableVars, runVars, boundVars,
        OlderLogs, Held, Migrating, Failing, Sweeping
<1>23. ASSUME NEW i \in Instance, UndoGhost(i) PROVE OlderLogs'
  BY <1>23
    DEF UndoGhost, Step, Goto, Empty, tableVars, runVars, boundVars,
        OlderLogs, Held, Migrating, Failing, Sweeping
<1>24. ASSUME NEW i \in Instance, UndoLog(i) PROVE OlderLogs'
  BY <1>24
    DEF UndoLog, Step, Goto, LogUnused, tableVars, runVars, boundVars,
        OlderLogs, Held, Migrating, Failing, Sweeping
<1>25. ASSUME NEW i \in Instance, UndoFails(i) PROVE OlderLogs'
  BY <1>25
    DEF UndoFails, Goto, tableVars, runVars, boundVars, OlderLogs, Held,
        Migrating, Failing, Sweeping
<1>26. ASSUME NEW i \in Instance, NEW t \in timers[i], Cleanup(i, t) PROVE OlderLogs'
  BY <1>26
    DEF Cleanup, LogUnused, tableVars, runVars, boundVars, OlderLogs, Held,
        Migrating, Failing, Sweeping
<1>27. ASSUME NEW i \in Instance, NEW t \in timers[i], CleanupFails(i, t) PROVE OlderLogs'
  BY <1>27
    DEF CleanupFails, tableVars, runVars, boundVars, OlderLogs, Held,
        Migrating, Failing, Sweeping
<1>28. ASSUME NEW i \in Instance, Crash(i) PROVE OlderLogs'
  BY <1>28
    DEF Crash, Goto, tableVars, runVars, boundVars, OlderLogs, Held,
        Migrating, Failing, Sweeping
<1>29. ASSUME NEW i \in Instance, Boot(i) PROVE OlderLogs'
  BY <1>29
    DEF Boot, Step, Goto, tableVars, runVars, boundVars, OlderLogs, Held,
        Migrating, Failing, Sweeping
<1>30. ASSUME NEW i \in Instance, SweepLog(i) PROVE OlderLogs'
  BY <1>30
    DEF SweepLog, Step, Goto, LogUnused, tableVars, runVars, boundVars,
        OlderLogs, Held, Migrating, Failing, Sweeping
<1>31. ASSUME NEW i \in Instance, SweepOld(i) PROVE OlderLogs'
  BY <1>31
    DEF SweepOld, Step, Goto, tableVars, runVars, boundVars, OlderLogs, Held,
        Migrating, Failing, Sweeping
<1>32. ASSUME NEW i \in Instance, SweepFails(i) PROVE OlderLogs'
  BY <1>32
    DEF SweepFails, Goto, tableVars, runVars, boundVars, OlderLogs, Held,
        Migrating, Failing, Sweeping
<1>33. CASE UNCHANGED vars
  BY <1>33
    DEF vars, OlderLogs, Held, Migrating, Failing, Sweeping
<1> QED
  BY <1>1, <1>2, <1>3, <1>4, <1>5, <1>6, <1>7, <1>8, <1>9, <1>10, <1>11,
     <1>12, <1>13, <1>14, <1>15, <1>16, <1>17, <1>19, <1>20, <1>21,
     <1>22, <1>23, <1>24, <1>25, <1>26, <1>27, <1>28, <1>29, <1>30, <1>31,
     <1>32, <1>33
    DEF Next, RunStep, Settle, Fault

\* Every step but a mishap keeps a trigger on its ghost and its changelog.
LEMMA StandingStep ==
  ASSUME CauseInv, [Next]_vars
  PROVE  (Standing /\ LogThere)'
<1> USE ConstantsAssumption DEF CauseInv, IInv, TypeOK, Prepared
<1>1. ASSUME NEW r \in Row, NEW v \in Content, Write(r, v) PROVE (Standing /\ LogThere)'
  BY <1>1
    DEF Write, tableVars, runVars, boundVars, Standing, LogThere, OlderLogs,
        Held, Migrating, Failing, Sweeping
<1>2. ASSUME NEW p \in pend, Commit(p) PROVE (Standing /\ LogThere)'
  BY <1>2
    DEF Commit, tableVars, runVars, boundVars, Standing, LogThere, OlderLogs,
        Held, Migrating, Failing, Sweeping
<1>3. ASSUME NEW p \in pend, Abort(p) PROVE (Standing /\ LogThere)'
  BY <1>3
    DEF Abort, tableVars, runVars, boundVars, Standing, LogThere, OlderLogs,
        Held, Migrating, Failing, Sweeping
<1>4. ASSUME NEW i \in Instance, Start(i) PROVE (Standing /\ LogThere)'
  BY <1>4
    DEF Start, Step, Goto, tableVars, runVars, boundVars, Standing, LogThere,
        OlderLogs, Held, Migrating, Failing, Sweeping
<1>5. ASSUME NEW i \in Instance, CreateGhost(i) PROVE (Standing /\ LogThere)'
  BY <1>5
    DEF CreateGhost, Step, Goto, Empty, tableVars, runVars, boundVars,
        Standing, LogThere, OlderLogs, Held, Migrating, Failing, Sweeping
<1>6. ASSUME NEW i \in Instance, GhostExists(i) PROVE (Standing /\ LogThere)'
  BY <1>6
    DEF GhostExists, Step, Goto, tableVars, runVars, boundVars, Standing,
        LogThere, OlderLogs, Held, Migrating, Failing, Sweeping
<1>7. ASSUME NEW i \in Instance, DropLeftLog(i) PROVE (Standing /\ LogThere)'
  BY <1>7
    DEF DropLeftLog, Step, Goto, LogUnused, tableVars, runVars, boundVars,
        Standing, LogThere, OlderLogs, Held, Migrating, Failing, Sweeping
<1>8. ASSUME NEW i \in Instance, CreateLog(i) PROVE (Standing /\ LogThere)'
  BY <1>8
    DEF CreateLog, Step, Goto, tableVars, runVars, boundVars, Standing,
        LogThere, OlderLogs, Held, Migrating, Failing, Sweeping
<1>9. ASSUME NEW i \in Instance, AddTrigger(i) PROVE (Standing /\ LogThere)'
  BY <1>9
    DEF AddTrigger, Step, Goto, tableVars, runVars, boundVars, Standing,
        LogThere, OlderLogs, Held, Migrating, Failing, Sweeping
<1>10. ASSUME NEW i \in Instance, TriggerExists(i) PROVE (Standing /\ LogThere)'
  BY <1>10
    DEF TriggerExists, Step, Goto, tableVars, runVars, boundVars, Standing,
        LogThere, OlderLogs, Held, Migrating, Failing, Sweeping
<1>11. ASSUME NEW i \in Instance, CountRows(i) PROVE (Standing /\ LogThere)'
  BY <1>11
    DEF CountRows, Step, Goto, Empty, tableVars, runVars, boundVars,
        Standing, LogThere, OlderLogs, Held, Migrating, Failing, Sweeping
<1>12. ASSUME NEW i \in Instance, CopyBatch(i) PROVE (Standing /\ LogThere)'
  BY <1>12
    DEF CopyBatch, Step, Goto, IsFirst, IsLast, Ahead, RowsOf, tableVars,
        runVars, boundVars, Standing, LogThere, OlderLogs, Held, Migrating,
        Failing, Sweeping
<1>13. ASSUME NEW i \in Instance, NEW from, NEW to,
            <<from, to>> \in {<<"read1", "replay1">>, <<"read2", "replay2">>}, ReadChangelog(i, from, to) PROVE (Standing /\ LogThere)'
  BY <1>13
    DEF ReadChangelog, Step, Goto, tableVars, runVars, boundVars, Standing,
        LogThere, OlderLogs, Held, Migrating, Failing, Sweeping
<1>14. ASSUME NEW i \in Instance, NEW from, NEW to,
            <<from, to>> \in {<<"replay1", "read2">>, <<"replay2", "lock">>}, ReplayChangelog(i, from, to) PROVE (Standing /\ LogThere)'
  BY <1>14
    DEF ReplayChangelog, Step, Goto, tableVars, runVars, boundVars, Standing,
        LogThere, OlderLogs, Held, Migrating, Failing, Sweeping
<1>15. ASSUME NEW i \in Instance, LockTable(i) PROVE (Standing /\ LogThere)'
  BY <1>15
    DEF LockTable, Step, Goto, tableVars, runVars, boundVars, Standing,
        LogThere, OlderLogs, Held, Migrating, Failing, Sweeping
<1>16. ASSUME NEW i \in Instance, Swap(i) PROVE (Standing /\ LogThere)'
  BY <1>16
    DEF Swap, Step, Goto, SwapTables, Empty, tableVars, runVars, boundVars,
        Standing, LogThere, OlderLogs, Held, Migrating, Failing, Sweeping
<1>17. ASSUME NEW i \in Instance, SwapAnswerLost(i) PROVE (Standing /\ LogThere)'
  BY <1>17
    DEF SwapAnswerLost, Step, Goto, SwapTables, Empty, tableVars, runVars,
        boundVars, Standing, LogThere, OlderLogs, Held, Migrating, Failing,
        Sweeping
<1>19. ASSUME NEW i \in Instance, RunRefused(i) PROVE (Standing /\ LogThere)'
  BY <1>19
    DEF RunRefused, Refused, Goto, tableVars, runVars, boundVars, Standing,
        LogThere, OlderLogs, Held, Migrating, Failing, Sweeping
<1>20. ASSUME NEW i \in Instance, StepFails(i) PROVE (Standing /\ LogThere)'
  BY <1>20
    DEF StepFails, Goto, tableVars, runVars, boundVars, Standing, LogThere,
        OlderLogs, Held, Migrating, Failing, Sweeping
<1>21. ASSUME NEW i \in Instance, UndoTrigger(i) PROVE (Standing /\ LogThere)'
  BY <1>21
    DEF UndoTrigger, Step, Goto, tableVars, runVars, boundVars, Standing,
        LogThere, OlderLogs, Held, Migrating, Failing, Sweeping
<1>22. ASSUME NEW i \in Instance, UndoTriggerFails(i) PROVE (Standing /\ LogThere)'
  BY <1>22
    DEF UndoTriggerFails, Step, Goto, tableVars, runVars, boundVars,
        Standing, LogThere, OlderLogs, Held, Migrating, Failing, Sweeping
<1>23. ASSUME NEW i \in Instance, UndoGhost(i) PROVE (Standing /\ LogThere)'
  BY <1>23
    DEF UndoGhost, Step, Goto, Empty, tableVars, runVars, boundVars,
        Standing, LogThere, OlderLogs, Held, Migrating, Failing, Sweeping
<1>24. ASSUME NEW i \in Instance, UndoLog(i) PROVE (Standing /\ LogThere)'
  BY <1>24
    DEF UndoLog, Step, Goto, LogUnused, tableVars, runVars, boundVars,
        Standing, LogThere, OlderLogs, Held, Migrating, Failing, Sweeping
<1>25. ASSUME NEW i \in Instance, UndoFails(i) PROVE (Standing /\ LogThere)'
  BY <1>25
    DEF UndoFails, Goto, tableVars, runVars, boundVars, Standing, LogThere,
        OlderLogs, Held, Migrating, Failing, Sweeping
<1>26. ASSUME NEW i \in Instance, NEW t \in timers[i], Cleanup(i, t) PROVE (Standing /\ LogThere)'
  BY <1>26
    DEF Cleanup, LogUnused, tableVars, runVars, boundVars, Standing,
        LogThere, OlderLogs, Held, Migrating, Failing, Sweeping
<1>27. ASSUME NEW i \in Instance, NEW t \in timers[i], CleanupFails(i, t) PROVE (Standing /\ LogThere)'
  BY <1>27
    DEF CleanupFails, tableVars, runVars, boundVars, Standing, LogThere,
        OlderLogs, Held, Migrating, Failing, Sweeping
<1>28. ASSUME NEW i \in Instance, Crash(i) PROVE (Standing /\ LogThere)'
  BY <1>28
    DEF Crash, Goto, tableVars, runVars, boundVars, Standing, LogThere,
        OlderLogs, Held, Migrating, Failing, Sweeping
<1>29. ASSUME NEW i \in Instance, Boot(i) PROVE (Standing /\ LogThere)'
  BY <1>29
    DEF Boot, Step, Goto, tableVars, runVars, boundVars, Standing, LogThere,
        OlderLogs, Held, Migrating, Failing, Sweeping
<1>30. ASSUME NEW i \in Instance, SweepLog(i) PROVE (Standing /\ LogThere)'
  BY <1>30
    DEF SweepLog, Step, Goto, LogUnused, tableVars, runVars, boundVars,
        Standing, LogThere, OlderLogs, Held, Migrating, Failing, Sweeping
<1>31. ASSUME NEW i \in Instance, SweepOld(i) PROVE (Standing /\ LogThere)'
  BY <1>31
    DEF SweepOld, Step, Goto, tableVars, runVars, boundVars, Standing,
        LogThere, OlderLogs, Held, Migrating, Failing, Sweeping
<1>32. ASSUME NEW i \in Instance, SweepFails(i) PROVE (Standing /\ LogThere)'
  BY <1>32
    DEF SweepFails, Goto, tableVars, runVars, boundVars, Standing, LogThere,
        OlderLogs, Held, Migrating, Failing, Sweeping
<1>33. CASE UNCHANGED vars
  BY <1>33
    DEF vars, Standing, LogThere, OlderLogs, Held, Migrating, Failing,
        Sweeping
<1> QED
  BY <1>1, <1>2, <1>3, <1>4, <1>5, <1>6, <1>7, <1>8, <1>9, <1>10, <1>11,
     <1>12, <1>13, <1>14, <1>15, <1>16, <1>17, <1>19, <1>20, <1>21,
     <1>22, <1>23, <1>24, <1>25, <1>26, <1>27, <1>28, <1>29, <1>30, <1>31,
     <1>32, <1>33
    DEF Next, RunStep, Settle, Fault

\* A write is refused only for a changelog that was taken from under its trigger
\* after a DROP TRIGGER failed, or by a sweep that met another instance's run.
THEOREM RefusalsHaveACause == Spec => []RefusalHasACause
<1>1. Init => CauseInv
  BY InitIInv, ConstantsAssumption DEF Init, CauseInv, OlderLogs, Standing, LogThere
<1>2. CauseInv /\ [Next]_vars => CauseInv'
  BY IInvStep, OlderLogsStep, StandingStep DEF CauseInv
<1>3. CauseInv => RefusalHasACause
  BY DEF CauseInv, Standing, RefusalHasACause
<1> QED BY <1>1, <1>2, <1>3, PTL DEF Spec

-----------------------------------------------------------------------------
(* The old copy.                                                           *)

\* Every step keeps the old copy in somebody's care.
LEMMA OldCopyStep ==
  ASSUME IInv, OldCopyIsReclaimed, [Next]_vars
  PROVE  OldCopyIsReclaimed'
<1> USE DEF IInv, TypeOK
<1>1. ASSUME NEW r \in Row, NEW v \in Content, Write(r, v) PROVE OldCopyIsReclaimed'
  BY <1>1
    DEF Write, tableVars, runVars, boundVars, OldCopyIsReclaimed, Migrating,
        Failing, Sweeping
<1>2. ASSUME NEW p \in pend, Commit(p) PROVE OldCopyIsReclaimed'
  BY <1>2
    DEF Commit, tableVars, runVars, boundVars, OldCopyIsReclaimed, Migrating,
        Failing, Sweeping
<1>3. ASSUME NEW p \in pend, Abort(p) PROVE OldCopyIsReclaimed'
  BY <1>3
    DEF Abort, tableVars, runVars, boundVars, OldCopyIsReclaimed, Migrating,
        Failing, Sweeping
<1>4. ASSUME NEW i \in Instance, Start(i) PROVE OldCopyIsReclaimed'
  BY <1>4
    DEF Start, Step, Goto, tableVars, runVars, boundVars, OldCopyIsReclaimed,
        Migrating, Failing, Sweeping
<1>5. ASSUME NEW i \in Instance, CreateGhost(i) PROVE OldCopyIsReclaimed'
  BY <1>5
    DEF CreateGhost, Step, Goto, Empty, tableVars, runVars, boundVars,
        OldCopyIsReclaimed, Migrating, Failing, Sweeping
<1>6. ASSUME NEW i \in Instance, GhostExists(i) PROVE OldCopyIsReclaimed'
  BY <1>6
    DEF GhostExists, Step, Goto, tableVars, runVars, boundVars,
        OldCopyIsReclaimed, Migrating, Failing, Sweeping
<1>7. ASSUME NEW i \in Instance, DropLeftLog(i) PROVE OldCopyIsReclaimed'
  BY <1>7
    DEF DropLeftLog, Step, Goto, LogUnused, tableVars, runVars, boundVars,
        OldCopyIsReclaimed, Migrating, Failing, Sweeping
<1>8. ASSUME NEW i \in Instance, CreateLog(i) PROVE OldCopyIsReclaimed'
  BY <1>8
    DEF CreateLog, Step, Goto, tableVars, runVars, boundVars,
        OldCopyIsReclaimed, Migrating, Failing, Sweeping
<1>9. ASSUME NEW i \in Instance, AddTrigger(i) PROVE OldCopyIsReclaimed'
  BY <1>9
    DEF AddTrigger, Step, Goto, tableVars, runVars, boundVars,
        OldCopyIsReclaimed, Migrating, Failing, Sweeping
<1>10. ASSUME NEW i \in Instance, TriggerExists(i) PROVE OldCopyIsReclaimed'
  BY <1>10
    DEF TriggerExists, Step, Goto, tableVars, runVars, boundVars,
        OldCopyIsReclaimed, Migrating, Failing, Sweeping
<1>11. ASSUME NEW i \in Instance, CountRows(i) PROVE OldCopyIsReclaimed'
  BY <1>11
    DEF CountRows, Step, Goto, Empty, tableVars, runVars, boundVars,
        OldCopyIsReclaimed, Migrating, Failing, Sweeping
<1>12. ASSUME NEW i \in Instance, CopyBatch(i) PROVE OldCopyIsReclaimed'
  BY <1>12
    DEF CopyBatch, Step, Goto, IsFirst, IsLast, Ahead, RowsOf, tableVars,
        runVars, boundVars, OldCopyIsReclaimed, Migrating, Failing, Sweeping
<1>13. ASSUME NEW i \in Instance, NEW from, NEW to,
            <<from, to>> \in {<<"read1", "replay1">>, <<"read2", "replay2">>}, ReadChangelog(i, from, to) PROVE OldCopyIsReclaimed'
  BY <1>13
    DEF ReadChangelog, Step, Goto, tableVars, runVars, boundVars,
        OldCopyIsReclaimed, Migrating, Failing, Sweeping
<1>14. ASSUME NEW i \in Instance, NEW from, NEW to,
            <<from, to>> \in {<<"replay1", "read2">>, <<"replay2", "lock">>}, ReplayChangelog(i, from, to) PROVE OldCopyIsReclaimed'
  BY <1>14
    DEF ReplayChangelog, Step, Goto, tableVars, runVars, boundVars,
        OldCopyIsReclaimed, Migrating, Failing, Sweeping
<1>15. ASSUME NEW i \in Instance, LockTable(i) PROVE OldCopyIsReclaimed'
  BY <1>15
    DEF LockTable, Step, Goto, tableVars, runVars, boundVars,
        OldCopyIsReclaimed, Migrating, Failing, Sweeping
<1>16. ASSUME NEW i \in Instance, Swap(i) PROVE OldCopyIsReclaimed'
  <2> DEFINE t == [old |-> shape + 1, log |-> logOid]
  <2>1. t.old = shape + 1 OBVIOUS
  <2> HIDE DEF t
  <2>2. t \in timers'[i] /\ oldOid' = shape + 1 BY <1>16 DEF Swap, SwapTables, t
  <2> QED BY <2>1, <2>2 DEF OldCopyIsReclaimed
<1>17. ASSUME NEW i \in Instance, SwapAnswerLost(i) PROVE OldCopyIsReclaimed'
  BY <1>17
    DEF SwapAnswerLost, Step, Goto, SwapTables, Empty, tableVars, runVars,
        boundVars, OldCopyIsReclaimed, Migrating, Failing, Sweeping
<1>19. ASSUME NEW i \in Instance, RunRefused(i) PROVE OldCopyIsReclaimed'
  BY <1>19
    DEF RunRefused, Refused, Goto, tableVars, runVars, boundVars,
        OldCopyIsReclaimed, Migrating, Failing, Sweeping
<1>20. ASSUME NEW i \in Instance, StepFails(i) PROVE OldCopyIsReclaimed'
  BY <1>20
    DEF StepFails, Goto, tableVars, runVars, boundVars, OldCopyIsReclaimed,
        Migrating, Failing, Sweeping
<1>21. ASSUME NEW i \in Instance, UndoTrigger(i) PROVE OldCopyIsReclaimed'
  BY <1>21
    DEF UndoTrigger, Step, Goto, tableVars, runVars, boundVars,
        OldCopyIsReclaimed, Migrating, Failing, Sweeping
<1>22. ASSUME NEW i \in Instance, UndoTriggerFails(i) PROVE OldCopyIsReclaimed'
  BY <1>22
    DEF UndoTriggerFails, Step, Goto, tableVars, runVars, boundVars,
        OldCopyIsReclaimed, Migrating, Failing, Sweeping
<1>23. ASSUME NEW i \in Instance, UndoGhost(i) PROVE OldCopyIsReclaimed'
  BY <1>23
    DEF UndoGhost, Step, Goto, Empty, tableVars, runVars, boundVars,
        OldCopyIsReclaimed, Migrating, Failing, Sweeping
<1>24. ASSUME NEW i \in Instance, UndoLog(i) PROVE OldCopyIsReclaimed'
  BY <1>24
    DEF UndoLog, Step, Goto, LogUnused, tableVars, runVars, boundVars,
        OldCopyIsReclaimed, Migrating, Failing, Sweeping
<1>25. ASSUME NEW i \in Instance, UndoFails(i) PROVE OldCopyIsReclaimed'
  BY <1>25
    DEF UndoFails, Goto, tableVars, runVars, boundVars, OldCopyIsReclaimed,
        Migrating, Failing, Sweeping
<1>26. ASSUME NEW i \in Instance, NEW t \in timers[i], Cleanup(i, t) PROVE OldCopyIsReclaimed'
  BY <1>26
    DEF Cleanup, LogUnused, tableVars, runVars, boundVars,
        OldCopyIsReclaimed, Migrating, Failing, Sweeping
<1>27. ASSUME NEW i \in Instance, NEW t \in timers[i], CleanupFails(i, t) PROVE OldCopyIsReclaimed'
  BY <1>27
    DEF CleanupFails, tableVars, runVars, boundVars, OldCopyIsReclaimed,
        Migrating, Failing, Sweeping
<1>28. ASSUME NEW i \in Instance, Crash(i) PROVE OldCopyIsReclaimed'
  BY <1>28
    DEF Crash, Goto, tableVars, runVars, boundVars, OldCopyIsReclaimed,
        Migrating, Failing, Sweeping
<1>29. ASSUME NEW i \in Instance, Boot(i) PROVE OldCopyIsReclaimed'
  BY <1>29
    DEF Boot, Step, Goto, tableVars, runVars, boundVars, OldCopyIsReclaimed,
        Migrating, Failing, Sweeping
<1>30. ASSUME NEW i \in Instance, SweepLog(i) PROVE OldCopyIsReclaimed'
  BY <1>30
    DEF SweepLog, Step, Goto, LogUnused, tableVars, runVars, boundVars,
        OldCopyIsReclaimed, Migrating, Failing, Sweeping
<1>31. ASSUME NEW i \in Instance, SweepOld(i) PROVE OldCopyIsReclaimed'
  BY <1>31
    DEF SweepOld, Step, Goto, tableVars, runVars, boundVars,
        OldCopyIsReclaimed, Migrating, Failing, Sweeping
<1>32. ASSUME NEW i \in Instance, SweepFails(i) PROVE OldCopyIsReclaimed'
  BY <1>32
    DEF SweepFails, Goto, tableVars, runVars, boundVars, OldCopyIsReclaimed,
        Migrating, Failing, Sweeping
<1>33. CASE UNCHANGED vars
  BY <1>33
    DEF vars, OldCopyIsReclaimed, Migrating, Failing, Sweeping
<1> QED
  BY <1>1, <1>2, <1>3, <1>4, <1>5, <1>6, <1>7, <1>8, <1>9, <1>10, <1>11,
     <1>12, <1>13, <1>14, <1>15, <1>16, <1>17, <1>19, <1>20, <1>21,
     <1>22, <1>23, <1>24, <1>25, <1>26, <1>27, <1>28, <1>29, <1>30, <1>31,
     <1>32, <1>33
    DEF Next, RunStep, Settle, Fault

\* Unless a statement failed, an old copy has a cleanup pending or a boot to come.
THEOREM OldCopyReclaimed == Spec => []OldCopyIsReclaimed
<1>1. Init => OldCopyIsReclaimed BY DEF Init, OldCopyIsReclaimed
<1>2. IInv /\ OldCopyIsReclaimed /\ [Next]_vars => OldCopyIsReclaimed'
  BY OldCopyStep
<1> QED BY <1>1, <1>2, Inductive, PTL DEF Spec
==============================================================================
