------------------------------- MODULE GhostDdl -------------------------------
(***************************************************************************)
(* A column is added to a large table that is being written                *)
(* (lib/data/ghost-ddl.ts).  A ghost copy gets the column; a trigger on    *)
(* the original logs every write to a changelog; the rows are copied in    *)
(* batches, the changelog is replayed, and under a lock that holds writers *)
(* back the last entries are replayed, the rows are counted and the two    *)
(* tables trade names.  The old copy and the changelog are dropped a       *)
(* minute later by a timer of the process, or by the next boot's sweep.    *)
(*                                                                         *)
(* One table.  A run holds the advisory lock of the table (AdvisoryLock),  *)
(* so its cursor and what it read of the changelog are one variable each.  *)
(* Every object goes by its name, as in the code: a run, a cleanup and a   *)
(* sweep meet in the same catalog.                                         *)
(***************************************************************************)
EXTENDS Integers, FiniteSets

CONSTANTS
  Row,         \* ids, in the order of the copy's cursor
  Value,       \* what a row may hold
  None,        \* no row; no instance
  Stored,      \* Stored[r]: the table before the first migration
  Instance,    \* engine processes
  BatchSize,   \* BATCH_SIZE
  MaxWrites,   \* bound: write statements
  MaxRuns,     \* bound: migrations started
  MaxFaults,   \* bound: statements that fail
  MaxCrashes   \* bound: processes that end

ASSUME ConstantsAssumption ==
  /\ Row \subseteq Nat \ {0} /\ IsFiniteSet(Row)
  /\ Stored \in [Row -> Value \union {None}]
  /\ None \notin Value /\ None \notin Instance
  /\ BatchSize \in Nat \ {0}
  /\ MaxWrites \in Nat /\ MaxRuns \in Nat /\ MaxFaults \in Nat /\ MaxCrashes \in Nat

VARIABLES
  live,       \* live[r]: row r of the table that has the original's name
  shape,      \* swaps made
  catalog,    \* which of the migration's objects exist, by name
  ghost,      \* rows of _zv_ghost_<table>
  entries,    \* committed rows of _zv_changelog_<table>
  logOid,     \* which changelog has the name: the run that created it
  oldOid,     \* which old copy has the name: the swap that left it
  locked,     \* the swap's transaction holds the table
  pend,       \* writes executed and not yet committed
  holder,     \* the instance with the table's advisory lock, or None
  pc,         \* pc[i]: where instance i is
  cursor,     \* the run's lastId, 0 for null
  read,       \* the entries the run read of the changelog
  timers,     \* timers[i]: the cleanups instance i has pending
  mishaps,    \* history: what has taken a changelog from under its trigger
  writes, runs, faults, crashes

tableVars == <<live, shape, pend, writes>>
runVars == <<cursor, read, holder, runs>>
boundVars == <<faults, crashes>>
vars == <<live, shape, catalog, ghost, entries, logOid, oldOid, locked, pend,
          holder, pc, cursor, read, timers, mishaps, writes, runs, faults, crashes>>

Content == Value \union {None}
Empty == [r \in Row |-> None]
Object == {"ghost", "changelog", "trigger", "old"}
Entry == [id : Nat, row : Row, val : Content]
Pending == [id : Nat, row : Row, val : Content, logged : BOOLEAN]

Migrating == {"create", "drop_log", "create_log", "add_trigger", "count", "copy",
              "read1", "replay1", "read2", "replay2", "lock", "swap"}
Failing == {"undo_trigger", "undo_ghost", "undo_log"}
Sweeping == {"sweep_log", "sweep_old"}
Location == Migrating \union Failing \union Sweeping \union {"idle", "down"}

Goto(i, to) == pc' = [pc EXCEPT ![i] = to]
Step(i, from, to) == pc[i] = from /\ Goto(i, to)

-----------------------------------------------------------------------------
(* Replaying a changelog: each entry is an upsert or a delete of its row,  *)
(* in the order of the ids, so a row ends as its last entry says.          *)

EntriesOf(log, r) == {e \in log : e.row = r}

LastOf(log, r) ==
  CHOOSE e \in EntriesOf(log, r) : \A f \in EntriesOf(log, r) : f.id <= e.id

Replayed(rows, log) ==
  [r \in Row |-> IF EntriesOf(log, r) = {} THEN rows[r] ELSE LastOf(log, r).val]

RowsOf(rows) == {r \in Row : rows[r] # None}

\* ORDER BY id LIMIT n: the first n of the ids, or all of them.
IsFirst(batch, ids, n) ==
  /\ batch \subseteq ids
  /\ \A q \in ids, r \in batch : q <= r => q \in batch
  /\ Cardinality(batch) = n \/ (batch = ids /\ Cardinality(batch) < n)

\* ORDER BY id DESC LIMIT 1, 0 for no row.
IsLast(id, rows) ==
  \/ id = 0 /\ RowsOf(rows) = {}
  \/ id \in RowsOf(rows) /\ \A r \in RowsOf(rows) : r <= id

-----------------------------------------------------------------------------
Init ==
  /\ live = Stored
  /\ shape = 0
  /\ catalog = {}
  /\ ghost = Empty /\ entries = {}
  /\ logOid = 0 /\ oldOid = 0
  /\ locked = FALSE
  /\ pend = {}
  /\ holder = None
  /\ pc = [i \in Instance |-> "idle"]
  /\ cursor = 0 /\ read = {}
  /\ timers = [i \in Instance |-> {}]
  /\ mishaps = {}
  /\ writes = 0 /\ runs = 0 /\ faults = 0 /\ crashes = 0

-----------------------------------------------------------------------------
(* Writers.  A statement holds its row until its transaction ends, and     *)
(* the capture trigger inserts into whatever has the changelog's name.     *)

\* The statement runs; its changelog entry takes its id from the sequence now.
Write(r, v) ==
  /\ writes < MaxWrites
  /\ ~locked
  /\ \A p \in pend : p.row # r
  /\ v # live[r]
  /\ "trigger" \in catalog => "changelog" \in catalog
  /\ pend' = pend \union {[id |-> writes + 1, row |-> r, val |-> v,
                           logged |-> "trigger" \in catalog]}
  /\ writes' = writes + 1
  /\ UNCHANGED <<live, shape, catalog, ghost, entries, logOid, oldOid, locked,
                 pc, timers, mishaps, runVars, boundVars>>

Commit(p) ==
  /\ p \in pend
  /\ pend' = pend \ {p}
  /\ live' = [live EXCEPT ![p.row] = p.val]
  /\ entries' = IF p.logged
                THEN entries \union {[id |-> p.id, row |-> p.row, val |-> p.val]}
                ELSE entries
  /\ UNCHANGED <<shape, writes, catalog, ghost, logOid, oldOid, locked,
                 pc, timers, mishaps, runVars, boundVars>>

Abort(p) ==
  /\ p \in pend
  /\ pend' = pend \ {p}
  /\ UNCHANGED <<live, shape, writes, catalog, ghost, entries, logOid, oldOid, locked,
                 pc, timers, mishaps, runVars, boundVars>>

\* DROP TABLE waits for the transactions that wrote the changelog.
LogUnused == \A p \in pend : ~p.logged

-----------------------------------------------------------------------------
(* execute and run, up to createGhost.                                     *)

\* The table's advisory lock is held by one run at a time, to its end: a holder whose
\* backend dies under the run (AdvisoryLock) is left out.
Start(i) ==
  /\ runs < MaxRuns
  /\ holder = None
  /\ Step(i, "idle", "create")
  /\ holder' = i
  /\ runs' = runs + 1
  /\ cursor' = 0 /\ read' = {}
  /\ UNCHANGED <<tableVars, catalog, ghost, entries, logOid, oldOid, locked,
                 timers, mishaps, boundVars>>

\* CREATE TABLE ... LIKE and the added column; a ghost of that name fails it.
CreateGhost(i) ==
  /\ "ghost" \notin catalog
  /\ Step(i, "create", "drop_log")
  /\ catalog' = catalog \union {"ghost"}
  /\ ghost' = Empty
  /\ UNCHANGED <<tableVars, runVars, boundVars, entries, logOid, oldOid, locked, timers, mishaps>>

GhostExists(i) ==
  /\ "ghost" \in catalog
  /\ Step(i, "create", "undo_trigger")
  /\ UNCHANGED <<tableVars, runVars, boundVars, catalog, ghost, entries, logOid, oldOid,
                 locked, timers, mishaps>>

DropLeftLog(i) ==
  /\ LogUnused
  /\ Step(i, "drop_log", "create_log")
  /\ catalog' = catalog \ {"changelog"}
  /\ entries' = {}
  /\ UNCHANGED <<tableVars, runVars, boundVars, ghost, logOid, oldOid, locked, timers, mishaps>>

CreateLog(i) ==
  /\ Step(i, "create_log", "add_trigger")
  /\ catalog' = catalog \union {"changelog"}
  /\ entries' = {}
  /\ logOid' = runs
  /\ UNCHANGED <<tableVars, runVars, boundVars, ghost, oldOid, locked, timers, mishaps>>

\* CREATE TRIGGER waits for the writes under way and fails on a trigger left behind.
AddTrigger(i) ==
  /\ "trigger" \notin catalog
  /\ pend = {}
  /\ Step(i, "add_trigger", "count")
  /\ catalog' = catalog \union {"trigger"}
  /\ UNCHANGED <<tableVars, runVars, boundVars, ghost, entries, logOid, oldOid, locked, timers, mishaps>>

TriggerExists(i) ==
  /\ "trigger" \in catalog
  /\ Step(i, "add_trigger", "undo_trigger")
  /\ UNCHANGED <<tableVars, runVars, boundVars, catalog, ghost, entries, logOid, oldOid,
                 locked, timers, mishaps>>

-----------------------------------------------------------------------------
(* batchCopy                                                               *)

\* An empty table has nothing to copy.
CountRows(i) ==
  /\ Step(i, "count", IF live = Empty THEN "read1" ELSE "copy")
  /\ UNCHANGED <<tableVars, runVars, boundVars, catalog, ghost, entries, logOid, oldOid,
                 locked, timers, mishaps>>

\* WHERE id > lastId.
Ahead == {r \in RowsOf(live) : r > cursor}

\* One batch: INSERT ... ON CONFLICT DO NOTHING, then the cursor read off the
\* ghost; a batch that inserted fewer rows than it may is the last one.
CopyBatch(i) ==
  /\ "ghost" \in catalog
  /\ \E batch \in SUBSET Ahead, last \in Row \union {0} :
       LET inserted == {r \in batch : ghost[r] = None} IN
       /\ IsFirst(batch, Ahead, BatchSize)
       /\ ghost' = [r \in Row |-> IF r \in inserted THEN live[r] ELSE ghost[r]]
       /\ IsLast(last, ghost')
       /\ cursor' = last
       /\ Step(i, "copy", IF Cardinality(inserted) < BatchSize THEN "read1" ELSE "copy")
  /\ UNCHANGED <<tableVars, boundVars, read, holder, runs, catalog, entries, logOid, oldOid,
                 locked, timers, mishaps>>

-----------------------------------------------------------------------------
(* applyChangelog: by run, at the head of atomicSwap, and under its lock.  *)

ReadChangelog(i, from, to) ==
  /\ "changelog" \in catalog
  /\ Step(i, from, to)
  /\ read' = entries
  /\ UNCHANGED <<tableVars, boundVars, cursor, holder, runs, catalog, ghost, entries, logOid,
                 oldOid, locked, timers, mishaps>>

\* Mutant: everything in the changelog leaves it, not the entries read.
ReplayClearingAll(i, from, to) ==
  /\ {"changelog", "ghost"} \subseteq catalog
  /\ Step(i, from, to)
  /\ ghost' = Replayed(ghost, read)
  /\ entries' = {}
  /\ read' = {}
  /\ UNCHANGED <<tableVars, boundVars, cursor, holder, runs, catalog, logOid,
                 oldOid, locked, timers, mishaps>>

\* Each entry read, in order, then exactly those leave the changelog.
ReplayChangelog(i, from, to) ==
  /\ {"changelog", "ghost"} \subseteq catalog
  /\ Step(i, from, to)
  /\ ghost' = Replayed(ghost, read)
  /\ entries' = entries \ read
  /\ read' = {}
  /\ UNCHANGED <<tableVars, boundVars, cursor, holder, runs, catalog, logOid,
                 oldOid, locked, timers, mishaps>>

-----------------------------------------------------------------------------
(* atomicSwap                                                              *)

\* LOCK TABLE waits for the writers under way and holds the next ones back.
LockTable(i) ==
  /\ pend = {}
  /\ Step(i, "lock", "swap")
  /\ locked' = TRUE
  /\ UNCHANGED <<tableVars, runVars, boundVars, catalog, ghost, entries, logOid, oldOid,
                 timers, mishaps>>

SameCount(rows) == Cardinality(RowsOf(live)) = Cardinality(RowsOf(rows))

\* Mutant: what was logged between the last replay and the lock is not replayed.
SwapUnreplayed ==
  /\ {"changelog", "ghost"} \subseteq catalog
  /\ SameCount(ghost)
  /\ live' = ghost
  /\ shape' = shape + 1
  /\ catalog' = (catalog \ {"ghost", "trigger"}) \union {"old"}
  /\ ghost' = Empty
  /\ entries' = {}
  /\ oldOid' = shape + 1
  /\ locked' = FALSE

\* Replay the rest, count, rename both tables, drop the trigger.
SwapTables ==
  /\ {"changelog", "ghost"} \subseteq catalog
  /\ SameCount(Replayed(ghost, entries))
  /\ live' = Replayed(ghost, entries)
  /\ shape' = shape + 1
  /\ catalog' = (catalog \ {"ghost", "trigger"}) \union {"old"}
  /\ ghost' = Empty
  /\ entries' = {}
  /\ oldOid' = shape + 1
  /\ locked' = FALSE

\* The transaction commits; the cleanup of what it left is armed.
Swap(i) ==
  /\ Step(i, "swap", "idle")
  /\ SwapTables
  /\ timers' = [timers EXCEPT ![i] = @ \union {[old |-> shape + 1, log |-> logOid]}]
  /\ holder' = None
  /\ UNCHANGED <<pend, writes, cursor, read, runs, boundVars, logOid, mishaps>>

\* It commits and the answer is lost: the run takes it for a failure.
SwapAnswerLost(i) ==
  /\ faults < MaxFaults
  /\ Step(i, "swap", "undo_trigger")
  /\ SwapTables
  /\ faults' = faults + 1
  /\ UNCHANGED <<pend, writes, runVars, crashes, logOid, timers, mishaps>>

\* What makes the swap's or a replay's transaction throw: the changelog is
\* gone, or the counts differ.
Refused(i) ==
  \/ /\ "changelog" \notin catalog
     /\ pc[i] \in {"read1", "replay1", "read2", "replay2", "swap"}
  \/ /\ pc[i] = "swap" /\ {"changelog", "ghost"} \subseteq catalog
     /\ ~SameCount(Replayed(ghost, entries))

RunRefused(i) ==
  /\ Refused(i)
  /\ Goto(i, "undo_trigger")
  /\ locked' = FALSE
  /\ UNCHANGED <<tableVars, runVars, boundVars, catalog, ghost, entries, logOid, oldOid,
                 timers, mishaps>>

\* A statement of the run fails: the connection, a timeout, a busy pool.
StepFails(i) ==
  /\ faults < MaxFaults
  /\ pc[i] \in Migrating
  /\ Goto(i, "undo_trigger")
  /\ locked' = FALSE
  /\ faults' = faults + 1
  /\ UNCHANGED <<tableVars, runVars, crashes, catalog, ghost, entries, logOid, oldOid,
                 timers, mishaps>>

-----------------------------------------------------------------------------
(* The failure cleanup of run, then the error reaches the caller.          *)

UndoTrigger(i) ==
  /\ pend = {}
  /\ Step(i, "undo_trigger", "undo_ghost")
  /\ catalog' = catalog \ {"trigger"}
  /\ UNCHANGED <<tableVars, runVars, boundVars, ghost, entries, logOid, oldOid, locked, timers, mishaps>>

\* DROP TRIGGER fails; the failure is logged and the cleanup goes on.
UndoTriggerFails(i) ==
  /\ faults < MaxFaults
  /\ Step(i, "undo_trigger", "undo_ghost")
  /\ faults' = faults + 1
  /\ mishaps' = IF "trigger" \in catalog THEN mishaps \union {"trigger_left"} ELSE mishaps
  /\ UNCHANGED <<tableVars, runVars, crashes, catalog, ghost, entries, logOid, oldOid,
                 locked, timers>>

UndoGhost(i) ==
  /\ Step(i, "undo_ghost", "undo_log")
  /\ catalog' = catalog \ {"ghost"}
  /\ ghost' = Empty
  /\ UNCHANGED <<tableVars, runVars, boundVars, entries, logOid, oldOid, locked, timers, mishaps>>

UndoLog(i) ==
  /\ LogUnused
  /\ Step(i, "undo_log", "idle")
  /\ catalog' = catalog \ {"changelog"}
  /\ entries' = {}
  /\ holder' = None
  /\ UNCHANGED <<tableVars, boundVars, cursor, read, runs, ghost, logOid, oldOid, locked,
                 timers, mishaps>>

\* DROP of the ghost or of the changelog fails: the rest is left behind.
UndoFails(i) ==
  /\ faults < MaxFaults
  /\ pc[i] \in {"undo_ghost", "undo_log"}
  /\ Goto(i, "idle")
  /\ faults' = faults + 1
  /\ holder' = None
  /\ UNCHANGED <<tableVars, crashes, cursor, read, runs, catalog, ghost, entries, logOid,
                 oldOid, locked, timers, mishaps>>

-----------------------------------------------------------------------------
(* After the swap: the timer's cleanup, by oid; after a restart: the sweep.*)

\* Mutant: the cleanup drops what has the names now.
CleanupByName(i, t) ==
  /\ t \in timers[i]
  /\ LogUnused
  /\ timers' = [timers EXCEPT ![i] = @ \ {t}]
  /\ catalog' = catalog \ {"old", "changelog"}
  /\ entries' = {}
  /\ UNCHANGED <<tableVars, runVars, boundVars, ghost, logOid, oldOid, locked, pc, mishaps>>

Cleanup(i, t) ==
  LET logIsMine == logOid = t.log /\ "changelog" \in catalog
      gone == (IF oldOid = t.old THEN {"old"} ELSE {})
                \union (IF logIsMine THEN {"changelog"} ELSE {})
  IN /\ t \in timers[i]
     /\ logIsMine => LogUnused
     /\ timers' = [timers EXCEPT ![i] = @ \ {t}]
     /\ catalog' = catalog \ gone
     /\ entries' = IF logIsMine THEN {} ELSE entries
     /\ UNCHANGED <<tableVars, runVars, boundVars, ghost, logOid, oldOid, locked, pc, mishaps>>

CleanupFails(i, t) ==
  /\ faults < MaxFaults
  /\ t \in timers[i]
  /\ timers' = [timers EXCEPT ![i] = @ \ {t}]
  /\ faults' = faults + 1
  /\ UNCHANGED <<tableVars, runVars, crashes, catalog, ghost, entries, logOid, oldOid,
                 locked, pc, mishaps>>

\* The process ends: its transactions roll back, its lock and its timers go.
Crash(i) ==
  /\ crashes < MaxCrashes
  /\ pc[i] # "down"
  /\ crashes' = crashes + 1
  /\ Goto(i, "down")
  /\ timers' = [timers EXCEPT ![i] = {}]
  /\ holder' = IF holder = i THEN None ELSE holder
  /\ locked' = (locked /\ holder # i)
  /\ UNCHANGED <<tableVars, faults, cursor, read, runs, catalog, ghost, entries, logOid,
                 oldOid, mishaps>>

\* Mutant: boot does not look for old copies.
BootUnswept(i) ==
  /\ Step(i, "down", "idle")
  /\ UNCHANGED <<tableVars, runVars, boundVars, catalog, ghost, entries, logOid, oldOid,
                 locked, timers, mishaps>>

\* Boot lists the old copies; a ghost is reported and left alone.
Boot(i) ==
  /\ Step(i, "down", IF "old" \in catalog THEN "sweep_log" ELSE "idle")
  /\ UNCHANGED <<tableVars, runVars, boundVars, catalog, ghost, entries, logOid, oldOid,
                 locked, timers, mishaps>>

\* DROP TABLE IF EXISTS of the changelog that has the name.
SweepLog(i) ==
  /\ LogUnused
  /\ Step(i, "sweep_log", "sweep_old")
  /\ catalog' = catalog \ {"changelog"}
  /\ entries' = {}
  /\ mishaps' = IF holder # None \/ "trigger" \in catalog
                THEN mishaps \union {"log_swept"} ELSE mishaps
  /\ UNCHANGED <<tableVars, runVars, boundVars, ghost, logOid, oldOid, locked, timers>>

SweepOld(i) ==
  /\ Step(i, "sweep_old", "idle")
  /\ catalog' = catalog \ {"old"}
  /\ UNCHANGED <<tableVars, runVars, boundVars, ghost, entries, logOid, oldOid, locked, timers, mishaps>>

\* A DROP of the sweep fails: listed, and boot goes on.
SweepFails(i) ==
  /\ faults < MaxFaults
  /\ pc[i] \in Sweeping
  /\ Goto(i, "idle")
  /\ faults' = faults + 1
  /\ UNCHANGED <<tableVars, runVars, crashes, catalog, ghost, entries, logOid, oldOid,
                 locked, timers, mishaps>>

-----------------------------------------------------------------------------
RunStep(i) ==
  \/ CreateGhost(i) \/ GhostExists(i) \/ DropLeftLog(i) \/ CreateLog(i)
  \/ AddTrigger(i) \/ TriggerExists(i) \/ CountRows(i) \/ CopyBatch(i)
  \/ ReadChangelog(i, "read1", "replay1") \/ ReplayChangelog(i, "replay1", "read2")
  \/ ReadChangelog(i, "read2", "replay2") \/ ReplayChangelog(i, "replay2", "lock")
  \/ LockTable(i) \/ Swap(i) \/ RunRefused(i)
  \/ UndoTrigger(i) \/ UndoGhost(i) \/ UndoLog(i)

Settle(i) ==
  \/ Boot(i) \/ SweepLog(i) \/ SweepOld(i)
  \/ \E t \in timers[i] : Cleanup(i, t)

Fault(i) ==
  \/ StepFails(i) \/ SwapAnswerLost(i) \/ UndoTriggerFails(i) \/ UndoFails(i) \/ SweepFails(i) \/ Crash(i)
  \/ \E t \in timers[i] : CleanupFails(i, t)

Next ==
  \/ \E r \in Row, v \in Content : Write(r, v)
  \/ \E p \in pend : Commit(p) \/ Abort(p)
  \/ \E i \in Instance : Start(i) \/ RunStep(i) \/ Settle(i) \/ Fault(i)

Spec == Init /\ [][Next]_vars

-----------------------------------------------------------------------------
TypeOK ==
  /\ live \in [Row -> Content] /\ ghost \in [Row -> Content]
  /\ shape \in Nat /\ logOid \in Nat /\ oldOid \in Nat
  /\ catalog \subseteq Object
  /\ entries \subseteq Entry /\ read \subseteq Entry
  /\ pend \subseteq Pending
  /\ locked \in BOOLEAN
  /\ holder \in Instance \union {None}
  /\ pc \in [Instance -> Location]
  /\ cursor \in Row \union {0}
  /\ timers \in [Instance -> SUBSET [old : Nat, log : Nat]]
  /\ mishaps \subseteq {"trigger_left", "log_swept"}
  /\ writes \in Nat /\ runs \in Nat /\ faults \in Nat /\ crashes \in Nat

\* The table is captured: its run has the trigger in place and is not done.
Captured == {"count", "copy", "read1", "replay1", "read2", "replay2", "lock", "swap"}

\* The copy has passed row r.
Passed(i, r) ==
  CASE pc[i] = "count" -> FALSE
    [] pc[i] = "copy" -> r <= cursor
    [] OTHER -> TRUE

\* At every moment of a run, however writers and batches interleave: what is
\* still in the changelog ends in the row the table has, and a row the copy has
\* passed that no entry is waiting for is in the ghost as it is in the table
\* (batchCopy, applyChangelog).
NothingMissed ==
  \A i \in Instance, r \in Row :
    pc[i] \in Captured /\ "changelog" \in catalog =>
      IF EntriesOf(entries, r) # {}
      THEN LastOf(entries, r).val = live[r]
      ELSE Passed(i, r) => ghost[r] = live[r]

\* What the migration promises: the table is a LiveTable.  A swap changes the
\* shape and not one row, whatever was written during the copy and whoever
\* crashed, and nothing but a swap or a writer changes the table.
LT == INSTANCE LiveTable WITH rows <- live
ImplementsLiveTable == LT!Spec

\* A write is refused only for a changelog taken from under its trigger, and
\* only two things do that: a cleanup that went on after DROP TRIGGER failed, and
\* a boot sweep that met the changelog of another instance's run.  No run,
\* timer, crash or order of them does it besides.
RefusalHasACause ==
  "trigger" \in catalog /\ "changelog" \notin catalog => mishaps # {}

\* The pre-migration copy of the table is never forgotten: the timer of the swap
\* that left it is pending, or a process that ended has yet to boot and sweep -
\* unless a statement failed.
OldCopyIsReclaimed ==
  "old" \in catalog =>
    \/ faults > 0
    \/ \E i \in Instance : \/ pc[i] \in Sweeping \union {"down"}
                          \/ \E t \in timers[i] : t.old = oldOid
==============================================================================
