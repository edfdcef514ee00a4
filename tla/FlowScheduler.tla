---------------------------- MODULE FlowScheduler ----------------------------
(***************************************************************************)
(* Scheduled flows (lib/flows/flow-scheduler.ts, flow-executor.ts).        *)
(* Every replica polls, and a poll does not wait for the one before it: a  *)
(* tick claims the flows that are due in one transaction with SKIP LOCKED, *)
(* runs the standard ones while the claim stays open, and moves each one's *)
(* next run forward in the claim, in a savepoint and as the flow's firm.   *)
(* An ai_task is moved forward first and run after the claim committed.    *)
(* The claim's backend may be killed while its connection sits idle, an    *)
(* advance may be refused, a run's record may fail, a replica may die.     *)
(***************************************************************************)
EXTENDS Integers, FiniteSets

CONSTANTS
  Flow,        \* rows of zv_flows
  AiTask,      \* the ones with trigger_type ai_task, the others are cron
  Unusable,    \* the ones whose cron expression never comes
  Firm,        \* Firm[f]: the flow's tenant
  Process,     \* replicas
  Tick,        \* polls that can be under way
  Home,        \* Home[t]: the replica of tick t
  None,
  MaxEras,     \* bound: times a flow comes due
  MaxFaults    \* bound: statements and backends that fail, replicas that die

ASSUME ConstantsAssumption ==
  /\ AiTask \subseteq Flow /\ Unusable \subseteq Flow \ AiTask
  /\ Firm \in [Flow -> {Firm[f] : f \in Flow}]
  /\ Home \in [Tick -> Process] /\ IsFiniteSet(Tick)
  /\ None \notin Tick /\ None \notin {Firm[f] : f \in Flow}
  /\ None \notin Tick \X Flow
  /\ MaxEras \in Nat \ {0} /\ MaxFaults \in Nat

VARIABLES
  up,        \* up[p]: replica p runs
  due,       \* due[f]: next_run_at is null or has come
  active,    \* active[f]: is_active
  lock,      \* lock[f]: the tick whose claim has row f, or None
  claim,     \* claim[t]: "none", "open", "dead" (its backend is gone) or "after"
  task,      \* task[t][f]: where tick t is with flow f
  staged,    \* staged[t]: the flows moved forward in t's claim, not committed
  setting,   \* setting[t]: zveltio.current_tenant of t's claim, or None
  turn,      \* turn[p]: the advance that has _writeTurn of p, or None
  orphans,   \* orphans[f]: run rows 'running' that nobody executes
  eras,      \* history: times f came due
  starts,    \* history: runs of f started
  unrun,     \* history: runs of f given up before they started
  excuses,   \* history: failures that hit f's own claim or its own advance
  faults

rowVars == <<due, active, lock>>
claimVars == <<claim, staged, setting>>
history == <<eras, starts, unrun, excuses>>
vars == <<up, due, active, lock, claim, task, staged, setting, turn, orphans,
          eras, starts, unrun, excuses, faults>>

Cron == Flow \ AiTask
Place == {"none", "claimed", "running", "ran", "advancing", "queued", "ai", "done"}
NoTasks == [f \in Flow |-> "none"]

Go(t, f, to) == task' = [task EXCEPT ![t][f] = to]
Fails == faults < MaxFaults /\ faults' = faults + 1
Excuse(fs) == excuses' = [f \in Flow |-> excuses[f] + IF f \in fs THEN 1 ELSE 0]
Unlocked(t) == [f \in Flow |-> IF lock[f] = t THEN None ELSE lock[f]]

\* The flows tick t has in its hands.
Mine(t) == {f \in Flow : task[t][f] # "none"}

-----------------------------------------------------------------------------
Init ==
  /\ up = [p \in Process |-> TRUE]
  /\ due = [f \in Flow |-> TRUE]
  /\ active = [f \in Flow |-> TRUE]
  /\ lock = [f \in Flow |-> None]
  /\ claim = [t \in Tick |-> "none"]
  /\ task = [t \in Tick |-> NoTasks]
  /\ staged = [t \in Tick |-> {}]
  /\ setting = [t \in Tick |-> None]
  /\ turn = [p \in Process |-> None]
  /\ orphans = [f \in Flow |-> 0]
  /\ eras = [f \in Flow |-> 1]
  /\ starts = [f \in Flow |-> 0]
  /\ unrun = [f \in Flow |-> 0]
  /\ excuses = [f \in Flow |-> 0]
  /\ faults = 0

\* Mutant: the rows other claims have are taken all the same.
ReadyLocked == {f \in Flow : due[f] /\ active[f]}

\* is_active, due, and not locked: FOR NO KEY UPDATE SKIP LOCKED.
Ready == {f \in Flow : due[f] /\ active[f] /\ lock[f] = None}

\* _tick: a poll that finds nothing due commits and changes nothing.
Poll(t) ==
  /\ up[Home[t]]
  /\ claim[t] = "none"
  /\ Ready # {}
  /\ lock' = [f \in Flow |-> IF f \in Ready THEN t ELSE lock[f]]
  /\ claim' = [claim EXCEPT ![t] = "open"]
  /\ task' = [task EXCEPT ![t] = [f \in Flow |-> IF f \in Ready THEN "claimed" ELSE "none"]]
  /\ staged' = [staged EXCEPT ![t] = {}]
  /\ setting' = [setting EXCEPT ![t] = None]
  /\ UNCHANGED <<up, due, active, turn, orphans, history, faults>>

-----------------------------------------------------------------------------
(* executeFlow, on connections of its own.                                 *)

\* The run's row is inserted and its steps begin.
Execute(t, f) ==
  /\ f \in Cron /\ task[t][f] = "claimed"
  /\ Go(t, f, "running")
  /\ starts' = [starts EXCEPT ![f] = @ + 1]
  /\ UNCHANGED <<up, rowVars, claimVars, turn, orphans, eras, unrun, excuses, faults>>

\* The insert fails: the run is reported failed and the schedule goes on.
ExecuteFails(t, f) ==
  /\ f \in Cron /\ task[t][f] = "claimed"
  /\ Fails
  /\ Go(t, f, "ran")
  /\ unrun' = [unrun EXCEPT ![f] = @ + 1]
  /\ UNCHANGED <<up, rowVars, claimVars, turn, orphans, eras, starts, excuses>>

\* The steps end, well or not, and the row says so.
Finish(t, f) ==
  /\ task[t][f] = "running"
  /\ Go(t, f, "ran")
  /\ UNCHANGED <<up, rowVars, claimVars, turn, orphans, history, faults>>

\* The row cannot be updated: it stays 'running'.
FinishUnrecorded(t, f) ==
  /\ task[t][f] = "running"
  /\ Fails
  /\ Go(t, f, "ran")
  /\ orphans' = [orphans EXCEPT ![f] = @ + 1]
  /\ UNCHANGED <<up, rowVars, claimVars, turn, history>>

\* The garbage collector, once a row has been 'running' for ABANDONED_RUN_HOURS.
CloseAbandoned ==
  /\ \E f \in Flow : orphans[f] > 0
  /\ orphans' = [f \in Flow |-> 0]
  /\ UNCHANGED <<up, rowVars, claimVars, task, turn, history, faults>>

-----------------------------------------------------------------------------
(* advance: a standard flow after its run, an ai_task before it.           *)

CanAdvance(t, f) == task[t][f] = IF f \in AiTask THEN "claimed" ELSE "ran"

\* Mutant: the pairs of setting and write do not take turns.
BeginAdvanceAtOnce(t, f) ==
  /\ CanAdvance(t, f)
  /\ claim[t] = "open"
  /\ Go(t, f, "advancing")
  /\ setting' = [setting EXCEPT ![t] = Firm[f]]
  /\ UNCHANGED <<up, rowVars, claim, staged, turn, orphans, history, faults>>

\* Its turn comes: SAVEPOINT and the firm's setting.
BeginAdvance(t, f) ==
  /\ CanAdvance(t, f)
  /\ claim[t] = "open"
  /\ turn[Home[t]] = None
  /\ turn' = [turn EXCEPT ![Home[t]] = <<t, f>>]
  /\ Go(t, f, "advancing")
  /\ setting' = [setting EXCEPT ![t] = Firm[f]]
  /\ UNCHANGED <<up, rowVars, claim, staged, orphans, history, faults>>

\* Mutant: a write that settled keeps its turn.
TurnKept(t, f) == turn' = turn

TurnGiven(t, f) ==
  turn' = [turn EXCEPT ![Home[t]] = IF @ = <<t, f>> THEN None ELSE @]

\* The policy lets a row of the setting's firm through; what it refuses the
\* savepoint undoes, this advance and no other.
Update(t, f) ==
  LET passes == setting[t] = Firm[f] IN
  /\ task[t][f] = "advancing" /\ claim[t] = "open"
  /\ staged' = IF passes THEN [staged EXCEPT ![t] = @ \union {f}] ELSE staged
  /\ Go(t, f, IF passes /\ f \in AiTask THEN "queued" ELSE "done")
  /\ TurnGiven(t, f)
  /\ UNCHANGED <<up, rowVars, claim, setting, orphans, history, faults>>

\* It fails for a reason of its own; an ai_task that is not fenced does not run.
UpdateRefused(t, f) ==
  /\ task[t][f] = "advancing" /\ claim[t] = "open"
  /\ Fails
  /\ Excuse({f})
  /\ Go(t, f, "done")
  /\ TurnGiven(t, f)
  /\ UNCHANGED <<up, rowVars, claimVars, orphans, eras, starts, unrun>>

\* On a claim whose backend is gone the savepoint itself fails.
AdvanceLost(t, f) ==
  /\ claim[t] = "dead"
  /\ CanAdvance(t, f) \/ task[t][f] = "advancing"
  /\ Go(t, f, "done")
  /\ TurnGiven(t, f)
  /\ UNCHANGED <<up, rowVars, claimVars, orphans, history, faults>>

-----------------------------------------------------------------------------
(* The end of a tick.                                                      *)

AllSettled(t) == \A f \in Flow : task[t][f] \in {"none", "done", "queued"}

Queued(t) == {f \in Flow : task[t][f] = "queued"}

\* COMMIT: the advances take effect and the rows are free.
Committed(t) ==
  /\ claim[t] = "open" /\ AllSettled(t)
  /\ due' = [f \in Flow |-> due[f] /\ (f \in staged[t] => f \in Unusable)]
  /\ active' = [f \in Flow |-> active[f] /\ ~(f \in staged[t] /\ f \in Unusable)]
  /\ lock' = Unlocked(t)
  /\ staged' = [staged EXCEPT ![t] = {}]

\* Its ai_tasks may run.
Commit(t) ==
  /\ Committed(t)
  /\ claim' = [claim EXCEPT ![t] = IF Queued(t) = {} THEN "none" ELSE "after"]
  /\ task' = [task EXCEPT ![t] = [f \in Flow |-> IF f \in Queued(t) THEN "queued" ELSE "none"]]
  /\ UNCHANGED <<up, setting, turn, orphans, history, faults>>

\* The answer is lost: the tick takes it for a failure, its ai_tasks do not run.
CommitAnswerLost(t) ==
  /\ Committed(t)
  /\ Fails
  /\ claim' = [claim EXCEPT ![t] = "none"]
  /\ task' = [task EXCEPT ![t] = NoTasks]
  /\ UNCHANGED <<up, setting, turn, orphans, history>>

\* Mutant: the ai_tasks of a claim that did not commit run all the same.
EndDeadRuns(t) ==
  /\ claim[t] = "dead" /\ AllSettled(t)
  /\ claim' = [claim EXCEPT ![t] = IF Queued(t) = {} THEN "none" ELSE "after"]
  /\ task' = [task EXCEPT ![t] = [f \in Flow |-> IF f \in Queued(t) THEN "queued" ELSE "none"]]
  /\ UNCHANGED <<up, rowVars, staged, setting, turn, orphans, history, faults>>

\* COMMIT on a dead backend throws: the tick is over, its ai_tasks do not run.
EndDead(t) ==
  /\ claim[t] = "dead" /\ AllSettled(t)
  /\ claim' = [claim EXCEPT ![t] = "none"]
  /\ task' = [task EXCEPT ![t] = NoTasks]
  /\ UNCHANGED <<up, rowVars, staged, setting, turn, orphans, history, faults>>

\* afterClaim: runAiTask, which never throws.
RunAiTask(t, f) ==
  /\ claim[t] = "after" /\ task[t][f] = "queued"
  /\ Go(t, f, "ai")
  /\ starts' = [starts EXCEPT ![f] = @ + 1]
  /\ UNCHANGED <<up, rowVars, claimVars, turn, orphans, eras, unrun, excuses, faults>>

AiTaskEnds(t, f) ==
  /\ task[t][f] = "ai"
  /\ Go(t, f, "none")
  /\ claim' = [claim EXCEPT ![t] = IF Mine(t) = {f} THEN "none" ELSE @]
  /\ UNCHANGED <<up, rowVars, staged, setting, turn, orphans, history, faults>>

-----------------------------------------------------------------------------
(* Time and failures.                                                      *)

ComesDue(f) ==
  /\ ~due[f]
  /\ eras[f] < MaxEras
  /\ due' = [due EXCEPT ![f] = TRUE]
  /\ eras' = [eras EXCEPT ![f] = @ + 1]
  /\ UNCHANGED <<up, active, lock, claimVars, task, turn, orphans, starts, unrun, excuses,
                 faults>>

\* idle_in_transaction_session_timeout, or a lost connection: the rows are free
\* and the advances gone while the flows run on.
ClaimDies(t) ==
  /\ claim[t] = "open"
  /\ Fails
  /\ claim' = [claim EXCEPT ![t] = "dead"]
  /\ lock' = Unlocked(t)
  /\ staged' = [staged EXCEPT ![t] = {}]
  /\ Excuse(Mine(t))
  /\ UNCHANGED <<up, due, active, task, setting, turn, orphans, eras, starts, unrun>>

TicksOf(p) == {t \in Tick : Home[t] = p}
RunningAt(p) == {f \in Flow : \E t \in TicksOf(p) : task[t][f] = "running"}

Crash(p) ==
  /\ up[p]
  /\ Fails
  /\ up' = [up EXCEPT ![p] = FALSE]
  /\ lock' = [f \in Flow |-> IF lock[f] \in TicksOf(p) THEN None ELSE lock[f]]
  /\ claim' = [t \in Tick |-> IF t \in TicksOf(p) THEN "none" ELSE claim[t]]
  /\ task' = [t \in Tick |-> IF t \in TicksOf(p) THEN NoTasks ELSE task[t]]
  /\ staged' = [t \in Tick |-> IF t \in TicksOf(p) THEN {} ELSE staged[t]]
  /\ turn' = [turn EXCEPT ![p] = None]
  /\ orphans' = [f \in Flow |-> orphans[f] + IF f \in RunningAt(p) THEN 1 ELSE 0]
  /\ Excuse(UNION {Mine(t) : t \in TicksOf(p)})
  /\ UNCHANGED <<due, active, setting, eras, starts, unrun>>

Restart(p) ==
  /\ ~up[p]
  /\ up' = [up EXCEPT ![p] = TRUE]
  /\ UNCHANGED <<rowVars, claimVars, task, turn, orphans, history, faults>>

-----------------------------------------------------------------------------
TaskStep(t, f) ==
  \/ Execute(t, f) \/ Finish(t, f)
  \/ BeginAdvance(t, f) \/ Update(t, f) \/ AdvanceLost(t, f)
  \/ RunAiTask(t, f) \/ AiTaskEnds(t, f)

TickStep(t) == Commit(t) \/ EndDead(t)

Fault ==
  \/ \E t \in Tick, f \in Flow :
       ExecuteFails(t, f) \/ FinishUnrecorded(t, f) \/ UpdateRefused(t, f)
  \/ \E t \in Tick : ClaimDies(t) \/ CommitAnswerLost(t)
  \/ \E p \in Process : Crash(p)

Next ==
  \/ \E t \in Tick : Poll(t) \/ TickStep(t)
  \/ \E t \in Tick, f \in Flow : TaskStep(t, f)
  \/ \E f \in Flow : ComesDue(f)
  \/ \E p \in Process : Restart(p)
  \/ CloseAbandoned
  \/ Fault

\* The interval fires again and again, every step of a flow has a timeout, a
\* replica is restarted and the garbage collector runs daily.
Fairness ==
  /\ \A t \in Tick : WF_vars(Poll(t)) /\ WF_vars(TickStep(t))
  /\ \A t \in Tick, f \in Flow : WF_vars(TaskStep(t, f))
  /\ \A p \in Process : WF_vars(Restart(p))
  /\ WF_vars(CloseAbandoned)

Spec == Init /\ [][Next]_vars /\ Fairness

-----------------------------------------------------------------------------
TypeOK ==
  /\ up \in [Process -> BOOLEAN]
  /\ due \in [Flow -> BOOLEAN] /\ active \in [Flow -> BOOLEAN]
  /\ lock \in [Flow -> Tick \union {None}]
  /\ claim \in [Tick -> {"none", "open", "dead", "after"}]
  /\ task \in [Tick -> [Flow -> Place]]
  /\ staged \in [Tick -> SUBSET Flow]
  /\ setting \in [Tick -> {Firm[f] : f \in Flow} \union {None}]
  /\ turn \in [Process -> (Tick \X Flow) \union {None}]
  /\ orphans \in [Flow -> Nat] /\ eras \in [Flow -> Nat]
  /\ starts \in [Flow -> Nat] /\ unrun \in [Flow -> Nat] /\ excuses \in [Flow -> Nat]
  /\ faults \in Nat

\* Times a run of f was due and is no longer: moved forward, or switched off.
Consumed(f) == eras[f] - (IF due[f] /\ active[f] THEN 1 ELSE 0)

\* Two ticks, of one replica or of two, are inside one standard flow only when
\* the claim of one of them lost its backend under it.
NoOverlap ==
  \A f \in Cron, t, u \in Tick :
    t # u /\ task[t][f] = "running" /\ task[u][f] = "running" =>
      claim[t] = "dead" \/ claim[u] = "dead"

\* A standard flow runs once for each time it comes due; every run beyond that
\* is owed to a failure of its own: its claim, its replica or its own advance,
\* never that of a flow claimed beside it.
ExtraRunsExplained == \A f \in Cron : starts[f] <= eras[f] + excuses[f]

\* No due run of a standard flow is lost to a crash, a dead claim or a refused
\* write: next_run_at moves only past a run that started, or whose record could
\* not be inserted.
NoDueLost == \A f \in Cron : Consumed(f) <= starts[f] + unrun[f]

\* A standard flow runs for each time it comes due and no oftener, up to what its
\* own failures and unrecorded runs account for (_tick, _executeScheduledFlow).
OneRunPerDue == ExtraRunsExplained /\ NoDueLost

\* An ai_task, which runs with no lock held, runs only for a due time that was
\* durably moved past, and at most once for each.
AiOncePerDue == \A f \in AiTask : starts[f] <= Consumed(f)

\* A flow that is due is moved forward or switched off in the end, whatever
\* ticks overlap, fail or die.
EveryDueIsTaken ==
  \A f \in Flow : due[f] /\ active[f] ~> ~(due[f] /\ active[f])

==============================================================================
