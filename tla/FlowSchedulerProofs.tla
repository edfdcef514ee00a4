------------------------ MODULE FlowSchedulerProofs ------------------------
(***************************************************************************)
(* What the scheduler of FlowScheduler guarantees for any flows, firms,    *)
(* replicas, overlapping ticks and failures.                               *)
(*                                                                         *)
(* The argument.  A flow in an open claim is locked by it (Locks), so two  *)
(* open claims never have one flow.  The advance whose turn it is finds    *)
(* its own firm set (Turns), so it passes unless it fails for a reason of  *)
(* its own.  Runs are then counted: a run still to come, of the claim that *)
(* has the row, of the next one or of a claim that lost its backend, is    *)
(* paid for by a due time or by an excuse (RunsPaid); a row moves forward  *)
(* only past a run (Past, NoDueLost); an ai_task waits for its run only    *)
(* once its due time is used up (AiPaid).                                  *)
(***************************************************************************)
EXTENDS FlowScheduler, TLAPS, FiniteSetTheorems

-----------------------------------------------------------------------------
(* The inductive invariant.                                                *)

\* What a claim's state says of its flows.
Places ==
  \A t \in Tick, f \in Flow :
    /\ claim[t] = "none" => task[t][f] = "none"
    /\ claim[t] = "after" => task[t][f] \in {"none", "queued", "ai"}
    /\ task[t][f] = "ai" => claim[t] = "after"
    /\ f \in Cron => task[t][f] \notin {"queued", "ai"}
    /\ f \in AiTask => task[t][f] \notin {"running", "ran"}
    /\ claim[t] # "open" => f \notin staged[t]
    /\ f \in staged[t] => task[t][f] \in {"queued", "done"}
    /\ claim[t] = "open" /\ task[t][f] = "queued" => f \in staged[t]

\* The flows of an open claim are the rows it has locked; a locked row is due.
Locks ==
  /\ \A t \in Tick, f \in Flow :
       lock[f] = t <=> claim[t] = "open" /\ task[t][f] # "none"
  /\ \A f \in Flow : lock[f] # None => due[f] /\ active[f]
  /\ \A f \in Flow : due[f] \/ active[f]

\* An advance under way has its replica's turn and its firm's setting.
Turns ==
  \A t \in Tick, f \in Flow :
    task[t][f] = "advancing" => turn[Home[t]] = <<t, f>> /\ setting[t] = Firm[f]

\* A standard flow past its run has used its due time.
Past ==
  \A t \in Tick, f \in Cron :
    claim[t] = "open" /\ task[t][f] \in {"running", "ran", "advancing", "done"} =>
      eras[f] <= starts[f] + unrun[f]

\* Claims that lost their backend with f still to run.
DeadClaimed(f) == {t \in Tick : claim[t] = "dead" /\ task[t][f] = "claimed"}

\* A run of f is to come, of the claim that has its row or of the next one.
ToCome(f) ==
  /\ due[f] /\ active[f]
  /\ \/ lock[f] = None
     \/ \E t \in Tick :
          /\ lock[f] = t
          /\ task[t][f] = "claimed" \/ (task[t][f] = "done" /\ f \notin staged[t])

RunsPaid ==
  \A f \in Cron :
    starts[f] + Cardinality(DeadClaimed(f)) + (IF ToCome(f) THEN 1 ELSE 0)
      <= eras[f] + excuses[f]

\* Committed claims with the run of ai_task f still to come.
Waiting(f) == {t \in Tick : claim[t] = "after" /\ task[t][f] = "queued"}

AiPaid == \A f \in AiTask : starts[f] + Cardinality(Waiting(f)) <= Consumed(f)

Structure == TypeOK /\ Places /\ Locks /\ Turns

IInv == Structure /\ Past /\ NoDueLost /\ RunsPaid /\ AiPaid

-----------------------------------------------------------------------------
(* The structure is kept, action by action.                               *)

\* Every action of the scheduler keeps the state well typed.
LEMMA TypeStep ==
  ASSUME Structure, [Next]_vars PROVE TypeOK'
<1>1. ASSUME NEW t \in Tick, Poll(t) PROVE TypeOK'
  BY <1>1, ConstantsAssumption DEF Poll, Ready, rowVars, claimVars, history,
     Structure, TypeOK, Places, Place, Cron, NoTasks
<1>2. ASSUME NEW t \in Tick, Commit(t) PROVE TypeOK'
  BY <1>2, ConstantsAssumption DEF Commit, Committed, Queued, AllSettled,
     Unlocked, rowVars, claimVars, history, Structure, TypeOK, Places, Place,
     Cron, NoTasks
<1>3. ASSUME NEW t \in Tick, EndDead(t) PROVE TypeOK'
  BY <1>3, ConstantsAssumption DEF EndDead, AllSettled, NoTasks, rowVars,
     claimVars, history, Structure, TypeOK, Places, Place, Cron
<1>4. ASSUME NEW t \in Tick, NEW f \in Flow, Execute(t, f) PROVE TypeOK'
  BY <1>4, ConstantsAssumption DEF Execute, Go, rowVars, claimVars, history,
     Structure, TypeOK, Places, Place, Cron, NoTasks
<1>5. ASSUME NEW t \in Tick, NEW f \in Flow, Finish(t, f) PROVE TypeOK'
  BY <1>5, ConstantsAssumption DEF Finish, Go, rowVars, claimVars, history,
     Structure, TypeOK, Places, Place, Cron, NoTasks
<1>6. ASSUME NEW t \in Tick, NEW f \in Flow, BeginAdvance(t, f) PROVE TypeOK'
  <2>1. turn' \in [Process -> (Tick \X Flow) \union {None}]
    BY <1>6, ConstantsAssumption DEF BeginAdvance, TurnGiven, Structure, TypeOK
  <2>2. setting' \in [Tick -> {Firm[h] : h \in Flow} \union {None}]
    BY <1>6, ConstantsAssumption DEF BeginAdvance, claimVars, Structure, TypeOK
  <2>3. task' \in [Tick -> [Flow -> Place]]
    BY <1>6 DEF BeginAdvance, Go, Place, Structure, TypeOK
  <2>4. staged' \in [Tick -> SUBSET Flow]
    BY <1>6 DEF BeginAdvance, claimVars, Structure, TypeOK
  <2>5. excuses' \in [Flow -> Nat] /\ faults' \in Nat
    BY <1>6 DEF BeginAdvance, history, Excuse, Fails, Structure, TypeOK
  <2> QED BY <1>6, <2>1, <2>2, <2>3, <2>4, <2>5
          DEF BeginAdvance, rowVars, claimVars, history, Structure, TypeOK
<1>7. ASSUME NEW t \in Tick, NEW f \in Flow, Update(t, f) PROVE TypeOK'
  <2>1. turn' \in [Process -> (Tick \X Flow) \union {None}]
    BY <1>7, ConstantsAssumption DEF Update, TurnGiven, Structure, TypeOK
  <2>2. setting' \in [Tick -> {Firm[h] : h \in Flow} \union {None}]
    BY <1>7, ConstantsAssumption DEF Update, claimVars, Structure, TypeOK
  <2>3. task' \in [Tick -> [Flow -> Place]]
    BY <1>7 DEF Update, Go, Place, Structure, TypeOK
  <2>4. staged' \in [Tick -> SUBSET Flow]
    BY <1>7 DEF Update, claimVars, Structure, TypeOK
  <2>5. excuses' \in [Flow -> Nat] /\ faults' \in Nat
    BY <1>7 DEF Update, history, Excuse, Fails, Structure, TypeOK
  <2> QED BY <1>7, <2>1, <2>2, <2>3, <2>4, <2>5
          DEF Update, rowVars, claimVars, history, Structure, TypeOK
<1>8. ASSUME NEW t \in Tick, NEW f \in Flow, AdvanceLost(t, f) PROVE TypeOK'
  BY <1>8, ConstantsAssumption DEF AdvanceLost, Go, CanAdvance, TurnGiven,
     rowVars, claimVars, history, Structure, TypeOK, Places, Place, Cron,
     NoTasks
<1>9. ASSUME NEW t \in Tick, NEW f \in Flow, RunAiTask(t, f) PROVE TypeOK'
  BY <1>9, ConstantsAssumption DEF RunAiTask, Go, rowVars, claimVars,
     history, Structure, TypeOK, Places, Place, Cron, NoTasks
<1>10. ASSUME NEW t \in Tick, NEW f \in Flow, AiTaskEnds(t, f) PROVE TypeOK'
  BY <1>10, ConstantsAssumption DEF AiTaskEnds, Go, Mine, rowVars, claimVars,
     history, Structure, TypeOK, Places, Place, Cron, NoTasks
<1>11. ASSUME NEW f \in Flow, ComesDue(f) PROVE TypeOK'
  BY <1>11, ConstantsAssumption DEF ComesDue, rowVars, claimVars, history,
     Structure, TypeOK, Places, Place, Cron, NoTasks
<1>12. ASSUME NEW p \in Process, Restart(p) PROVE TypeOK'
  BY <1>12, ConstantsAssumption DEF Restart, rowVars, claimVars, history,
     Structure, TypeOK, Places, Place, Cron, NoTasks
<1>13. CASE CloseAbandoned
  BY <1>13, ConstantsAssumption DEF CloseAbandoned, rowVars, claimVars,
     history, Structure, TypeOK, Places, Place, Cron, NoTasks
<1>14. ASSUME NEW t \in Tick, NEW f \in Flow, ExecuteFails(t, f) PROVE
   TypeOK'
  BY <1>14, ConstantsAssumption DEF ExecuteFails, Go, Fails, rowVars,
     claimVars, history, Structure, TypeOK, Places, Place, Cron, NoTasks
<1>15. ASSUME NEW t \in Tick, NEW f \in Flow, FinishUnrecorded(t, f) PROVE
   TypeOK'
  BY <1>15, ConstantsAssumption DEF FinishUnrecorded, Go, Fails, rowVars,
     claimVars, history, Structure, TypeOK, Places, Place, Cron, NoTasks
<1>16. ASSUME NEW t \in Tick, NEW f \in Flow, UpdateRefused(t, f) PROVE
   TypeOK'
  <2>1. turn' \in [Process -> (Tick \X Flow) \union {None}]
    BY <1>16, ConstantsAssumption DEF UpdateRefused, TurnGiven, Structure, TypeOK
  <2>2. setting' \in [Tick -> {Firm[h] : h \in Flow} \union {None}]
    BY <1>16, ConstantsAssumption DEF UpdateRefused, claimVars, Structure, TypeOK
  <2>3. task' \in [Tick -> [Flow -> Place]]
    BY <1>16 DEF UpdateRefused, Go, Place, Structure, TypeOK
  <2>4. staged' \in [Tick -> SUBSET Flow]
    BY <1>16 DEF UpdateRefused, claimVars, Structure, TypeOK
  <2>5. excuses' \in [Flow -> Nat] /\ faults' \in Nat
    BY <1>16 DEF UpdateRefused, history, Excuse, Fails, Structure, TypeOK
  <2> QED BY <1>16, <2>1, <2>2, <2>3, <2>4, <2>5
          DEF UpdateRefused, rowVars, claimVars, history, Structure, TypeOK
<1>17. ASSUME NEW t \in Tick, ClaimDies(t) PROVE TypeOK'
  BY <1>17, ConstantsAssumption DEF ClaimDies, Fails, Excuse, Unlocked, Mine,
     rowVars, claimVars, history, Structure, TypeOK, Places, Place, Cron,
     NoTasks
<1>18. ASSUME NEW t \in Tick, CommitAnswerLost(t) PROVE TypeOK'
  BY <1>18, ConstantsAssumption DEF CommitAnswerLost, Committed, Fails,
     NoTasks, AllSettled, Unlocked, rowVars, claimVars, history, Structure,
     TypeOK, Places, Place, Cron
<1>19. ASSUME NEW p \in Process, Crash(p) PROVE TypeOK'
  BY <1>19, ConstantsAssumption DEF Crash, Fails, Excuse, TicksOf, RunningAt,
     NoTasks, Mine, rowVars, claimVars, history, Structure, TypeOK, Places,
     Place, Cron
<1>20. CASE UNCHANGED vars
  BY <1>20 DEF vars, Structure, TypeOK, Places, Place, Cron, NoTasks
<1> QED
  BY <1>1, <1>2, <1>3, <1>4, <1>5, <1>6, <1>7, <1>8, <1>9, <1>10, <1>11,
     <1>12, <1>13, <1>14, <1>15, <1>16, <1>17, <1>18, <1>19, <1>20 DEF Next,
     TickStep, TaskStep, Fault

\* A flow's place in a tick stays one its claim allows.
LEMMA PlacesStep ==
  ASSUME Structure, [Next]_vars PROVE Places'
<1>1. ASSUME NEW t \in Tick, Poll(t) PROVE Places'
  BY <1>1, ConstantsAssumption DEF Poll, Ready, rowVars, claimVars, history,
     Structure, TypeOK, Places, Locks, Place, Cron, NoTasks
<1>2. ASSUME NEW t \in Tick, Commit(t) PROVE Places'
  BY <1>2, ConstantsAssumption DEF Commit, Committed, Queued, AllSettled,
     Unlocked, rowVars, claimVars, history, Structure, TypeOK, Places, Locks,
     Place, Cron, NoTasks
<1>3. ASSUME NEW t \in Tick, EndDead(t) PROVE Places'
  BY <1>3, ConstantsAssumption DEF EndDead, AllSettled, NoTasks, rowVars,
     claimVars, history, Structure, TypeOK, Places, Locks, Place, Cron
<1>4. ASSUME NEW t \in Tick, NEW f \in Flow, Execute(t, f) PROVE Places'
  BY <1>4, ConstantsAssumption DEF Execute, Go, rowVars, claimVars, history,
     Structure, TypeOK, Places, Locks, Place, Cron, NoTasks
<1>5. ASSUME NEW t \in Tick, NEW f \in Flow, Finish(t, f) PROVE Places'
  BY <1>5, ConstantsAssumption DEF Finish, Go, rowVars, claimVars, history,
     Structure, TypeOK, Places, Locks, Place, Cron, NoTasks
<1>6. ASSUME NEW t \in Tick, NEW f \in Flow, BeginAdvance(t, f) PROVE Places'
  BY <1>6, ConstantsAssumption DEF BeginAdvance, Go, CanAdvance, rowVars,
     claimVars, history, Structure, TypeOK, Places, Locks, Place, Cron,
     NoTasks
<1>7. ASSUME NEW t \in Tick, NEW f \in Flow, Update(t, f) PROVE Places'
  BY <1>7, ConstantsAssumption DEF Update, Go, TurnGiven, rowVars, claimVars,
     history, Structure, TypeOK, Places, Locks, Place, Cron, NoTasks
<1>8. ASSUME NEW t \in Tick, NEW f \in Flow, AdvanceLost(t, f) PROVE Places'
  BY <1>8, ConstantsAssumption DEF AdvanceLost, Go, CanAdvance, TurnGiven,
     rowVars, claimVars, history, Structure, TypeOK, Places, Locks, Place,
     Cron, NoTasks
<1>9. ASSUME NEW t \in Tick, NEW f \in Flow, RunAiTask(t, f) PROVE Places'
  BY <1>9, ConstantsAssumption DEF RunAiTask, Go, rowVars, claimVars,
     history, Structure, TypeOK, Places, Locks, Place, Cron, NoTasks
<1>10. ASSUME NEW t \in Tick, NEW f \in Flow, AiTaskEnds(t, f) PROVE Places'
  BY <1>10, ConstantsAssumption DEF AiTaskEnds, Go, Mine, rowVars, claimVars,
     history, Structure, TypeOK, Places, Locks, Place, Cron, NoTasks
<1>11. ASSUME NEW f \in Flow, ComesDue(f) PROVE Places'
  BY <1>11, ConstantsAssumption DEF ComesDue, rowVars, claimVars, history,
     Structure, TypeOK, Places, Locks, Place, Cron, NoTasks
<1>12. ASSUME NEW p \in Process, Restart(p) PROVE Places'
  BY <1>12, ConstantsAssumption DEF Restart, rowVars, claimVars, history,
     Structure, TypeOK, Places, Locks, Place, Cron, NoTasks
<1>13. CASE CloseAbandoned
  BY <1>13, ConstantsAssumption DEF CloseAbandoned, rowVars, claimVars,
     history, Structure, TypeOK, Places, Locks, Place, Cron, NoTasks
<1>14. ASSUME NEW t \in Tick, NEW f \in Flow, ExecuteFails(t, f) PROVE
   Places'
  BY <1>14, ConstantsAssumption DEF ExecuteFails, Go, Fails, rowVars,
     claimVars, history, Structure, TypeOK, Places, Locks, Place, Cron,
     NoTasks
<1>15. ASSUME NEW t \in Tick, NEW f \in Flow, FinishUnrecorded(t, f) PROVE
   Places'
  BY <1>15, ConstantsAssumption DEF FinishUnrecorded, Go, Fails, rowVars,
     claimVars, history, Structure, TypeOK, Places, Locks, Place, Cron,
     NoTasks
<1>16. ASSUME NEW t \in Tick, NEW f \in Flow, UpdateRefused(t, f) PROVE
   Places'
  BY <1>16, ConstantsAssumption DEF UpdateRefused, Go, Fails, Excuse,
     TurnGiven, rowVars, claimVars, history, Structure, TypeOK, Places,
     Locks, Place, Cron, NoTasks
<1>17. ASSUME NEW t \in Tick, ClaimDies(t) PROVE Places'
  BY <1>17, ConstantsAssumption DEF ClaimDies, Fails, Excuse, Unlocked, Mine,
     rowVars, claimVars, history, Structure, TypeOK, Places, Locks, Place,
     Cron, NoTasks
<1>18. ASSUME NEW t \in Tick, CommitAnswerLost(t) PROVE Places'
  BY <1>18, ConstantsAssumption DEF CommitAnswerLost, Committed, Fails,
     NoTasks, AllSettled, Unlocked, rowVars, claimVars, history, Structure,
     TypeOK, Places, Locks, Place, Cron
<1>19. ASSUME NEW p \in Process, Crash(p) PROVE Places'
  BY <1>19, ConstantsAssumption DEF Crash, Fails, Excuse, TicksOf, RunningAt,
     NoTasks, Mine, rowVars, claimVars, history, Structure, TypeOK, Places,
     Locks, Place, Cron
<1>20. CASE UNCHANGED vars
  BY <1>20 DEF vars, Structure, TypeOK, Places, Locks, Place, Cron, NoTasks
<1> QED
  BY <1>1, <1>2, <1>3, <1>4, <1>5, <1>6, <1>7, <1>8, <1>9, <1>10, <1>11,
     <1>12, <1>13, <1>14, <1>15, <1>16, <1>17, <1>18, <1>19, <1>20 DEF Next,
     TickStep, TaskStep, Fault

\* SKIP LOCKED, COMMIT and a backend's end keep locks and claims together.
LEMMA LocksStep ==
  ASSUME Structure, [Next]_vars PROVE Locks'
<1>1. ASSUME NEW t \in Tick, Poll(t) PROVE Locks'
  BY <1>1, ConstantsAssumption DEF Poll, Ready, rowVars, claimVars, history,
     Structure, TypeOK, Places, Locks, Place, Cron, NoTasks
<1>2. ASSUME NEW t \in Tick, Commit(t) PROVE Locks'
  BY <1>2, ConstantsAssumption DEF Commit, Committed, Queued, AllSettled,
     Unlocked, rowVars, claimVars, history, Structure, TypeOK, Places, Locks,
     Place, Cron, NoTasks
<1>3. ASSUME NEW t \in Tick, EndDead(t) PROVE Locks'
  BY <1>3, ConstantsAssumption DEF EndDead, AllSettled, NoTasks, rowVars,
     claimVars, history, Structure, TypeOK, Places, Locks, Place, Cron
<1>4. ASSUME NEW t \in Tick, NEW f \in Flow, Execute(t, f) PROVE Locks'
  BY <1>4, ConstantsAssumption DEF Execute, Go, rowVars, claimVars, history,
     Structure, TypeOK, Places, Locks, Place, Cron, NoTasks
<1>5. ASSUME NEW t \in Tick, NEW f \in Flow, Finish(t, f) PROVE Locks'
  BY <1>5, ConstantsAssumption DEF Finish, Go, rowVars, claimVars, history,
     Structure, TypeOK, Places, Locks, Place, Cron, NoTasks
<1>6. ASSUME NEW t \in Tick, NEW f \in Flow, BeginAdvance(t, f) PROVE Locks'
  BY <1>6, ConstantsAssumption DEF BeginAdvance, Go, CanAdvance, rowVars,
     claimVars, history, Structure, TypeOK, Places, Locks, Place, Cron,
     NoTasks
<1>7. ASSUME NEW t \in Tick, NEW f \in Flow, Update(t, f) PROVE Locks'
  BY <1>7, ConstantsAssumption DEF Update, Go, TurnGiven, rowVars, claimVars,
     history, Structure, TypeOK, Places, Locks, Place, Cron, NoTasks
<1>8. ASSUME NEW t \in Tick, NEW f \in Flow, AdvanceLost(t, f) PROVE Locks'
  BY <1>8, ConstantsAssumption DEF AdvanceLost, Go, CanAdvance, TurnGiven,
     rowVars, claimVars, history, Structure, TypeOK, Places, Locks, Place,
     Cron, NoTasks
<1>9. ASSUME NEW t \in Tick, NEW f \in Flow, RunAiTask(t, f) PROVE Locks'
  BY <1>9, ConstantsAssumption DEF RunAiTask, Go, rowVars, claimVars,
     history, Structure, TypeOK, Places, Locks, Place, Cron, NoTasks
<1>10. ASSUME NEW t \in Tick, NEW f \in Flow, AiTaskEnds(t, f) PROVE Locks'
  BY <1>10, ConstantsAssumption DEF AiTaskEnds, Go, Mine, rowVars, claimVars,
     history, Structure, TypeOK, Places, Locks, Place, Cron, NoTasks
<1>11. ASSUME NEW f \in Flow, ComesDue(f) PROVE Locks'
  BY <1>11, ConstantsAssumption DEF ComesDue, rowVars, claimVars, history,
     Structure, TypeOK, Places, Locks, Place, Cron, NoTasks
<1>12. ASSUME NEW p \in Process, Restart(p) PROVE Locks'
  BY <1>12, ConstantsAssumption DEF Restart, rowVars, claimVars, history,
     Structure, TypeOK, Places, Locks, Place, Cron, NoTasks
<1>13. CASE CloseAbandoned
  BY <1>13, ConstantsAssumption DEF CloseAbandoned, rowVars, claimVars,
     history, Structure, TypeOK, Places, Locks, Place, Cron, NoTasks
<1>14. ASSUME NEW t \in Tick, NEW f \in Flow, ExecuteFails(t, f) PROVE Locks'
  BY <1>14, ConstantsAssumption DEF ExecuteFails, Go, Fails, rowVars,
     claimVars, history, Structure, TypeOK, Places, Locks, Place, Cron,
     NoTasks
<1>15. ASSUME NEW t \in Tick, NEW f \in Flow, FinishUnrecorded(t, f) PROVE
   Locks'
  BY <1>15, ConstantsAssumption DEF FinishUnrecorded, Go, Fails, rowVars,
     claimVars, history, Structure, TypeOK, Places, Locks, Place, Cron,
     NoTasks
<1>16. ASSUME NEW t \in Tick, NEW f \in Flow, UpdateRefused(t, f) PROVE
   Locks'
  BY <1>16, ConstantsAssumption DEF UpdateRefused, Go, Fails, Excuse,
     TurnGiven, rowVars, claimVars, history, Structure, TypeOK, Places,
     Locks, Place, Cron, NoTasks
<1>17. ASSUME NEW t \in Tick, ClaimDies(t) PROVE Locks'
  BY <1>17, ConstantsAssumption DEF ClaimDies, Fails, Excuse, Unlocked, Mine,
     rowVars, claimVars, history, Structure, TypeOK, Places, Locks, Place,
     Cron, NoTasks
<1>18. ASSUME NEW t \in Tick, CommitAnswerLost(t) PROVE Locks'
  <2>1. \A u \in Tick, f \in Flow :
          lock'[f] = u <=> claim'[u] = "open" /\ task'[u][f] # "none"
    BY <1>18, ConstantsAssumption
    DEF CommitAnswerLost, Committed, NoTasks, Unlocked, Structure, TypeOK, Locks
  <2>2. \A f \in Flow : lock'[f] # None => due'[f] /\ active'[f]
    BY <1>18, ConstantsAssumption
    DEF CommitAnswerLost, Committed, Unlocked, Structure, TypeOK, Places, Locks
  <2>3. \A f \in Flow : due'[f] \/ active'[f]
    BY <1>18, ConstantsAssumption
    DEF CommitAnswerLost, Committed, Structure, TypeOK, Places, Locks
  <2> QED BY <2>1, <2>2, <2>3 DEF Locks
<1>19. ASSUME NEW p \in Process, Crash(p) PROVE Locks'
  BY <1>19, ConstantsAssumption DEF Crash, Fails, Excuse, TicksOf, RunningAt,
     NoTasks, Mine, rowVars, claimVars, history, Structure, TypeOK, Places,
     Locks, Place, Cron
<1>20. CASE UNCHANGED vars
  BY <1>20 DEF vars, Structure, TypeOK, Places, Locks, Place, Cron, NoTasks
<1> QED
  BY <1>1, <1>2, <1>3, <1>4, <1>5, <1>6, <1>7, <1>8, <1>9, <1>10, <1>11,
     <1>12, <1>13, <1>14, <1>15, <1>16, <1>17, <1>18, <1>19, <1>20 DEF Next,
     TickStep, TaskStep, Fault

\* _writeTurn keeps the setting of the advance whose turn it is.
LEMMA TurnsStep ==
  ASSUME Structure, [Next]_vars PROVE Turns'
<1>1. ASSUME NEW t \in Tick, Poll(t) PROVE Turns'
  BY <1>1, ConstantsAssumption DEF Poll, Ready, rowVars, claimVars, history,
     Structure, TypeOK, Places, Turns, Place, Cron, NoTasks
<1>2. ASSUME NEW t \in Tick, Commit(t) PROVE Turns'
  BY <1>2, ConstantsAssumption DEF Commit, Committed, Queued, AllSettled,
     Unlocked, rowVars, claimVars, history, Structure, TypeOK, Places, Turns,
     Place, Cron, NoTasks
<1>3. ASSUME NEW t \in Tick, EndDead(t) PROVE Turns'
  BY <1>3, ConstantsAssumption DEF EndDead, AllSettled, NoTasks, rowVars,
     claimVars, history, Structure, TypeOK, Places, Turns, Place, Cron
<1>4. ASSUME NEW t \in Tick, NEW f \in Flow, Execute(t, f) PROVE Turns'
  BY <1>4, ConstantsAssumption DEF Execute, Go, rowVars, claimVars, history,
     Structure, TypeOK, Places, Turns, Place, Cron, NoTasks
<1>5. ASSUME NEW t \in Tick, NEW f \in Flow, Finish(t, f) PROVE Turns'
  <2> SUFFICES ASSUME NEW u \in Tick, NEW g \in Flow, task'[u][g] = "advancing"
               PROVE  turn'[Home[u]] = <<u, g>> /\ setting'[u] = Firm[g]
    BY DEF Turns
  <2>1. Home[u] \in Process /\ Home[t] \in Process BY ConstantsAssumption
  <2>2. (u = t /\ g = f) \/ task[u][g] = "advancing"
    BY <1>5 DEF Finish, Go, Structure, TypeOK
  <2>3. task[u][g] = "advancing"
    BY <1>5, <2>2 DEF Finish, Go, Structure, TypeOK
  <2> QED BY <1>5, <2>3 DEF Finish, claimVars, Structure, Turns
<1>6. ASSUME NEW t \in Tick, NEW f \in Flow, BeginAdvance(t, f) PROVE Turns'
  <2> SUFFICES ASSUME NEW u \in Tick, NEW g \in Flow, task'[u][g] = "advancing"
               PROVE  turn'[Home[u]] = <<u, g>> /\ setting'[u] = Firm[g]
    BY DEF Turns
  <2>1. Home[u] \in Process /\ Home[t] \in Process BY ConstantsAssumption
  <2>2. (u = t /\ g = f) \/ task[u][g] = "advancing"
    BY <1>6 DEF BeginAdvance, Go, Structure, TypeOK
  <2>3. CASE u = t /\ g = f
    BY <1>6, <2>1, <2>3 DEF BeginAdvance, Structure, TypeOK
  <2>4. CASE task[u][g] = "advancing"
    <3>1. turn[Home[u]] = <<u, g>> /\ setting[u] = Firm[g] /\ turn[Home[t]] = None
      BY <1>6, <2>4 DEF BeginAdvance, Structure, Turns
    <3>2. <<u, g>> \in Tick \X Flow OBVIOUS
    <3>3. Home[u] # Home[t] BY <3>1, <3>2, ConstantsAssumption
    <3> QED BY <1>6, <2>1, <3>1, <3>3 DEF BeginAdvance, Structure, TypeOK
  <2> QED BY <2>2, <2>3, <2>4
<1>7. ASSUME NEW t \in Tick, NEW f \in Flow, Update(t, f) PROVE Turns'
  <2> SUFFICES ASSUME NEW u \in Tick, NEW g \in Flow, task'[u][g] = "advancing"
               PROVE  turn'[Home[u]] = <<u, g>> /\ setting'[u] = Firm[g]
    BY DEF Turns
  <2>1. Home[u] \in Process /\ Home[t] \in Process BY ConstantsAssumption
  <2>2. (u = t /\ g = f) \/ task[u][g] = "advancing"
    BY <1>7 DEF Update, Go, Structure, TypeOK
  <2>3. task[u][g] = "advancing" /\ ~(u = t /\ g = f)
    BY <1>7, <2>2 DEF Update, Go, Structure, TypeOK
  <2>4. turn[Home[u]] = <<u, g>> /\ setting[u] = Firm[g]
    BY <2>3 DEF Structure, Turns
  <2>5. <<u, g>> # <<t, f>> BY <2>3
  <2> QED BY <1>7, <2>1, <2>4, <2>5 DEF Update, TurnGiven, Structure, TypeOK
<1>8. ASSUME NEW t \in Tick, NEW f \in Flow, AdvanceLost(t, f) PROVE Turns'
  BY <1>8, ConstantsAssumption DEF AdvanceLost, Go, CanAdvance, TurnGiven,
     rowVars, claimVars, history, Structure, TypeOK, Places, Turns, Place,
     Cron, NoTasks
<1>9. ASSUME NEW t \in Tick, NEW f \in Flow, RunAiTask(t, f) PROVE Turns'
  BY <1>9, ConstantsAssumption DEF RunAiTask, Go, rowVars, claimVars,
     history, Structure, TypeOK, Places, Turns, Place, Cron, NoTasks
<1>10. ASSUME NEW t \in Tick, NEW f \in Flow, AiTaskEnds(t, f) PROVE Turns'
  <2> SUFFICES ASSUME NEW u \in Tick, NEW g \in Flow, task'[u][g] = "advancing"
               PROVE  turn'[Home[u]] = <<u, g>> /\ setting'[u] = Firm[g]
    BY DEF Turns
  <2>1. Home[u] \in Process /\ Home[t] \in Process BY ConstantsAssumption
  <2>2. (u = t /\ g = f) \/ task[u][g] = "advancing"
    BY <1>10 DEF AiTaskEnds, Go, Structure, TypeOK
  <2>3. task[u][g] = "advancing"
    BY <1>10, <2>2 DEF AiTaskEnds, Go, Structure, TypeOK
  <2> QED BY <1>10, <2>3 DEF AiTaskEnds, claimVars, Structure, Turns
<1>11. ASSUME NEW f \in Flow, ComesDue(f) PROVE Turns'
  BY <1>11, ConstantsAssumption DEF ComesDue, rowVars, claimVars, history,
     Structure, TypeOK, Places, Turns, Place, Cron, NoTasks
<1>12. ASSUME NEW p \in Process, Restart(p) PROVE Turns'
  BY <1>12, ConstantsAssumption DEF Restart, rowVars, claimVars, history,
     Structure, TypeOK, Places, Turns, Place, Cron, NoTasks
<1>13. CASE CloseAbandoned
  BY <1>13, ConstantsAssumption DEF CloseAbandoned, rowVars, claimVars,
     history, Structure, TypeOK, Places, Turns, Place, Cron, NoTasks
<1>14. ASSUME NEW t \in Tick, NEW f \in Flow, ExecuteFails(t, f) PROVE Turns'
  BY <1>14, ConstantsAssumption DEF ExecuteFails, Go, Fails, rowVars,
     claimVars, history, Structure, TypeOK, Places, Turns, Place, Cron,
     NoTasks
<1>15. ASSUME NEW t \in Tick, NEW f \in Flow, FinishUnrecorded(t, f) PROVE
   Turns'
  BY <1>15, ConstantsAssumption DEF FinishUnrecorded, Go, Fails, rowVars,
     claimVars, history, Structure, TypeOK, Places, Turns, Place, Cron,
     NoTasks
<1>16. ASSUME NEW t \in Tick, NEW f \in Flow, UpdateRefused(t, f) PROVE
   Turns'
  BY <1>16, ConstantsAssumption DEF UpdateRefused, Go, Fails, Excuse,
     TurnGiven, rowVars, claimVars, history, Structure, TypeOK, Places,
     Turns, Place, Cron, NoTasks
<1>17. ASSUME NEW t \in Tick, ClaimDies(t) PROVE Turns'
  BY <1>17, ConstantsAssumption DEF ClaimDies, Fails, Excuse, Unlocked, Mine,
     rowVars, claimVars, history, Structure, TypeOK, Places, Turns, Place,
     Cron, NoTasks
<1>18. ASSUME NEW t \in Tick, CommitAnswerLost(t) PROVE Turns'
  BY <1>18, ConstantsAssumption DEF CommitAnswerLost, Committed, Fails,
     NoTasks, AllSettled, Unlocked, rowVars, claimVars, history, Structure,
     TypeOK, Places, Turns, Place, Cron
<1>19. ASSUME NEW p \in Process, Crash(p) PROVE Turns'
  BY <1>19, ConstantsAssumption DEF Crash, Fails, Excuse, TicksOf, RunningAt,
     NoTasks, Mine, rowVars, claimVars, history, Structure, TypeOK, Places,
     Turns, Place, Cron
<1>20. CASE UNCHANGED vars
  BY <1>20 DEF vars, Structure, TypeOK, Places, Turns, Place, Cron, NoTasks
<1> QED
  BY <1>1, <1>2, <1>3, <1>4, <1>5, <1>6, <1>7, <1>8, <1>9, <1>10, <1>11,
     <1>12, <1>13, <1>14, <1>15, <1>16, <1>17, <1>18, <1>19, <1>20 DEF Next,
     TickStep, TaskStep, Fault

-----------------------------------------------------------------------------
(* Due times and runs, counted.                                           *)

\* A row moves forward only past a run that started or could not be recorded.
LEMMA PastStep ==
  ASSUME Structure, Past, NoDueLost, [Next]_vars PROVE Past' /\ NoDueLost'
<1>1. ASSUME NEW t \in Tick, Poll(t) PROVE Past' /\ NoDueLost'
  BY <1>1, ConstantsAssumption DEF Poll, Ready, rowVars, claimVars, history,
     Structure, TypeOK, Places, Locks, Past, NoDueLost, Consumed, Cron
<1>2. ASSUME NEW t \in Tick, Commit(t) PROVE Past' /\ NoDueLost'
  BY <1>2, ConstantsAssumption DEF Commit, Committed, Queued, AllSettled,
     Unlocked, rowVars, claimVars, history, Structure, TypeOK, Places, Locks,
     Past, NoDueLost, Consumed, Cron
<1>3. ASSUME NEW t \in Tick, EndDead(t) PROVE Past' /\ NoDueLost'
  BY <1>3, ConstantsAssumption DEF EndDead, AllSettled, NoTasks, rowVars,
     claimVars, history, Structure, TypeOK, Places, Locks, Past, NoDueLost,
     Consumed, Cron
<1>4. ASSUME NEW t \in Tick, NEW f \in Flow, Execute(t, f) PROVE Past' /\
   NoDueLost'
  BY <1>4, ConstantsAssumption DEF Execute, Go, rowVars, claimVars, history,
     Structure, TypeOK, Places, Locks, Past, NoDueLost, Consumed, Cron
<1>5. ASSUME NEW t \in Tick, NEW f \in Flow, Finish(t, f) PROVE Past' /\
   NoDueLost'
  BY <1>5, ConstantsAssumption DEF Finish, Go, rowVars, claimVars, history,
     Structure, TypeOK, Places, Locks, Past, NoDueLost, Consumed, Cron
<1>6. ASSUME NEW t \in Tick, NEW f \in Flow, BeginAdvance(t, f) PROVE Past'
   /\ NoDueLost'
  BY <1>6, ConstantsAssumption DEF BeginAdvance, Go, CanAdvance, rowVars,
     claimVars, history, Structure, TypeOK, Places, Locks, Past, NoDueLost,
     Consumed, Cron
<1>7. ASSUME NEW t \in Tick, NEW f \in Flow, Update(t, f) PROVE Past' /\
   NoDueLost'
  BY <1>7, ConstantsAssumption DEF Update, Go, TurnGiven, rowVars, claimVars,
     history, Structure, TypeOK, Places, Locks, Past, NoDueLost, Consumed,
     Cron
<1>8. ASSUME NEW t \in Tick, NEW f \in Flow, AdvanceLost(t, f) PROVE Past' /\
   NoDueLost'
  BY <1>8, ConstantsAssumption DEF AdvanceLost, Go, CanAdvance, TurnGiven,
     rowVars, claimVars, history, Structure, TypeOK, Places, Locks, Past,
     NoDueLost, Consumed, Cron
<1>9. ASSUME NEW t \in Tick, NEW f \in Flow, RunAiTask(t, f) PROVE Past' /\
   NoDueLost'
  BY <1>9, ConstantsAssumption DEF RunAiTask, Go, rowVars, claimVars,
     history, Structure, TypeOK, Places, Locks, Past, NoDueLost, Consumed,
     Cron
<1>10. ASSUME NEW t \in Tick, NEW f \in Flow, AiTaskEnds(t, f) PROVE Past' /\
   NoDueLost'
  BY <1>10, ConstantsAssumption DEF AiTaskEnds, Go, Mine, rowVars, claimVars,
     history, Structure, TypeOK, Places, Locks, Past, NoDueLost, Consumed,
     Cron
<1>11. ASSUME NEW f \in Flow, ComesDue(f) PROVE Past' /\ NoDueLost'
  <2>1. active[f] /\ lock[f] = None
    BY <1>11 DEF ComesDue, Structure, TypeOK, Locks
  <2>2. \A t \in Tick : claim[t] = "open" => task[t][f] = "none"
    BY <2>1, ConstantsAssumption DEF Structure, Locks
  <2>3. Past' BY <1>11, <2>2 DEF ComesDue, claimVars, Past, Cron, Structure, TypeOK
  <2>4. \A g \in Cron : Consumed(g)' = Consumed(g)
    BY <1>11, <2>1 DEF ComesDue, Consumed, Cron, Structure, TypeOK
  <2> QED BY <1>11, <2>3, <2>4 DEF ComesDue, NoDueLost
<1>12. ASSUME NEW p \in Process, Restart(p) PROVE Past' /\ NoDueLost'
  BY <1>12, ConstantsAssumption DEF Restart, rowVars, claimVars, history,
     Structure, TypeOK, Places, Locks, Past, NoDueLost, Consumed, Cron
<1>13. CASE CloseAbandoned
  BY <1>13, ConstantsAssumption DEF CloseAbandoned, rowVars, claimVars,
     history, Structure, TypeOK, Places, Locks, Past, NoDueLost, Consumed,
     Cron
<1>14. ASSUME NEW t \in Tick, NEW f \in Flow, ExecuteFails(t, f) PROVE Past'
   /\ NoDueLost'
  BY <1>14, ConstantsAssumption DEF ExecuteFails, Go, Fails, rowVars,
     claimVars, history, Structure, TypeOK, Places, Locks, Past, NoDueLost,
     Consumed, Cron
<1>15. ASSUME NEW t \in Tick, NEW f \in Flow, FinishUnrecorded(t, f) PROVE
   Past' /\ NoDueLost'
  BY <1>15, ConstantsAssumption DEF FinishUnrecorded, Go, Fails, rowVars,
     claimVars, history, Structure, TypeOK, Places, Locks, Past, NoDueLost,
     Consumed, Cron
<1>16. ASSUME NEW t \in Tick, NEW f \in Flow, UpdateRefused(t, f) PROVE Past'
   /\ NoDueLost'
  BY <1>16, ConstantsAssumption DEF UpdateRefused, Go, Fails, Excuse,
     TurnGiven, rowVars, claimVars, history, Structure, TypeOK, Places,
     Locks, Past, NoDueLost, Consumed, Cron
<1>17. ASSUME NEW t \in Tick, ClaimDies(t) PROVE Past' /\ NoDueLost'
  BY <1>17, ConstantsAssumption DEF ClaimDies, Fails, Excuse, Unlocked, Mine,
     rowVars, claimVars, history, Structure, TypeOK, Places, Locks, Past,
     NoDueLost, Consumed, Cron
<1>18. ASSUME NEW t \in Tick, CommitAnswerLost(t) PROVE Past' /\ NoDueLost'
  BY <1>18, ConstantsAssumption DEF CommitAnswerLost, Committed, Fails,
     NoTasks, AllSettled, Unlocked, rowVars, claimVars, history, Structure,
     TypeOK, Places, Locks, Past, NoDueLost, Consumed, Cron
<1>19. ASSUME NEW p \in Process, Crash(p) PROVE Past' /\ NoDueLost'
  BY <1>19, ConstantsAssumption DEF Crash, Fails, Excuse, TicksOf, RunningAt,
     NoTasks, Mine, rowVars, claimVars, history, Structure, TypeOK, Places,
     Locks, Past, NoDueLost, Consumed, Cron
<1>20. CASE UNCHANGED vars
  BY <1>20 DEF vars, Structure, TypeOK, Places, Locks, Past, NoDueLost,
     Consumed, Cron
<1> QED
  BY <1>1, <1>2, <1>3, <1>4, <1>5, <1>6, <1>7, <1>8, <1>9, <1>10, <1>11,
     <1>12, <1>13, <1>14, <1>15, <1>16, <1>17, <1>18, <1>19, <1>20 DEF Next,
     TickStep, TaskStep, Fault

\* Claims under way are finitely many, and fewer ones count for less.
LEMMA FewerClaims ==
  ASSUME NEW S \in SUBSET Tick, NEW T \in SUBSET S
  PROVE  /\ IsFiniteSet(S) /\ Cardinality(S) \in Nat
         /\ Cardinality(T) \in Nat /\ Cardinality(T) <= Cardinality(S)
<1>1. IsFiniteSet(S) /\ IsFiniteSet(T) BY ConstantsAssumption, FS_Subset
<1> QED BY <1>1, FS_Subset, FS_CardinalityType

\* What RunsPaid says of one flow.
Pays(g) ==
  starts[g] + Cardinality(DeadClaimed(g)) + (IF ToCome(g) THEN 1 ELSE 0)
    <= eras[g] + excuses[g]

\* No dead claim is added, nothing is started, and a run that is to come anew is
\* paid for.
PaidFor(g) ==
  /\ DeadClaimed(g)' \subseteq DeadClaimed(g)
  /\ starts'[g] = starts[g]
  /\ \/ eras'[g] + excuses'[g] = eras[g] + excuses[g] /\ (ToCome(g)' => ToCome(g))
     \/ eras'[g] + excuses'[g] > eras[g] + excuses[g]

\* The counters of a flow are numbers, before and after a step.
LEMMA Counters ==
  ASSUME TypeOK, TypeOK', NEW g \in Flow
  PROVE  /\ starts[g] \in Nat /\ eras[g] \in Nat /\ excuses[g] \in Nat
         /\ starts'[g] \in Nat /\ eras'[g] \in Nat /\ excuses'[g] \in Nat
BY DEF TypeOK

\* Then the runs of the flow stay paid for.
LEMMA PaysOn ==
  ASSUME TypeOK, TypeOK', NEW g \in Cron, Pays(g), PaidFor(g)
  PROVE  Pays(g)'
<1>1. DeadClaimed(g) \subseteq Tick BY DEF DeadClaimed
<1>2. /\ Cardinality(DeadClaimed(g)) \in Nat
      /\ Cardinality(DeadClaimed(g)') \in Nat
      /\ Cardinality(DeadClaimed(g)') <= Cardinality(DeadClaimed(g))
  BY <1>1, FewerClaims DEF PaidFor
<1>3. /\ starts[g] \in Nat /\ eras[g] \in Nat /\ excuses[g] \in Nat
      /\ starts'[g] \in Nat /\ eras'[g] \in Nat /\ excuses'[g] \in Nat
  BY Counters DEF Cron
<1> QED BY <1>2, <1>3 DEF Pays, PaidFor

\* Every run of a standard flow is paid for, whatever claims die.
LEMMA RunsStep ==
  ASSUME Structure, RunsPaid, [Next]_vars PROVE RunsPaid'
<1> SUFFICES ASSUME NEW g \in Cron PROVE Pays(g)' BY DEF RunsPaid, Pays
<1>0. Pays(g) /\ TypeOK /\ TypeOK' BY TypeStep DEF RunsPaid, Pays, Structure
<1>1. ASSUME NEW t \in Tick, Poll(t) PROVE Pays(g)'
  <2>1. DeadClaimed(g)' \subseteq DeadClaimed(g)
    BY <1>1 DEF DeadClaimed, Poll, Ready, rowVars, claimVars, history,
       Structure, TypeOK, Cron
  <2>2. starts'[g] = starts[g]
    BY <1>1 DEF Poll, history, Structure, TypeOK, Places, Cron
  <2>3. \/ eras'[g] + excuses'[g] = eras[g] + excuses[g] /\ (ToCome(g)' => ToCome(g))
        \/ eras'[g] + excuses'[g] > eras[g] + excuses[g]
    BY <1>1, ConstantsAssumption DEF ToCome, Poll, Ready, rowVars, claimVars,
       history, Structure, TypeOK, Places, Locks, Turns, Cron
  <2>4. PaidFor(g) BY <2>1, <2>2, <2>3 DEF PaidFor
  <2> QED BY <1>0, <2>4, PaysOn
<1>2. ASSUME NEW t \in Tick, Commit(t) PROVE Pays(g)'
  <2>1. DeadClaimed(g)' \subseteq DeadClaimed(g)
    BY <1>2 DEF DeadClaimed, Commit, Committed, NoTasks, Queued, Structure, TypeOK, Cron
  <2>2. /\ starts'[g] = starts[g]
        /\ eras'[g] + excuses'[g] = eras[g] + excuses[g]
    BY <1>2 DEF Commit, history
  <2>3. ASSUME ToCome(g)' PROVE ToCome(g)
    <3>1. due[g] /\ active[g] /\ (g \in staged[t] => FALSE)
      BY <1>2, <2>3 DEF ToCome, Commit, Committed, Structure, TypeOK, Cron
    <3>2. CASE lock[g] = t
      <4>1. task[t][g] = "done"
        BY <1>2, <3>2
        DEF Commit, Committed, AllSettled, Structure, TypeOK, Places, Locks, Cron
      <4> QED BY <3>1, <3>2, <4>1 DEF ToCome
    <3>3. CASE lock[g] # t
      <4>1. lock'[g] = lock[g]
        BY <1>2, <3>3 DEF Commit, Committed, Unlocked, Structure, TypeOK, Cron
      <4>2. \A u \in Tick \ {t} : task'[u] = task[u] /\ staged'[u] = staged[u]
        BY <1>2 DEF Commit, Committed, Structure, TypeOK
      <4> QED BY <2>3, <3>1, <3>3, <4>1, <4>2 DEF ToCome
    <3> QED BY <3>2, <3>3
  <2> QED BY <1>0, <2>1, <2>2, <2>3, PaysOn DEF PaidFor
<1>3. ASSUME NEW t \in Tick, EndDead(t) PROVE Pays(g)'
  <2>1. DeadClaimed(g)' \subseteq DeadClaimed(g)
    BY <1>3 DEF DeadClaimed, EndDead, AllSettled, NoTasks, rowVars, claimVars,
       history, Structure, TypeOK, Cron
  <2>2. starts'[g] = starts[g]
    BY <1>3 DEF EndDead, history, Structure, TypeOK, Places, Cron
  <2>3. \/ eras'[g] + excuses'[g] = eras[g] + excuses[g] /\ (ToCome(g)' => ToCome(g))
        \/ eras'[g] + excuses'[g] > eras[g] + excuses[g]
    BY <1>3, ConstantsAssumption DEF ToCome, EndDead, AllSettled, NoTasks,
       rowVars, claimVars, history, Structure, TypeOK, Places, Locks, Turns,
       Cron
  <2>4. PaidFor(g) BY <2>1, <2>2, <2>3 DEF PaidFor
  <2> QED BY <1>0, <2>4, PaysOn
<1>4. ASSUME NEW t \in Tick, NEW f \in Flow, Execute(t, f) PROVE Pays(g)'
  <2>1. DeadClaimed(g)' \subseteq DeadClaimed(g)
    BY <1>4 DEF DeadClaimed, Execute, Go, claimVars, Structure, TypeOK, Cron
  <2>2. eras'[g] + excuses'[g] = eras[g] + excuses[g]
    BY <1>4 DEF Execute
  <2>3. ToCome(g)' => ToCome(g)
    BY <1>4, ConstantsAssumption DEF ToCome, Execute, Go, rowVars, claimVars,
       Structure, TypeOK, Locks, Cron
  <2>4. CASE g # f
    <3>1. starts'[g] = starts[g]
      BY <1>4, <2>4 DEF Execute, Structure, TypeOK, Cron
    <3> QED BY <1>0, <2>1, <2>2, <2>3, <3>1, PaysOn DEF PaidFor
  <2>5. CASE g = f
    <3>1. starts'[g] = starts[g] + 1
      BY <1>4, <2>5 DEF Execute, Structure, TypeOK, Cron
    <3>2. DeadClaimed(g) \subseteq Tick /\ claim[t] \in {"open", "dead"}
      BY <1>4, <2>5 DEF DeadClaimed, Execute, Structure, TypeOK, Places, Cron
    <3>3. /\ IsFiniteSet(DeadClaimed(g)) /\ Cardinality(DeadClaimed(g)) \in Nat
          /\ Cardinality(DeadClaimed(g)') \in Nat
          /\ Cardinality(DeadClaimed(g)') <= Cardinality(DeadClaimed(g))
      BY <2>1, <3>2, FewerClaims
    <3>4. CASE claim[t] = "open"
      <4>1. ToCome(g) /\ ~ToCome(g)'
        BY <1>4, <2>5, <3>4, ConstantsAssumption DEF ToCome, Execute, Go, rowVars,
           claimVars, Structure, TypeOK, Locks, Cron
      <4> QED BY <1>0, <2>2, <3>1, <3>3, <4>1, Counters DEF Pays, Cron
    <3>5. CASE claim[t] = "dead"
      <4>1. t \in DeadClaimed(g) /\ DeadClaimed(g)' = DeadClaimed(g) \ {t}
        BY <1>4, <2>5, <3>5
        DEF DeadClaimed, Execute, Go, claimVars, Structure, TypeOK, Cron
      <4>2. Cardinality(DeadClaimed(g)') = Cardinality(DeadClaimed(g)) - 1
        BY <3>3, <4>1, FS_RemoveElement
      <4> QED BY <1>0, <2>2, <2>3, <3>1, <3>3, <4>2, Counters DEF Pays, Cron
    <3> QED BY <3>2, <3>4, <3>5
  <2> QED BY <2>4, <2>5
<1>5. ASSUME NEW t \in Tick, NEW f \in Flow, Finish(t, f) PROVE Pays(g)'
  <2>1. DeadClaimed(g)' \subseteq DeadClaimed(g)
    BY <1>5 DEF DeadClaimed, Finish, Go, rowVars, claimVars, history,
       Structure, TypeOK, Cron
  <2>2. starts'[g] = starts[g]
    BY <1>5 DEF Finish, history, Structure, TypeOK, Places, Cron
  <2>3. \/ eras'[g] + excuses'[g] = eras[g] + excuses[g] /\ (ToCome(g)' => ToCome(g))
        \/ eras'[g] + excuses'[g] > eras[g] + excuses[g]
    BY <1>5, ConstantsAssumption DEF ToCome, Finish, Go, rowVars, claimVars,
       history, Structure, TypeOK, Places, Locks, Turns, Cron
  <2>4. PaidFor(g) BY <2>1, <2>2, <2>3 DEF PaidFor
  <2> QED BY <1>0, <2>4, PaysOn
<1>6. ASSUME NEW t \in Tick, NEW f \in Flow, BeginAdvance(t, f) PROVE
   Pays(g)'
  <2>1. DeadClaimed(g)' \subseteq DeadClaimed(g)
    BY <1>6 DEF DeadClaimed, BeginAdvance, Go, CanAdvance, rowVars, claimVars,
       history, Structure, TypeOK, Cron
  <2>2. starts'[g] = starts[g]
    BY <1>6 DEF BeginAdvance, history, Structure, TypeOK, Places, Cron
  <2>3. \/ eras'[g] + excuses'[g] = eras[g] + excuses[g] /\ (ToCome(g)' => ToCome(g))
        \/ eras'[g] + excuses'[g] > eras[g] + excuses[g]
    BY <1>6, ConstantsAssumption DEF ToCome, BeginAdvance, Go, CanAdvance,
       rowVars, claimVars, history, Structure, TypeOK, Places, Locks, Turns,
       Cron
  <2>4. PaidFor(g) BY <2>1, <2>2, <2>3 DEF PaidFor
  <2> QED BY <1>0, <2>4, PaysOn
<1>7. ASSUME NEW t \in Tick, NEW f \in Flow, Update(t, f) PROVE Pays(g)'
  <2>1. DeadClaimed(g)' \subseteq DeadClaimed(g)
    BY <1>7 DEF DeadClaimed, Update, Go, TurnGiven, rowVars, claimVars,
       history, Structure, TypeOK, Cron
  <2>2. starts'[g] = starts[g]
    BY <1>7 DEF Update, history, Structure, TypeOK, Places, Cron
  <2>3. \/ eras'[g] + excuses'[g] = eras[g] + excuses[g] /\ (ToCome(g)' => ToCome(g))
        \/ eras'[g] + excuses'[g] > eras[g] + excuses[g]
    BY <1>7, ConstantsAssumption DEF ToCome, Update, Go, TurnGiven, rowVars,
       claimVars, history, Structure, TypeOK, Places, Locks, Turns, Cron
  <2>4. PaidFor(g) BY <2>1, <2>2, <2>3 DEF PaidFor
  <2> QED BY <1>0, <2>4, PaysOn
<1>8. ASSUME NEW t \in Tick, NEW f \in Flow, AdvanceLost(t, f) PROVE Pays(g)'
  <2>1. DeadClaimed(g)' \subseteq DeadClaimed(g)
    BY <1>8 DEF DeadClaimed, AdvanceLost, Go, CanAdvance, TurnGiven, rowVars,
       claimVars, history, Structure, TypeOK, Cron
  <2>2. starts'[g] = starts[g]
    BY <1>8 DEF AdvanceLost, history, Structure, TypeOK, Places, Cron
  <2>3. \/ eras'[g] + excuses'[g] = eras[g] + excuses[g] /\ (ToCome(g)' => ToCome(g))
        \/ eras'[g] + excuses'[g] > eras[g] + excuses[g]
    BY <1>8, ConstantsAssumption DEF ToCome, AdvanceLost, Go, CanAdvance,
       TurnGiven, rowVars, claimVars, history, Structure, TypeOK, Places,
       Locks, Turns, Cron
  <2>4. PaidFor(g) BY <2>1, <2>2, <2>3 DEF PaidFor
  <2> QED BY <1>0, <2>4, PaysOn
<1>9. ASSUME NEW t \in Tick, NEW f \in Flow, RunAiTask(t, f) PROVE Pays(g)'
  <2>1. DeadClaimed(g)' \subseteq DeadClaimed(g)
    BY <1>9 DEF DeadClaimed, RunAiTask, Go, rowVars, claimVars, history,
       Structure, TypeOK, Cron
  <2>2. starts'[g] = starts[g]
    BY <1>9 DEF RunAiTask, history, Structure, TypeOK, Places, Cron
  <2>3. \/ eras'[g] + excuses'[g] = eras[g] + excuses[g] /\ (ToCome(g)' => ToCome(g))
        \/ eras'[g] + excuses'[g] > eras[g] + excuses[g]
    BY <1>9, ConstantsAssumption DEF ToCome, RunAiTask, Go, rowVars, claimVars,
       history, Structure, TypeOK, Places, Locks, Turns, Cron
  <2>4. PaidFor(g) BY <2>1, <2>2, <2>3 DEF PaidFor
  <2> QED BY <1>0, <2>4, PaysOn
<1>10. ASSUME NEW t \in Tick, NEW f \in Flow, AiTaskEnds(t, f) PROVE Pays(g)'
  <2>1. DeadClaimed(g)' \subseteq DeadClaimed(g)
    BY <1>10 DEF DeadClaimed, AiTaskEnds, Go, Mine, rowVars, claimVars, history,
       Structure, TypeOK, Cron
  <2>2. starts'[g] = starts[g]
    BY <1>10 DEF AiTaskEnds, history, Structure, TypeOK, Places, Cron
  <2>3. \/ eras'[g] + excuses'[g] = eras[g] + excuses[g] /\ (ToCome(g)' => ToCome(g))
        \/ eras'[g] + excuses'[g] > eras[g] + excuses[g]
    BY <1>10, ConstantsAssumption DEF ToCome, AiTaskEnds, Go, Mine, rowVars,
       claimVars, history, Structure, TypeOK, Places, Locks, Turns, Cron
  <2>4. PaidFor(g) BY <2>1, <2>2, <2>3 DEF PaidFor
  <2> QED BY <1>0, <2>4, PaysOn
<1>11. ASSUME NEW f \in Flow, ComesDue(f) PROVE Pays(g)'
  <2>1. DeadClaimed(g)' \subseteq DeadClaimed(g)
    BY <1>11 DEF DeadClaimed, ComesDue, rowVars, claimVars, history, Structure,
       TypeOK, Cron
  <2>2. starts'[g] = starts[g]
    BY <1>11 DEF ComesDue, history, Structure, TypeOK, Places, Cron
  <2>3. \/ eras'[g] + excuses'[g] = eras[g] + excuses[g] /\ (ToCome(g)' => ToCome(g))
        \/ eras'[g] + excuses'[g] > eras[g] + excuses[g]
    BY <1>11, ConstantsAssumption DEF ToCome, ComesDue, rowVars, claimVars,
       history, Structure, TypeOK, Places, Locks, Turns, Cron
  <2>4. PaidFor(g) BY <2>1, <2>2, <2>3 DEF PaidFor
  <2> QED BY <1>0, <2>4, PaysOn
<1>12. ASSUME NEW p \in Process, Restart(p) PROVE Pays(g)'
  <2>1. DeadClaimed(g)' \subseteq DeadClaimed(g)
    BY <1>12 DEF DeadClaimed, Restart, rowVars, claimVars, history, Structure,
       TypeOK, Cron
  <2>2. starts'[g] = starts[g]
    BY <1>12 DEF Restart, history, Structure, TypeOK, Places, Cron
  <2>3. \/ eras'[g] + excuses'[g] = eras[g] + excuses[g] /\ (ToCome(g)' => ToCome(g))
        \/ eras'[g] + excuses'[g] > eras[g] + excuses[g]
    BY <1>12, ConstantsAssumption DEF ToCome, Restart, rowVars, claimVars,
       history, Structure, TypeOK, Places, Locks, Turns, Cron
  <2>4. PaidFor(g) BY <2>1, <2>2, <2>3 DEF PaidFor
  <2> QED BY <1>0, <2>4, PaysOn
<1>13. CASE CloseAbandoned
  <2>1. DeadClaimed(g)' \subseteq DeadClaimed(g)
    BY <1>13 DEF DeadClaimed, CloseAbandoned, rowVars, claimVars, history,
       Structure, TypeOK, Cron
  <2>2. starts'[g] = starts[g]
    BY <1>13 DEF CloseAbandoned, history, Structure, TypeOK, Places, Cron
  <2>3. \/ eras'[g] + excuses'[g] = eras[g] + excuses[g] /\ (ToCome(g)' => ToCome(g))
        \/ eras'[g] + excuses'[g] > eras[g] + excuses[g]
    BY <1>13, ConstantsAssumption DEF ToCome, CloseAbandoned, rowVars,
       claimVars, history, Structure, TypeOK, Places, Locks, Turns, Cron
  <2>4. PaidFor(g) BY <2>1, <2>2, <2>3 DEF PaidFor
  <2> QED BY <1>0, <2>4, PaysOn
<1>14. ASSUME NEW t \in Tick, NEW f \in Flow, ExecuteFails(t, f) PROVE
   Pays(g)'
  <2>1. DeadClaimed(g)' \subseteq DeadClaimed(g)
    BY <1>14 DEF DeadClaimed, ExecuteFails, Go, Fails, rowVars, claimVars,
       history, Structure, TypeOK, Cron
  <2>2. starts'[g] = starts[g]
    BY <1>14 DEF ExecuteFails, history, Structure, TypeOK, Places, Cron
  <2>3. \/ eras'[g] + excuses'[g] = eras[g] + excuses[g] /\ (ToCome(g)' => ToCome(g))
        \/ eras'[g] + excuses'[g] > eras[g] + excuses[g]
    BY <1>14, ConstantsAssumption DEF ToCome, ExecuteFails, Go, Fails, rowVars,
       claimVars, history, Structure, TypeOK, Places, Locks, Turns, Cron
  <2>4. PaidFor(g) BY <2>1, <2>2, <2>3 DEF PaidFor
  <2> QED BY <1>0, <2>4, PaysOn
<1>15. ASSUME NEW t \in Tick, NEW f \in Flow, FinishUnrecorded(t, f) PROVE
   Pays(g)'
  <2>1. DeadClaimed(g)' \subseteq DeadClaimed(g)
    BY <1>15 DEF DeadClaimed, FinishUnrecorded, Go, Fails, rowVars, claimVars,
       history, Structure, TypeOK, Cron
  <2>2. starts'[g] = starts[g]
    BY <1>15 DEF FinishUnrecorded, history, Structure, TypeOK, Places, Cron
  <2>3. \/ eras'[g] + excuses'[g] = eras[g] + excuses[g] /\ (ToCome(g)' => ToCome(g))
        \/ eras'[g] + excuses'[g] > eras[g] + excuses[g]
    BY <1>15, ConstantsAssumption DEF ToCome, FinishUnrecorded, Go, Fails,
       rowVars, claimVars, history, Structure, TypeOK, Places, Locks, Turns,
       Cron
  <2>4. PaidFor(g) BY <2>1, <2>2, <2>3 DEF PaidFor
  <2> QED BY <1>0, <2>4, PaysOn
<1>16. ASSUME NEW t \in Tick, NEW f \in Flow, UpdateRefused(t, f) PROVE
   Pays(g)'
  <2>1. DeadClaimed(g)' \subseteq DeadClaimed(g)
    BY <1>16 DEF DeadClaimed, UpdateRefused, Go, Fails, Excuse, TurnGiven,
       rowVars, claimVars, history, Structure, TypeOK, Cron
  <2>2. starts'[g] = starts[g]
    BY <1>16 DEF UpdateRefused, history, Structure, TypeOK, Places, Cron
  <2>3. \/ eras'[g] + excuses'[g] = eras[g] + excuses[g] /\ (ToCome(g)' => ToCome(g))
        \/ eras'[g] + excuses'[g] > eras[g] + excuses[g]
    BY <1>16, ConstantsAssumption DEF ToCome, UpdateRefused, Go, Fails, Excuse,
       TurnGiven, rowVars, claimVars, history, Structure, TypeOK, Places,
       Locks, Turns, Cron
  <2>4. PaidFor(g) BY <2>1, <2>2, <2>3 DEF PaidFor
  <2> QED BY <1>0, <2>4, PaysOn
<1>17. ASSUME NEW t \in Tick, ClaimDies(t) PROVE Pays(g)'
  <2>1. starts'[g] = starts[g] /\ eras'[g] = eras[g]
    BY <1>17 DEF ClaimDies
  <2>2. CASE task[t][g] = "none"
    <3>1. DeadClaimed(g)' \subseteq DeadClaimed(g)
      BY <1>17, <2>2 DEF DeadClaimed, ClaimDies, Structure, TypeOK, Cron
    <3>2. eras'[g] + excuses'[g] = eras[g] + excuses[g]
      BY <1>17, <2>2 DEF ClaimDies, Excuse, Mine, Structure, TypeOK, Cron
    <3>3. ToCome(g)' => ToCome(g)
      BY <1>17, <2>2, ConstantsAssumption
      DEF ToCome, ClaimDies, Unlocked, Structure, TypeOK, Locks, Cron
    <3> QED BY <1>0, <2>1, <3>1, <3>2, <3>3, PaysOn DEF PaidFor
  <2>3. CASE task[t][g] # "none"
    <3>1. excuses'[g] = excuses[g] + 1
      BY <1>17, <2>3 DEF ClaimDies, Excuse, Mine, Structure, TypeOK, Cron
    <3>2. CASE task[t][g] = "claimed"
      <4>1. ToCome(g)
        BY <1>17, <3>2, ConstantsAssumption
        DEF ToCome, ClaimDies, Structure, TypeOK, Locks, Cron
      <4>2. t \notin DeadClaimed(g) /\ DeadClaimed(g)' = DeadClaimed(g) \cup {t}
        BY <1>17, <3>2 DEF DeadClaimed, ClaimDies, Structure, TypeOK, Cron
      <4>3. DeadClaimed(g) \subseteq Tick BY DEF DeadClaimed
      <4>4. IsFiniteSet(DeadClaimed(g)) /\ Cardinality(DeadClaimed(g)) \in Nat
        BY <4>3, FewerClaims
      <4>5. Cardinality(DeadClaimed(g)') = Cardinality(DeadClaimed(g)) + 1
        BY <4>2, <4>4, FS_AddElement
      <4> QED BY <1>0, <2>1, <3>1, <4>1, <4>4, <4>5, Counters DEF Pays, Cron
    <3>3. CASE task[t][g] # "claimed"
      <4>1. DeadClaimed(g)' \subseteq DeadClaimed(g)
        BY <1>17, <3>3 DEF DeadClaimed, ClaimDies, Structure, TypeOK, Cron
      <4>2. eras'[g] + excuses'[g] > eras[g] + excuses[g]
        BY <1>0, <2>1, <3>1, Counters DEF Cron
      <4> QED BY <1>0, <2>1, <4>1, <4>2, PaysOn DEF PaidFor
    <3> QED BY <3>2, <3>3
  <2> QED BY <2>2, <2>3
<1>18. ASSUME NEW t \in Tick, CommitAnswerLost(t) PROVE Pays(g)'
  <2>1. DeadClaimed(g)' \subseteq DeadClaimed(g)
    BY <1>18 DEF DeadClaimed, CommitAnswerLost, Committed, NoTasks, Queued, Structure, TypeOK, Cron
  <2>2. /\ starts'[g] = starts[g]
        /\ eras'[g] + excuses'[g] = eras[g] + excuses[g]
    BY <1>18 DEF CommitAnswerLost, history
  <2>3. ASSUME ToCome(g)' PROVE ToCome(g)
    <3>1. due[g] /\ active[g] /\ (g \in staged[t] => FALSE)
      BY <1>18, <2>3 DEF ToCome, CommitAnswerLost, Committed, Structure, TypeOK, Cron
    <3>2. CASE lock[g] = t
      <4>1. task[t][g] = "done"
        BY <1>18, <3>2
        DEF CommitAnswerLost, Committed, AllSettled, Structure, TypeOK, Places, Locks, Cron
      <4> QED BY <3>1, <3>2, <4>1 DEF ToCome
    <3>3. CASE lock[g] # t
      <4>1. lock'[g] = lock[g]
        BY <1>18, <3>3 DEF CommitAnswerLost, Committed, Unlocked, Structure, TypeOK, Cron
      <4>2. \A u \in Tick \ {t} : task'[u] = task[u] /\ staged'[u] = staged[u]
        BY <1>18 DEF CommitAnswerLost, Committed, Structure, TypeOK
      <4> QED BY <2>3, <3>1, <3>3, <4>1, <4>2 DEF ToCome
    <3> QED BY <3>2, <3>3
  <2> QED BY <1>0, <2>1, <2>2, <2>3, PaysOn DEF PaidFor
<1>19. ASSUME NEW p \in Process, Crash(p) PROVE Pays(g)'
  <2>1. DeadClaimed(g)' \subseteq DeadClaimed(g)
    BY <1>19 DEF DeadClaimed, Crash, Fails, Excuse, TicksOf, RunningAt, NoTasks,
       Mine, rowVars, claimVars, history, Structure, TypeOK, Cron
  <2>2. starts'[g] = starts[g]
    BY <1>19 DEF Crash, history, Structure, TypeOK, Places, Cron
  <2>3. \/ eras'[g] + excuses'[g] = eras[g] + excuses[g] /\ (ToCome(g)' => ToCome(g))
        \/ eras'[g] + excuses'[g] > eras[g] + excuses[g]
    BY <1>19, ConstantsAssumption DEF ToCome, Crash, Fails, Excuse, TicksOf,
       RunningAt, NoTasks, Mine, rowVars, claimVars, history, Structure,
       TypeOK, Places, Locks, Turns, Cron
  <2>4. PaidFor(g) BY <2>1, <2>2, <2>3 DEF PaidFor
  <2> QED BY <1>0, <2>4, PaysOn
<1>20. CASE UNCHANGED vars
  <2>1. DeadClaimed(g)' = DeadClaimed(g) /\ ToCome(g)' = ToCome(g)
    BY <1>20 DEF vars, DeadClaimed, ToCome
  <2> QED BY <1>0, <1>20, <2>1 DEF vars, Pays
<1> QED
  BY <1>1, <1>2, <1>3, <1>4, <1>5, <1>6, <1>7, <1>8, <1>9, <1>10, <1>11,
     <1>12, <1>13, <1>14, <1>15, <1>16, <1>17, <1>18, <1>19, <1>20 DEF Next,
     TickStep, TaskStep, Fault

\* What AiPaid says of one flow.
Covers(g) == starts[g] + Cardinality(Waiting(g)) <= Consumed(g)

\* Nothing is started or waits anew, and no due time is given back.
Steady(g) ==
  /\ Waiting(g)' \subseteq Waiting(g)
  /\ starts'[g] = starts[g]
  /\ Consumed(g)' >= Consumed(g)

\* Times consumed are numbers, before and after a step.
LEMMA ConsumedInt ==
  ASSUME TypeOK, TypeOK', NEW g \in Flow
  PROVE  Consumed(g) \in Int /\ Consumed(g)' \in Int
BY DEF TypeOK, Consumed

\* Then the runs of the ai_task stay covered.
LEMMA CoversOn ==
  ASSUME TypeOK, TypeOK', NEW g \in AiTask, Covers(g), Steady(g)
  PROVE  Covers(g)'
<1>1. Waiting(g) \subseteq Tick /\ g \in Flow
  BY ConstantsAssumption DEF Waiting
<1>2. /\ Cardinality(Waiting(g)) \in Nat
      /\ Cardinality(Waiting(g)') \in Nat
      /\ Cardinality(Waiting(g)') <= Cardinality(Waiting(g))
  BY <1>1, FewerClaims DEF Steady
<1>3. starts[g] \in Nat /\ starts'[g] \in Nat BY <1>1, Counters
<1>4. Consumed(g) \in Int /\ Consumed(g)' \in Int BY <1>1, ConsumedInt
<1> QED BY <1>2, <1>3, <1>4 DEF Covers, Steady

\* An ai_task waits for its run only once its due time is durably used up.
LEMMA AiStep ==
  ASSUME Structure, AiPaid, [Next]_vars PROVE AiPaid'
<1> SUFFICES ASSUME NEW g \in AiTask PROVE Covers(g)' BY DEF AiPaid, Covers
<1>0. Covers(g) /\ TypeOK /\ TypeOK' BY TypeStep DEF AiPaid, Covers, Structure
<1>1. ASSUME NEW t \in Tick, Poll(t) PROVE Covers(g)'
  <2>1. Waiting(g)' \subseteq Waiting(g)
    BY <1>1, ConstantsAssumption DEF Waiting, Poll, Ready, rowVars, claimVars,
       history, Structure, TypeOK, Places, Cron
  <2>2. starts'[g] = starts[g]
    BY <1>1, ConstantsAssumption DEF Poll, history, Structure, TypeOK, Cron
  <2>3. Consumed(g)' >= Consumed(g)
    BY <1>1, ConstantsAssumption DEF Consumed, Poll, Ready, rowVars, claimVars,
       history, Structure, TypeOK, Locks
  <2>4. Steady(g) BY <2>1, <2>2, <2>3 DEF Steady
  <2> QED BY <1>0, <2>4, CoversOn
<1>2. ASSUME NEW t \in Tick, Commit(t) PROVE Covers(g)'
  <2>1. Waiting(g) \subseteq Tick /\ g \in Flow
    BY ConstantsAssumption DEF Waiting
  <2>2. IsFiniteSet(Waiting(g)) /\ Cardinality(Waiting(g)) \in Nat
    BY <2>1, FewerClaims
  <2>3. starts'[g] = starts[g] BY <1>2 DEF Commit, history
  <2>4. CASE task[t][g] = "queued"
    <3>1. g \in staged[t] /\ lock[g] = t /\ due[g] /\ active[g]
      BY <1>2, <2>1, <2>4, ConstantsAssumption
      DEF Commit, Committed, Structure, Places, Locks
    <3>2. ~due'[g] /\ eras'[g] = eras[g]
      BY <1>2, <2>1, <3>1, ConstantsAssumption DEF Commit, Committed, history
    <3>3. Consumed(g)' = Consumed(g) + 1
      BY <1>0, <2>1, <3>1, <3>2 DEF Consumed, TypeOK
    <3>4. t \notin Waiting(g) /\ Waiting(g)' = Waiting(g) \cup {t}
      BY <1>2, <2>1, <2>4
      DEF Waiting, Commit, Committed, Queued, Structure, TypeOK
    <3>5. Cardinality(Waiting(g)') = Cardinality(Waiting(g)) + 1
      BY <2>2, <3>4, FS_AddElement
    <3> QED BY <1>0, <2>1, <2>2, <2>3, <3>3, <3>5, Counters, ConsumedInt DEF Covers
  <2>5. CASE task[t][g] # "queued"
    <3>1. Waiting(g)' \subseteq Waiting(g)
      BY <1>2, <2>1, <2>5
      DEF Waiting, Commit, Committed, Queued, Structure, TypeOK
    <3>2. Consumed(g)' >= Consumed(g)
      BY <1>2, <2>1, ConstantsAssumption
      DEF Commit, Committed, history, Consumed, Structure, TypeOK
    <3> QED BY <1>0, <2>3, <3>1, <3>2, CoversOn DEF Steady
  <2> QED BY <2>4, <2>5
<1>3. ASSUME NEW t \in Tick, EndDead(t) PROVE Covers(g)'
  <2>1. Waiting(g)' \subseteq Waiting(g)
    BY <1>3, ConstantsAssumption DEF Waiting, EndDead, AllSettled, NoTasks,
       rowVars, claimVars, history, Structure, TypeOK, Places, Cron
  <2>2. starts'[g] = starts[g]
    BY <1>3, ConstantsAssumption DEF EndDead, history, Structure, TypeOK, Cron
  <2>3. Consumed(g)' >= Consumed(g)
    BY <1>3, ConstantsAssumption DEF Consumed, EndDead, AllSettled, NoTasks,
       rowVars, claimVars, history, Structure, TypeOK, Locks
  <2>4. Steady(g) BY <2>1, <2>2, <2>3 DEF Steady
  <2> QED BY <1>0, <2>4, CoversOn
<1>4. ASSUME NEW t \in Tick, NEW f \in Flow, Execute(t, f) PROVE Covers(g)'
  <2>1. Waiting(g)' \subseteq Waiting(g)
    BY <1>4, ConstantsAssumption DEF Waiting, Execute, Go, rowVars, claimVars,
       history, Structure, TypeOK, Places, Cron
  <2>2. starts'[g] = starts[g]
    BY <1>4, ConstantsAssumption DEF Execute, history, Structure, TypeOK, Cron
  <2>3. Consumed(g)' >= Consumed(g)
    BY <1>4, ConstantsAssumption DEF Consumed, Execute, Go, rowVars, claimVars,
       history, Structure, TypeOK, Locks
  <2>4. Steady(g) BY <2>1, <2>2, <2>3 DEF Steady
  <2> QED BY <1>0, <2>4, CoversOn
<1>5. ASSUME NEW t \in Tick, NEW f \in Flow, Finish(t, f) PROVE Covers(g)'
  <2>1. Waiting(g)' \subseteq Waiting(g)
    BY <1>5, ConstantsAssumption DEF Waiting, Finish, Go, rowVars, claimVars,
       history, Structure, TypeOK, Places, Cron
  <2>2. starts'[g] = starts[g]
    BY <1>5, ConstantsAssumption DEF Finish, history, Structure, TypeOK, Cron
  <2>3. Consumed(g)' >= Consumed(g)
    BY <1>5, ConstantsAssumption DEF Consumed, Finish, Go, rowVars, claimVars,
       history, Structure, TypeOK, Locks
  <2>4. Steady(g) BY <2>1, <2>2, <2>3 DEF Steady
  <2> QED BY <1>0, <2>4, CoversOn
<1>6. ASSUME NEW t \in Tick, NEW f \in Flow, BeginAdvance(t, f) PROVE
   Covers(g)'
  <2>1. Waiting(g)' \subseteq Waiting(g)
    BY <1>6, ConstantsAssumption DEF Waiting, BeginAdvance, Go, CanAdvance,
       rowVars, claimVars, history, Structure, TypeOK, Places, Cron
  <2>2. starts'[g] = starts[g]
    BY <1>6, ConstantsAssumption DEF BeginAdvance, history, Structure, TypeOK,
       Cron
  <2>3. Consumed(g)' >= Consumed(g)
    BY <1>6, ConstantsAssumption DEF Consumed, BeginAdvance, Go, CanAdvance,
       rowVars, claimVars, history, Structure, TypeOK, Locks
  <2>4. Steady(g) BY <2>1, <2>2, <2>3 DEF Steady
  <2> QED BY <1>0, <2>4, CoversOn
<1>7. ASSUME NEW t \in Tick, NEW f \in Flow, Update(t, f) PROVE Covers(g)'
  <2>1. Waiting(g)' \subseteq Waiting(g)
    BY <1>7, ConstantsAssumption DEF Waiting, Update, Go, TurnGiven, rowVars,
       claimVars, history, Structure, TypeOK, Places, Cron
  <2>2. starts'[g] = starts[g]
    BY <1>7, ConstantsAssumption DEF Update, history, Structure, TypeOK, Cron
  <2>3. Consumed(g)' >= Consumed(g)
    BY <1>7, ConstantsAssumption DEF Consumed, Update, Go, TurnGiven, rowVars,
       claimVars, history, Structure, TypeOK, Locks
  <2>4. Steady(g) BY <2>1, <2>2, <2>3 DEF Steady
  <2> QED BY <1>0, <2>4, CoversOn
<1>8. ASSUME NEW t \in Tick, NEW f \in Flow, AdvanceLost(t, f) PROVE
   Covers(g)'
  <2>1. Waiting(g)' \subseteq Waiting(g)
    BY <1>8, ConstantsAssumption DEF Waiting, AdvanceLost, Go, CanAdvance,
       TurnGiven, rowVars, claimVars, history, Structure, TypeOK, Places,
       Cron
  <2>2. starts'[g] = starts[g]
    BY <1>8, ConstantsAssumption DEF AdvanceLost, history, Structure, TypeOK,
       Cron
  <2>3. Consumed(g)' >= Consumed(g)
    BY <1>8, ConstantsAssumption DEF Consumed, AdvanceLost, Go, CanAdvance,
       TurnGiven, rowVars, claimVars, history, Structure, TypeOK, Locks
  <2>4. Steady(g) BY <2>1, <2>2, <2>3 DEF Steady
  <2> QED BY <1>0, <2>4, CoversOn
<1>9. ASSUME NEW t \in Tick, NEW f \in Flow, RunAiTask(t, f) PROVE Covers(g)'
  <2>1. Waiting(g) \subseteq Tick /\ g \in Flow
    BY ConstantsAssumption DEF Waiting
  <2>2. IsFiniteSet(Waiting(g)) /\ Cardinality(Waiting(g)) \in Nat
    BY <2>1, FewerClaims
  <2>3. Consumed(g)' = Consumed(g)
    BY <1>9 DEF RunAiTask, rowVars, Consumed
  <2>4. CASE g = f
    <3>1. starts'[g] = starts[g] + 1
      BY <1>9, <2>1, <2>4 DEF RunAiTask, Structure, TypeOK
    <3>2. t \in Waiting(g) /\ Waiting(g)' = Waiting(g) \ {t}
      BY <1>9, <2>4 DEF Waiting, RunAiTask, Go, claimVars, Structure, TypeOK
    <3>3. Cardinality(Waiting(g)') = Cardinality(Waiting(g)) - 1
      BY <2>2, <3>2, FS_RemoveElement
    <3> QED BY <1>0, <2>1, <2>2, <2>3, <3>1, <3>3, Counters, ConsumedInt DEF Covers
  <2>5. CASE g # f
    <3>1. Waiting(g)' = Waiting(g) /\ starts'[g] = starts[g]
      BY <1>9, <2>1, <2>5 DEF Waiting, RunAiTask, Go, claimVars, Structure, TypeOK
    <3> QED BY <1>0, <2>3, <3>1 DEF Covers
  <2> QED BY <2>4, <2>5
<1>10. ASSUME NEW t \in Tick, NEW f \in Flow, AiTaskEnds(t, f) PROVE
   Covers(g)'
  <2>1. Waiting(g)' \subseteq Waiting(g)
    BY <1>10, ConstantsAssumption DEF Waiting, AiTaskEnds, Go, Mine, rowVars,
       claimVars, history, Structure, TypeOK, Places, Cron
  <2>2. starts'[g] = starts[g]
    BY <1>10, ConstantsAssumption DEF AiTaskEnds, history, Structure, TypeOK,
       Cron
  <2>3. Consumed(g)' >= Consumed(g)
    BY <1>10, ConstantsAssumption DEF Consumed, AiTaskEnds, Go, Mine, rowVars,
       claimVars, history, Structure, TypeOK, Locks
  <2>4. Steady(g) BY <2>1, <2>2, <2>3 DEF Steady
  <2> QED BY <1>0, <2>4, CoversOn
<1>11. ASSUME NEW f \in Flow, ComesDue(f) PROVE Covers(g)'
  <2>1. Waiting(g)' \subseteq Waiting(g)
    BY <1>11, ConstantsAssumption DEF Waiting, ComesDue, rowVars, claimVars,
       history, Structure, TypeOK, Places, Cron
  <2>2. starts'[g] = starts[g]
    BY <1>11, ConstantsAssumption DEF ComesDue, history, Structure, TypeOK, Cron
  <2>3. Consumed(g)' >= Consumed(g)
    BY <1>11, ConstantsAssumption DEF Consumed, ComesDue, rowVars, claimVars,
       history, Structure, TypeOK, Locks
  <2>4. Steady(g) BY <2>1, <2>2, <2>3 DEF Steady
  <2> QED BY <1>0, <2>4, CoversOn
<1>12. ASSUME NEW p \in Process, Restart(p) PROVE Covers(g)'
  <2>1. Waiting(g)' \subseteq Waiting(g)
    BY <1>12, ConstantsAssumption DEF Waiting, Restart, rowVars, claimVars,
       history, Structure, TypeOK, Places, Cron
  <2>2. starts'[g] = starts[g]
    BY <1>12, ConstantsAssumption DEF Restart, history, Structure, TypeOK, Cron
  <2>3. Consumed(g)' >= Consumed(g)
    BY <1>12, ConstantsAssumption DEF Consumed, Restart, rowVars, claimVars,
       history, Structure, TypeOK, Locks
  <2>4. Steady(g) BY <2>1, <2>2, <2>3 DEF Steady
  <2> QED BY <1>0, <2>4, CoversOn
<1>13. CASE CloseAbandoned
  <2>1. Waiting(g)' \subseteq Waiting(g)
    BY <1>13, ConstantsAssumption DEF Waiting, CloseAbandoned, rowVars,
       claimVars, history, Structure, TypeOK, Places, Cron
  <2>2. starts'[g] = starts[g]
    BY <1>13, ConstantsAssumption DEF CloseAbandoned, history, Structure,
       TypeOK, Cron
  <2>3. Consumed(g)' >= Consumed(g)
    BY <1>13, ConstantsAssumption DEF Consumed, CloseAbandoned, rowVars,
       claimVars, history, Structure, TypeOK, Locks
  <2>4. Steady(g) BY <2>1, <2>2, <2>3 DEF Steady
  <2> QED BY <1>0, <2>4, CoversOn
<1>14. ASSUME NEW t \in Tick, NEW f \in Flow, ExecuteFails(t, f) PROVE
   Covers(g)'
  <2>1. Waiting(g)' \subseteq Waiting(g)
    BY <1>14, ConstantsAssumption DEF Waiting, ExecuteFails, Go, Fails, rowVars,
       claimVars, history, Structure, TypeOK, Places, Cron
  <2>2. starts'[g] = starts[g]
    BY <1>14, ConstantsAssumption DEF ExecuteFails, history, Structure, TypeOK,
       Cron
  <2>3. Consumed(g)' >= Consumed(g)
    BY <1>14, ConstantsAssumption DEF Consumed, ExecuteFails, Go, Fails,
       rowVars, claimVars, history, Structure, TypeOK, Locks
  <2>4. Steady(g) BY <2>1, <2>2, <2>3 DEF Steady
  <2> QED BY <1>0, <2>4, CoversOn
<1>15. ASSUME NEW t \in Tick, NEW f \in Flow, FinishUnrecorded(t, f) PROVE
   Covers(g)'
  <2>1. Waiting(g)' \subseteq Waiting(g)
    BY <1>15, ConstantsAssumption DEF Waiting, FinishUnrecorded, Go, Fails,
       rowVars, claimVars, history, Structure, TypeOK, Places, Cron
  <2>2. starts'[g] = starts[g]
    BY <1>15, ConstantsAssumption DEF FinishUnrecorded, history, Structure,
       TypeOK, Cron
  <2>3. Consumed(g)' >= Consumed(g)
    BY <1>15, ConstantsAssumption DEF Consumed, FinishUnrecorded, Go, Fails,
       rowVars, claimVars, history, Structure, TypeOK, Locks
  <2>4. Steady(g) BY <2>1, <2>2, <2>3 DEF Steady
  <2> QED BY <1>0, <2>4, CoversOn
<1>16. ASSUME NEW t \in Tick, NEW f \in Flow, UpdateRefused(t, f) PROVE
   Covers(g)'
  <2>1. Waiting(g)' \subseteq Waiting(g)
    BY <1>16, ConstantsAssumption DEF Waiting, UpdateRefused, Go, Fails, Excuse,
       TurnGiven, rowVars, claimVars, history, Structure, TypeOK, Places,
       Cron
  <2>2. starts'[g] = starts[g]
    BY <1>16, ConstantsAssumption DEF UpdateRefused, history, Structure, TypeOK,
       Cron
  <2>3. Consumed(g)' >= Consumed(g)
    BY <1>16, ConstantsAssumption DEF Consumed, UpdateRefused, Go, Fails,
       Excuse, TurnGiven, rowVars, claimVars, history, Structure, TypeOK,
       Locks
  <2>4. Steady(g) BY <2>1, <2>2, <2>3 DEF Steady
  <2> QED BY <1>0, <2>4, CoversOn
<1>17. ASSUME NEW t \in Tick, ClaimDies(t) PROVE Covers(g)'
  <2>1. Waiting(g)' \subseteq Waiting(g)
    BY <1>17, ConstantsAssumption DEF Waiting, ClaimDies, Fails, Excuse,
       Unlocked, Mine, rowVars, claimVars, history, Structure, TypeOK,
       Places, Cron
  <2>2. starts'[g] = starts[g]
    BY <1>17, ConstantsAssumption DEF ClaimDies, history, Structure, TypeOK,
       Cron
  <2>3. Consumed(g)' >= Consumed(g)
    BY <1>17, ConstantsAssumption DEF Consumed, ClaimDies, Fails, Excuse,
       Unlocked, Mine, rowVars, claimVars, history, Structure, TypeOK, Locks
  <2>4. Steady(g) BY <2>1, <2>2, <2>3 DEF Steady
  <2> QED BY <1>0, <2>4, CoversOn
<1>18. ASSUME NEW t \in Tick, CommitAnswerLost(t) PROVE Covers(g)'
  <2>1. Waiting(g)' \subseteq Waiting(g)
    BY <1>18, ConstantsAssumption DEF Waiting, CommitAnswerLost, Committed,
       Fails, NoTasks, AllSettled, Unlocked, rowVars, claimVars, history,
       Structure, TypeOK, Places, Cron
  <2>2. starts'[g] = starts[g]
    BY <1>18, ConstantsAssumption DEF CommitAnswerLost, history, Structure,
       TypeOK, Cron
  <2>3. Consumed(g)' >= Consumed(g)
    BY <1>18, ConstantsAssumption DEF Consumed, CommitAnswerLost, Committed,
       Fails, NoTasks, AllSettled, Unlocked, rowVars, claimVars, history,
       Structure, TypeOK, Locks
  <2>4. Steady(g) BY <2>1, <2>2, <2>3 DEF Steady
  <2> QED BY <1>0, <2>4, CoversOn
<1>19. ASSUME NEW p \in Process, Crash(p) PROVE Covers(g)'
  <2>1. Waiting(g)' \subseteq Waiting(g)
    BY <1>19, ConstantsAssumption DEF Waiting, Crash, Fails, Excuse, TicksOf,
       RunningAt, NoTasks, Mine, rowVars, claimVars, history, Structure,
       TypeOK, Places, Cron
  <2>2. starts'[g] = starts[g]
    BY <1>19, ConstantsAssumption DEF Crash, history, Structure, TypeOK, Cron
  <2>3. Consumed(g)' >= Consumed(g)
    BY <1>19, ConstantsAssumption DEF Consumed, Crash, Fails, Excuse, TicksOf,
       RunningAt, NoTasks, Mine, rowVars, claimVars, history, Structure,
       TypeOK, Locks
  <2>4. Steady(g) BY <2>1, <2>2, <2>3 DEF Steady
  <2> QED BY <1>0, <2>4, CoversOn
<1>20. CASE UNCHANGED vars
  <2>1. Waiting(g)' = Waiting(g) /\ Consumed(g)' = Consumed(g)
    BY <1>20 DEF vars, Waiting, Consumed
  <2> QED BY <1>0, <1>20, <2>1 DEF vars, Covers
<1> QED
  BY <1>1, <1>2, <1>3, <1>4, <1>5, <1>6, <1>7, <1>8, <1>9, <1>10, <1>11,
     <1>12, <1>13, <1>14, <1>15, <1>16, <1>17, <1>18, <1>19, <1>20 DEF Next,
     TickStep, TaskStep, Fault

-----------------------------------------------------------------------------
\* _tick has not polled yet: nothing is claimed and every flow has one due time.
LEMMA InitIInv == Init => IInv
<1> SUFFICES ASSUME Init PROVE IInv OBVIOUS
<1>1. TypeOK BY ConstantsAssumption DEF Init, TypeOK, NoTasks, Place
<1>2. Places /\ Locks /\ Turns
  BY ConstantsAssumption DEF Init, NoTasks, Places, Locks, Turns, Cron
<1>3. Past /\ NoDueLost
  BY DEF Init, Past, NoDueLost, Consumed, Cron
<1>4. RunsPaid
  <2>1. \A g \in Cron : DeadClaimed(g) = {} BY DEF Init, DeadClaimed
  <2> QED BY <2>1, FS_EmptySet DEF Init, RunsPaid, Cron
<1>5. AiPaid
  <2> SUFFICES ASSUME NEW g \in AiTask
               PROVE  starts[g] + Cardinality(Waiting(g)) <= Consumed(g)
    BY DEF AiPaid
  <2>1. Waiting(g) = {} BY DEF Init, Waiting
  <2>2. Consumed(g) = 0 /\ starts[g] = 0
    BY ConstantsAssumption DEF Init, Consumed
  <2> QED BY <2>1, <2>2, FS_EmptySet
<1> QED BY <1>1, <1>2, <1>3, <1>4, <1>5 DEF IInv, Structure

\* The inductive invariant holds throughout.
THEOREM Inductive == Spec => []IInv
<1>1. Init => IInv BY InitIInv
<1>2. IInv /\ [Next]_vars => IInv'
  <2> SUFFICES ASSUME IInv, [Next]_vars PROVE IInv' OBVIOUS
  <2>1. Structure' BY TypeStep, PlacesStep, LocksStep, TurnsStep DEF IInv, Structure
  <2>2. Past' /\ NoDueLost' BY PastStep DEF IInv
  <2>3. RunsPaid' /\ AiPaid' BY RunsStep, AiStep DEF IInv
  <2> QED BY <2>1, <2>2, <2>3 DEF IInv
<1> QED BY <1>1, <1>2, PTL DEF Spec

\* The scheduler's state stays well typed for any flows, firms and replicas.
THEOREM TypeCorrect == Spec => []TypeOK
<1>1. IInv => TypeOK BY DEF IInv, Structure
<1> QED BY <1>1, Inductive, PTL

\* _tick with SKIP LOCKED: however many ticks of however many replicas overlap,
\* two are inside one standard flow only when a claim lost its backend.
THEOREM NoFlowBesideItself == Spec => []NoOverlap
<1>1. IInv => NoOverlap
  BY ConstantsAssumption DEF IInv, Structure, TypeOK, Places, Locks, NoOverlap, Cron
<1> QED BY <1>1, Inductive, PTL

\* advance in its savepoint, and the COMMIT of the claim: a standard flow never
\* runs more often than it comes due but for a failure of its own claim, replica or
\* advance, and its next run moves forward only past a run.
THEOREM OneRunForEachDueTime == Spec => []OneRunPerDue
<1>1. ASSUME IInv PROVE ExtraRunsExplained
  <2> SUFFICES ASSUME NEW g \in Cron PROVE starts[g] <= eras[g] + excuses[g]
    BY DEF ExtraRunsExplained
  <2>1. Pays(g) /\ g \in Flow BY <1>1 DEF IInv, RunsPaid, Pays, Cron
  <2>2. DeadClaimed(g) \subseteq Tick BY DEF DeadClaimed
  <2>3. Cardinality(DeadClaimed(g)) \in Nat BY <2>2, FewerClaims
  <2>4. starts[g] \in Nat /\ eras[g] \in Nat /\ excuses[g] \in Nat
    BY <1>1, <2>1 DEF IInv, Structure, TypeOK
  <2> QED BY <2>1, <2>3, <2>4 DEF Pays
<1>2. IInv => OneRunPerDue BY <1>1 DEF IInv, OneRunPerDue
<1> QED BY <1>2, Inductive, PTL

\* runAiTask after the claim: at most one run for each due time moved past.
THEOREM AiTasksRunOnce == Spec => []AiOncePerDue
<1>1. ASSUME IInv PROVE AiOncePerDue
  <2> SUFFICES ASSUME NEW g \in AiTask PROVE starts[g] <= Consumed(g)
    BY DEF AiOncePerDue
  <2>1. Covers(g) /\ g \in Flow
    BY <1>1, ConstantsAssumption DEF IInv, AiPaid, Covers
  <2>2. Waiting(g) \subseteq Tick BY DEF Waiting
  <2>3. Cardinality(Waiting(g)) \in Nat BY <2>2, FewerClaims
  <2>4. starts[g] \in Nat /\ Consumed(g) \in Int
    BY <1>1, <2>1 DEF IInv, Structure, TypeOK, Consumed
  <2> QED BY <2>1, <2>3, <2>4 DEF Covers
<1> QED BY <1>1, Inductive, PTL

=============================================================================
