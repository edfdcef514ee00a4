------------------------- MODULE RequestTransaction -------------------------
(***************************************************************************)
(* A request's tenant transaction, from the connection it takes to the     *)
(* answer its client gets: tenantMiddleware (middleware/tenant.ts) around  *)
(* withTenantIsolation (lib/tenancy/tenant-manager.ts), with the           *)
(* after-commit queue and the work that joins the transaction              *)
(* (lib/tenancy/tenant-context.ts; the joiners are enqueueFromPublicRoute, *)
(* readAsPublic and a worker service's openJoinedTxn).                     *)
(*                                                                         *)
(* The handler is any code: it sends statements, registers jobs and joins  *)
(* work, and a branch it does not await goes on doing so after it          *)
(* answered, while the transaction ends and when it is over.               *)
(***************************************************************************)
EXTENDS Integers, Sequences, FiniteSets

CONSTANTS
  Request,
  Job,      \* jobs handed to onAfterCommit
  Work,     \* work that asks to join the transaction
  JobOf,    \* JobOf[j]: the request whose code registers job j
  WorkOf,   \* WorkOf[w]: the request whose code starts work w
  PoolMax   \* connections of the pool that others leave to these requests

ASSUME ConstantsAssumption ==
  /\ JobOf \in [Job -> Request]
  /\ WorkOf \in [Work -> Request]
  /\ PoolMax \in Nat \ {0}
  /\ IsFiniteSet(Request) /\ IsFiniteSet(Job)

VARIABLES
  phase,    \* phase[r]: how far tenantMiddleware is
  aborted,  \* requests whose transaction a failed statement aborted
  threw,    \* requests whose handler threw (c.error)
  fate,     \* fate[r]: what became of what the transaction wrote
  qstate,   \* qstate[r]: AfterCommitQueue.state
  jobs,     \* jobs[r]: AfterCommitQueue.jobs, and once taken, those left to run
  jstate,   \* jstate[j]: where job j is
  wstate,   \* wstate[w]: where work w is
  landed,   \* landed[w]: where joined work's last statement landed
  answer    \* answer[r]: the response as it stands

vars == <<phase, aborted, threw, fate, qstate, jobs, jstate, wstate, landed, answer>>

\* A transaction pins its connection from BEGIN until COMMIT or ROLLBACK is done.
Pinned == {"opening", "handling", "settling", "committing", "rolling"}

InUse == Cardinality({r \in Request : phase[r] \in Pinned})
           + Cardinality({j \in Job : jstate[j] = "running"})

FreeConnection == InUse < PoolMax

Init ==
  /\ phase = [r \in Request |-> "idle"]
  /\ aborted = {} /\ threw = {}
  /\ fate = [r \in Request |-> "open"]
  /\ qstate = [r \in Request |-> "none"]
  /\ jobs = [r \in Request |-> <<>>]
  /\ jstate = [j \in Job |-> "new"]
  /\ wstate = [w \in Work |-> "new"]
  /\ landed = [w \in Work |-> "none"]
  /\ answer = [r \in Request |-> "none"]

Go(r, to) == phase' = [phase EXCEPT ![r] = to]
Say(r, what) == answer' = [answer EXCEPT ![r] = what]

\* The request takes a connection of the pool and sends BEGIN.
Begin(r) ==
  /\ phase[r] = "idle" /\ FreeConnection
  /\ Go(r, "opening")
  /\ UNCHANGED <<aborted, threw, fate, qstate, jobs, jstate, wstate, landed, answer>>

\* pool_busy: no connection within the deadline, so 503.
PoolBusy(r) ==
  /\ phase[r] = "idle" /\ ~FreeConnection
  /\ Go(r, "recording") /\ Say(r, "busy")
  /\ fate' = [fate EXCEPT ![r] = "undone"]
  /\ UNCHANGED <<aborted, threw, qstate, jobs, jstate, wstate, landed>>

\* The tenant, the reach and the role are set, the store and its queue opened.
Publish(r) ==
  /\ phase[r] = "opening"
  /\ Go(r, "handling")
  /\ qstate' = [qstate EXCEPT ![r] = "open"]
  /\ UNCHANGED <<aborted, threw, fate, jobs, jstate, wstate, landed, answer>>

\* They could not be set: rolled back, the request rejected.
PublishFails(r) ==
  /\ phase[r] = "opening"
  /\ Go(r, "rolling") /\ Say(r, "rejected")
  /\ UNCHANGED <<aborted, threw, fate, qstate, jobs, jstate, wstate, landed>>

-----------------------------------------------------------------------------
(* The code that runs for the request                                        *)

\* A statement fails and Postgres aborts the transaction.  Its error may end the
\* handler, be caught there, or reach a branch nobody awaits.
StatementFails(r) ==
  /\ phase[r] \in {"handling", "settling"} /\ r \notin aborted
  /\ aborted' = aborted \union {r}
  /\ UNCHANGED <<phase, threw, fate, qstate, jobs, jstate, wstate, landed, answer>>

\* Mutant: a job registered after the queue was taken is pushed onto it.
LateJobPushed(j) ==
  LET r == JobOf[j] IN
  /\ jstate[j] = "new" /\ qstate[r] # "none"
  /\ jobs' = [jobs EXCEPT ![r] = Append(@, j)]
  /\ jstate' = [jstate EXCEPT ![j] = "queued"]
  /\ UNCHANGED <<phase, aborted, threw, fate, qstate, wstate, landed, answer>>

\* Mutant: a job registered late runs, whatever became of the transaction.
LateJobRuns(j) ==
  LET r == JobOf[j] IN
  /\ jstate[j] = "new" /\ qstate[r] # "none"
  /\ IF qstate[r] = "open"
     THEN jobs' = [jobs EXCEPT ![r] = Append(@, j)] /\ jstate' = [jstate EXCEPT ![j] = "queued"]
     ELSE jstate' = [jstate EXCEPT ![j] = "seeking"] /\ UNCHANGED jobs
  /\ UNCHANGED <<phase, aborted, threw, fate, qstate, wstate, landed, answer>>

\* onAfterCommit: queued while the transaction is open; late, run at once when it
\* committed and dropped when it rolled back.
OnAfterCommit(j) ==
  LET r == JobOf[j] IN
  /\ jstate[j] = "new" /\ qstate[r] # "none"
  /\ jobs' = [jobs EXCEPT ![r] = IF qstate[r] = "open" THEN Append(@, j) ELSE @]
  /\ jstate' = [jstate EXCEPT ![j] = CASE qstate[r] = "open" -> "queued"
                                      [] qstate[r] = "committed" -> "seeking"
                                      [] qstate[r] = "rolled-back" -> "dropped"]
  /\ UNCHANGED <<phase, aborted, threw, fate, qstate, wstate, landed, answer>>

\* beforeRequestTransactionEnds: the transaction waits for work joined in time;
\* once it is ending there is none to join, and the work is refused.
Join(w) ==
  LET r == WorkOf[w] IN
  /\ wstate[w] = "new" /\ qstate[r] # "none"
  /\ wstate' = [wstate EXCEPT ![w] = IF phase[r] = "handling" THEN "held" ELSE "refused"]
  /\ UNCHANGED <<phase, aborted, threw, fate, qstate, jobs, jstate, landed, answer>>

\* The joined work sends a statement on the request's connection.
WorkStatement(w) ==
  /\ wstate[w] = "held"
  /\ landed' = [landed EXCEPT ![w] =
                  IF phase[WorkOf[w]] \in {"handling", "settling"} THEN "inside" ELSE "after"]
  /\ UNCHANGED <<phase, aborted, threw, fate, qstate, jobs, jstate, wstate, answer>>

\* Mutant: joined work ends with the transaction, which waits for it.
WorkEndsAfterwards(w) ==
  /\ wstate[w] = "held" /\ phase[WorkOf[w]] \notin Pinned
  /\ wstate' = [wstate EXCEPT ![w] = "over"]
  /\ UNCHANGED <<phase, aborted, threw, fate, qstate, jobs, jstate, landed, answer>>

\* The joined work is over (endRequestTxn, or its promise settles).
WorkEnds(w) ==
  /\ wstate[w] = "held"
  /\ wstate' = [wstate EXCEPT ![w] = "over"]
  /\ UNCHANGED <<phase, aborted, threw, fate, qstate, jobs, jstate, landed, answer>>

-----------------------------------------------------------------------------
(* The end of the transaction                                                *)

\* The handler answers ("ok" is its own answer, whatever its status).
HandlerReturns(r) ==
  /\ phase[r] = "handling"
  /\ Go(r, "settling") /\ Say(r, "ok")
  /\ UNCHANGED <<aborted, threw, fate, qstate, jobs, jstate, wstate, landed>>

\* The handler throws and onError answers for it.
HandlerThrows(r) ==
  /\ phase[r] = "handling"
  /\ threw' = threw \union {r}
  /\ Go(r, "settling") /\ Say(r, "error")
  /\ UNCHANGED <<aborted, fate, qstate, jobs, jstate, wstate, landed>>

\* settleRequestTransaction has waited for the joined work; c.error is rethrown.
Settled(r) ==
  /\ phase[r] = "settling"
  /\ \A w \in Work : WorkOf[w] = r => wstate[w] # "held"
  /\ Go(r, IF r \in threw THEN "rolling" ELSE "committing")
  /\ UNCHANGED <<aborted, threw, fate, qstate, jobs, jstate, wstate, landed, answer>>

\* settleAfterCommit(queue, false): what was queued is dropped.
Drop(r) ==
  /\ qstate' = [qstate EXCEPT ![r] = IF @ = "none" THEN @ ELSE "rolled-back"]
  /\ jobs' = [jobs EXCEPT ![r] = <<>>]
  /\ jstate' = [j \in Job |-> IF JobOf[j] = r /\ jstate[j] = "queued" THEN "dropped"
                              ELSE jstate[j]]

\* COMMIT answers.  Postgres answers one of an aborted transaction too, having
\* rolled it back.
CommitAnswered(r) ==
  /\ phase[r] = "committing"
  /\ Go(r, "draining")
  /\ qstate' = [qstate EXCEPT ![r] = "committed"]
  /\ fate' = [fate EXCEPT ![r] = IF r \in aborted THEN "undone" ELSE "kept"]
  /\ UNCHANGED <<aborted, threw, jobs, jstate, wstate, landed, answer>>

\* Mutant: the error of a refused COMMIT leaves the handler's answer standing.
CommitErrorUnsaid(r, refused) ==
  /\ phase[r] = "committing" /\ r \notin aborted
  /\ Go(r, "recording") /\ Drop(r)
  /\ IF refused THEN UNCHANGED answer ELSE Say(r, "uncommitted")
  /\ fate' = [fate EXCEPT ![r] = IF refused THEN "undone" ELSE "kept"]
  /\ UNCHANGED <<aborted, threw, wstate, landed>>

\* COMMIT fails: refused (a deferred constraint, a serialization failure), or
\* carried out and its answer lost.  The handler's answer is replaced.
CommitFails(r, refused) ==
  /\ phase[r] = "committing" /\ r \notin aborted
  /\ Go(r, "recording") /\ Drop(r) /\ Say(r, "uncommitted")
  /\ fate' = [fate EXCEPT ![r] = IF refused THEN "undone" ELSE "kept"]
  /\ UNCHANGED <<aborted, threw, wstate, landed>>

\* ROLLBACK is done; the answer given for the error stands.
RolledBack(r) ==
  /\ phase[r] = "rolling"
  /\ Go(r, "recording") /\ Drop(r)
  /\ fate' = [fate EXCEPT ![r] = "undone"]
  /\ UNCHANGED <<aborted, threw, wstate, landed, answer>>

-----------------------------------------------------------------------------
(* The jobs, and the end of the request                                      *)

Ended(j) == jstate[j] \in {"ran", "failed"}

\* Mutant: the jobs are run when the work is settled, before COMMIT is answered.
DrainBeforeCommit(r) ==
  /\ phase[r] \in {"committing", "draining"} /\ jobs[r] # <<>>
  /\ IF Ended(Head(jobs[r]))
     THEN jobs' = [jobs EXCEPT ![r] = Tail(@)] /\ UNCHANGED jstate
     ELSE /\ jstate[Head(jobs[r])] = "queued"
          /\ jstate' = [jstate EXCEPT ![Head(jobs[r])] = "seeking"]
          /\ UNCHANGED jobs
  /\ UNCHANGED <<phase, aborted, threw, fate, qstate, wstate, landed, answer>>

\* The taken jobs run one after the other.
DrainNext(r) ==
  /\ phase[r] = "draining" /\ jobs[r] # <<>>
  /\ IF Ended(Head(jobs[r]))
     THEN jobs' = [jobs EXCEPT ![r] = Tail(@)] /\ UNCHANGED jstate
     ELSE /\ jstate[Head(jobs[r])] = "queued"
          /\ jstate' = [jstate EXCEPT ![Head(jobs[r])] = "seeking"]
          /\ UNCHANGED jobs
  /\ UNCHANGED <<phase, aborted, threw, fate, qstate, wstate, landed, answer>>

Drained(r) ==
  /\ phase[r] = "draining" /\ jobs[r] = <<>>
  /\ Go(r, "recording")
  /\ UNCHANGED <<aborted, threw, fate, qstate, jobs, jstate, wstate, landed, answer>>

\* A job works on a connection of the pool, or fails when none comes free; a
\* failed job is logged and goes no further (runAfterCommitJob).
JobConnects(j) ==
  /\ jstate[j] = "seeking" /\ FreeConnection
  /\ jstate' = [jstate EXCEPT ![j] = "running"]
  /\ UNCHANGED <<phase, aborted, threw, fate, qstate, jobs, wstate, landed, answer>>

JobRefused(j) ==
  /\ jstate[j] = "seeking" /\ ~FreeConnection
  /\ jstate' = [jstate EXCEPT ![j] = "failed"]
  /\ UNCHANGED <<phase, aborted, threw, fate, qstate, jobs, wstate, landed, answer>>

JobEnds(j) ==
  /\ jstate[j] = "running"
  /\ jstate' = [jstate EXCEPT ![j] = "ran"]
  /\ UNCHANGED <<phase, aborted, threw, fate, qstate, jobs, wstate, landed, answer>>

\* The recorders (afterRequestSettles) note the final answer, and it is sent.
Record(r) ==
  /\ phase[r] = "recording"
  /\ Go(r, "done")
  /\ UNCHANGED <<aborted, threw, fate, qstate, jobs, jstate, wstate, landed, answer>>

RequestStep(r) ==
  \/ Begin(r) \/ PoolBusy(r) \/ Publish(r) \/ PublishFails(r)
  \/ HandlerReturns(r) \/ HandlerThrows(r) \/ Settled(r)
  \/ CommitAnswered(r) \/ (\E refused \in BOOLEAN : CommitFails(r, refused))
  \/ RolledBack(r) \/ DrainNext(r) \/ Drained(r) \/ Record(r)

JobStep(j) == JobConnects(j) \/ JobRefused(j) \/ JobEnds(j)

Terminated == (\A r \in Request : phase[r] = "done") /\ UNCHANGED vars

Next ==
  \/ \E r \in Request : RequestStep(r) \/ StatementFails(r)
  \/ \E j \in Job : JobStep(j) \/ OnAfterCommit(j)
  \/ \E w \in Work : Join(w) \/ WorkStatement(w) \/ WorkEnds(w)
  \/ Terminated

Spec == Init /\ [][Next]_vars

\* The event loop runs what is ready, the handler comes to an end, and joined
\* work does too (endRequestTxn refuses what it still had queued).
Fairness ==
  /\ \A r \in Request : WF_vars(RequestStep(r))
  /\ \A j \in Job : WF_vars(JobStep(j))
  /\ \A w \in Work : WF_vars(WorkEnds(w))

FairSpec == Spec /\ Fairness

-----------------------------------------------------------------------------
Phases == Pinned \union {"idle", "draining", "recording", "done"}

\* The type of the state.
TypeOK ==
  /\ phase \in [Request -> Phases]
  /\ aborted \subseteq Request /\ threw \subseteq Request
  /\ fate \in [Request -> {"open", "kept", "undone"}]
  /\ qstate \in [Request -> {"none", "open", "committed", "rolled-back"}]
  /\ jobs \in [Request -> Seq(Job)]
  /\ jstate \in [Job -> {"new", "queued", "seeking", "running", "ran", "failed", "dropped"}]
  /\ wstate \in [Work -> {"new", "held", "over", "refused"}]
  /\ landed \in [Work -> {"none", "inside", "after"}]
  /\ answer \in [Request -> {"none", "ok", "error", "rejected", "busy", "uncommitted"}]

Started(j) == jstate[j] \in {"seeking", "running", "ran", "failed"}

\* A statement of r failed and the handler answered as if it had not.
Swallowed(r) == r \in aborted /\ r \notin threw

\* "Work that must not start until the transaction has COMMITTED": a job starts
\* only for a transaction whose writes stand, however late it was registered -
\* or whose code swallowed the error of a failed statement.
JobsOnlyAfterCommit ==
  \A j \in Job : Started(j) => fate[JobOf[j]] = "kept" \/ Swallowed(JobOf[j])

\* A job is dropped only with its transaction, or when the client was told that
\* the COMMIT failed; and none is left behind on a queue nobody reads again.
NoJobLost ==
  \A j \in Job :
    /\ jstate[j] = "dropped" =>
         fate[JobOf[j]] = "undone" \/ answer[JobOf[j]] = "uncommitted"
    /\ jstate[j] = "queued" => phase[JobOf[j]] \in Pinned \union {"draining"}

\* The client is told of a success only when what the request wrote stands, or
\* the handler swallowed an error; and of anything else only when nothing
\* stands, or COMMIT's own answer was lost.
ToldTheTruth ==
  \A r \in Request : phase[r] = "done" =>
    /\ answer[r] = "ok" => fate[r] = "kept" \/ Swallowed(r)
    /\ fate[r] = "kept" => answer[r] \in {"ok", "uncommitted"}

\* Nothing that joined the transaction lands after its COMMIT or ROLLBACK.
NothingAfterTheEnd == \A w \in Work : landed[w] # "after"

\* No job waits for a connection, or works on one, while its own request pins one:
\* at c = DB_POOL_MAX that second connection would never come.
NoSecondConnection ==
  \A j \in Job : jstate[j] \in {"seeking", "running"} => phase[JobOf[j]] \notin Pinned

\* The inductive invariant behind them: what the phase of a request says of its
\* queue, its writes and its answer; where its jobs are; and that work joined to
\* it is over before the end begins.
Committed(r) ==
  /\ qstate[r] = "committed" /\ answer[r] = "ok" /\ r \notin threw
  /\ fate[r] = IF r \in aborted THEN "undone" ELSE "kept"

NotCommitted(r) ==
  /\ qstate[r] \in {"none", "rolled-back"} /\ answer[r] # "ok"
  /\ fate[r] = "undone" \/ (fate[r] = "kept" /\ answer[r] = "uncommitted")

PhaseOK(r) ==
  /\ phase[r] \in {"idle", "opening"} =>
       qstate[r] = "none" /\ fate[r] = "open" /\ r \notin threw
  /\ phase[r] = "handling" =>
       qstate[r] = "open" /\ fate[r] = "open" /\ r \notin threw
  /\ phase[r] = "settling" =>
       /\ qstate[r] = "open" /\ fate[r] = "open"
       /\ answer[r] = IF r \in threw THEN "error" ELSE "ok"
  /\ phase[r] = "committing" =>
       qstate[r] = "open" /\ fate[r] = "open" /\ answer[r] = "ok" /\ r \notin threw
  /\ phase[r] = "rolling" =>
       qstate[r] \in {"none", "open"} /\ fate[r] = "open" /\ answer[r] \in {"error", "rejected"}
  /\ phase[r] = "draining" => Committed(r)
  /\ phase[r] \in {"recording", "done"} => Committed(r) \/ NotCommitted(r)

JobOK(j) ==
  /\ jstate[j] = "queued" =>
       /\ phase[JobOf[j]] \in Pinned \union {"draining"} /\ qstate[JobOf[j]] # "none"
       /\ \E i \in 1 .. Len(jobs[JobOf[j]]) : jobs[JobOf[j]][i] = j
  /\ jstate[j] = "dropped" => qstate[JobOf[j]] = "rolled-back"
  /\ Started(j) => qstate[JobOf[j]] = "committed"

QueueOK(r) == \A i \in 1 .. Len(jobs[r]) : JobOf[jobs[r][i]] = r

WorkOK(w) ==
  /\ wstate[w] = "held" => phase[WorkOf[w]] \in {"handling", "settling"}
  /\ landed[w] # "after"

IInv ==
  /\ TypeOK
  /\ \A r \in Request : PhaseOK(r) /\ QueueOK(r)
  /\ \A j \in Job : JobOK(j)
  /\ \A w \in Work : WorkOK(w)

\* Every request is answered, and every job registered for it is dealt with.
EveryRequestEnds ==
  /\ \A r \in Request : <>(phase[r] = "done")
  /\ \A j \in Job : [](jstate[j] # "new" => <>(jstate[j] \in {"ran", "failed", "dropped"}))

=============================================================================
