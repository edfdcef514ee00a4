-------------------------- MODULE TransactionProofs --------------------------
(***************************************************************************)
(* Proofs for RequestTransaction, for any requests, jobs and joined work   *)
(* and any size of the pool, and for TrxSequencer, for any scopes, opened  *)
(* and nested in any way, and any number of statements.                    *)
(***************************************************************************)
EXTENDS RequestTransaction, TrxSequencer, FiniteSetTheorems, SequenceTheorems, TLAPS

-----------------------------------------------------------------------------
(* RequestTransaction: the request's transaction and its after-commit work.  *)

\* The initial state satisfies the inductive invariant.
LEMMA InitIInv == Init => IInv
BY ConstantsAssumption
DEF Init, IInv, TypeOK, Phases, Pinned, PhaseOK, Committed, NotCommitted, QueueOK, JobOK, WorkOK, Started

\* Every step keeps the types.
LEMMA TypeStep ==
  ASSUME IInv, [Next]_vars
  PROVE  TypeOK'
<1>1. ASSUME NEW r \in Request, Begin(r) PROVE TypeOK'
  BY <1>1, ConstantsAssumption
  DEF Begin, Go, IInv, TypeOK, Phases, Pinned
<1>2. ASSUME NEW r \in Request, PoolBusy(r) PROVE TypeOK'
  BY <1>2, ConstantsAssumption
  DEF PoolBusy, Go, Say, IInv, TypeOK, Phases, Pinned
<1>3. ASSUME NEW r \in Request, Publish(r) PROVE TypeOK'
  BY <1>3, ConstantsAssumption
  DEF Publish, Go, IInv, TypeOK, Phases, Pinned
<1>4. ASSUME NEW r \in Request, PublishFails(r) PROVE TypeOK'
  BY <1>4, ConstantsAssumption
  DEF PublishFails, Go, Say, IInv, TypeOK, Phases, Pinned
<1>5. ASSUME NEW r \in Request, HandlerReturns(r) PROVE TypeOK'
  BY <1>5, ConstantsAssumption
  DEF HandlerReturns, Go, Say, IInv, TypeOK, Phases, Pinned
<1>6. ASSUME NEW r \in Request, HandlerThrows(r) PROVE TypeOK'
  BY <1>6, ConstantsAssumption
  DEF HandlerThrows, Go, Say, IInv, TypeOK, Phases, Pinned
<1>7. ASSUME NEW r \in Request, Settled(r) PROVE TypeOK'
  BY <1>7, ConstantsAssumption
  DEF Settled, Go, IInv, TypeOK, Phases, Pinned
<1>8. ASSUME NEW r \in Request, CommitAnswered(r) PROVE TypeOK'
  BY <1>8, ConstantsAssumption
  DEF CommitAnswered, Go, IInv, TypeOK, Phases, Pinned
<1>9. ASSUME NEW r \in Request, NEW refused \in BOOLEAN, CommitFails(r, refused) PROVE TypeOK'
  BY <1>9, ConstantsAssumption
  DEF CommitFails, Go, Say, Drop, IInv, TypeOK, Phases, Pinned
<1>10. ASSUME NEW r \in Request, RolledBack(r) PROVE TypeOK'
  BY <1>10, ConstantsAssumption
  DEF RolledBack, Go, Drop, IInv, TypeOK, Phases, Pinned
<1>11. ASSUME NEW r \in Request, DrainNext(r) PROVE TypeOK'
  <2>1. jobs[r] \in Seq(Job) /\ jobs[r] # <<>> BY <1>11 DEF DrainNext, IInv, TypeOK
  <2>2. Head(jobs[r]) \in Job /\ Tail(jobs[r]) \in Seq(Job) BY <2>1
  <2> QED BY <1>11, <2>2 DEF DrainNext, IInv, TypeOK
<1>12. ASSUME NEW r \in Request, Drained(r) PROVE TypeOK'
  BY <1>12, ConstantsAssumption
  DEF Drained, Go, IInv, TypeOK, Phases, Pinned
<1>13. ASSUME NEW r \in Request, Record(r) PROVE TypeOK'
  BY <1>13, ConstantsAssumption
  DEF Record, Go, IInv, TypeOK, Phases, Pinned
<1>14. ASSUME NEW r \in Request, StatementFails(r) PROVE TypeOK'
  BY <1>14, ConstantsAssumption
  DEF StatementFails, IInv, TypeOK, Phases, Pinned
<1>15. ASSUME NEW j \in Job, JobConnects(j) PROVE TypeOK'
  BY <1>15, ConstantsAssumption
  DEF JobConnects, IInv, TypeOK, Phases, Pinned
<1>16. ASSUME NEW j \in Job, JobRefused(j) PROVE TypeOK'
  BY <1>16, ConstantsAssumption
  DEF JobRefused, IInv, TypeOK, Phases, Pinned
<1>17. ASSUME NEW j \in Job, JobEnds(j) PROVE TypeOK'
  BY <1>17, ConstantsAssumption
  DEF JobEnds, IInv, TypeOK, Phases, Pinned
<1>18. ASSUME NEW j \in Job, OnAfterCommit(j) PROVE TypeOK'
  <2> DEFINE r == JobOf[j]
  <2>1. r \in Request /\ jobs[r] \in Seq(Job) BY ConstantsAssumption DEF IInv, TypeOK
  <2>2. jobs' = jobs \/ jobs' = [jobs EXCEPT ![r] = Append(jobs[r], j)]
    BY <1>18, <2>1 DEF OnAfterCommit, IInv, TypeOK
  <2>3. jobs' \in [Request -> Seq(Job)]
    <3>1. Append(jobs[r], j) \in Seq(Job) BY <2>1
    <3>2. jobs \in [Request -> Seq(Job)] BY DEF IInv, TypeOK
    <3> HIDE DEF r
    <3> QED BY <2>1, <2>2, <3>1, <3>2
  <2>4. jstate' \in [Job -> {"new", "queued", "seeking", "running", "ran", "failed", "dropped"}]
    <3>1. qstate[r] \in {"open", "committed", "rolled-back"}
      BY <1>18, <2>1 DEF OnAfterCommit, IInv, TypeOK
    <3> QED BY <1>18, <3>1 DEF OnAfterCommit, IInv, TypeOK
  <2> QED BY <1>18, <2>3, <2>4 DEF OnAfterCommit, IInv, TypeOK
<1>19. ASSUME NEW w \in Work, Join(w) PROVE TypeOK'
  BY <1>19, ConstantsAssumption
  DEF Join, IInv, TypeOK, Phases, Pinned
<1>20. ASSUME NEW w \in Work, WorkStatement(w) PROVE TypeOK'
  BY <1>20, ConstantsAssumption
  DEF WorkStatement, IInv, TypeOK, Phases, Pinned
<1>21. ASSUME NEW w \in Work, WorkEnds(w) PROVE TypeOK'
  BY <1>21, ConstantsAssumption
  DEF WorkEnds, IInv, TypeOK, Phases, Pinned
<1>22. CASE UNCHANGED vars
  BY <1>22 DEF vars, IInv, TypeOK, Phases, Pinned
<1> QED
  BY <1>1, <1>2, <1>3, <1>4, <1>5, <1>6, <1>7, <1>8, <1>9, <1>10, <1>11, <1>12, <1>13, <1>14, <1>15, <1>16, <1>17, <1>18, <1>19, <1>20, <1>21, <1>22
  DEF Next, RequestStep, JobStep, Terminated

\* Every step of tenantMiddleware moves queue, writes and answer together.
LEMMA PhaseStep ==
  ASSUME IInv, [Next]_vars
  PROVE  \A x \in Request : PhaseOK(x)'
<1>1. ASSUME NEW r \in Request, Begin(r) PROVE \A x \in Request : PhaseOK(x)'
  BY <1>1, ConstantsAssumption
  DEF Begin, Go, IInv, TypeOK, PhaseOK, Committed, NotCommitted
<1>2. ASSUME NEW r \in Request, PoolBusy(r) PROVE \A x \in Request : PhaseOK(x)'
  BY <1>2, ConstantsAssumption
  DEF PoolBusy, Go, Say, IInv, TypeOK, PhaseOK, Committed, NotCommitted
<1>3. ASSUME NEW r \in Request, Publish(r) PROVE \A x \in Request : PhaseOK(x)'
  BY <1>3, ConstantsAssumption
  DEF Publish, Go, IInv, TypeOK, PhaseOK, Committed, NotCommitted
<1>4. ASSUME NEW r \in Request, PublishFails(r) PROVE \A x \in Request : PhaseOK(x)'
  BY <1>4, ConstantsAssumption
  DEF PublishFails, Go, Say, IInv, TypeOK, PhaseOK, Committed, NotCommitted
<1>5. ASSUME NEW r \in Request, HandlerReturns(r) PROVE \A x \in Request : PhaseOK(x)'
  BY <1>5, ConstantsAssumption
  DEF HandlerReturns, Go, Say, IInv, TypeOK, PhaseOK, Committed, NotCommitted
<1>6. ASSUME NEW r \in Request, HandlerThrows(r) PROVE \A x \in Request : PhaseOK(x)'
  BY <1>6, ConstantsAssumption
  DEF HandlerThrows, Go, Say, IInv, TypeOK, PhaseOK, Committed, NotCommitted
<1>7. ASSUME NEW r \in Request, Settled(r) PROVE \A x \in Request : PhaseOK(x)'
  BY <1>7, ConstantsAssumption
  DEF Settled, Go, IInv, TypeOK, PhaseOK, Committed, NotCommitted
<1>8. ASSUME NEW r \in Request, CommitAnswered(r) PROVE \A x \in Request : PhaseOK(x)'
  BY <1>8, ConstantsAssumption
  DEF CommitAnswered, Go, IInv, TypeOK, PhaseOK, Committed, NotCommitted
<1>9. ASSUME NEW r \in Request, NEW refused \in BOOLEAN, CommitFails(r, refused) PROVE \A x \in Request : PhaseOK(x)'
  BY <1>9, ConstantsAssumption
  DEF CommitFails, Go, Say, Drop, IInv, TypeOK, PhaseOK, Committed, NotCommitted
<1>10. ASSUME NEW r \in Request, RolledBack(r) PROVE \A x \in Request : PhaseOK(x)'
  BY <1>10, ConstantsAssumption
  DEF RolledBack, Go, Drop, IInv, TypeOK, PhaseOK, Committed, NotCommitted
<1>11. ASSUME NEW r \in Request, DrainNext(r) PROVE \A x \in Request : PhaseOK(x)'
  BY <1>11, ConstantsAssumption
  DEF DrainNext, Ended, IInv, TypeOK, PhaseOK, Committed, NotCommitted
<1>12. ASSUME NEW r \in Request, Drained(r) PROVE \A x \in Request : PhaseOK(x)'
  BY <1>12, ConstantsAssumption
  DEF Drained, Go, IInv, TypeOK, PhaseOK, Committed, NotCommitted
<1>13. ASSUME NEW r \in Request, Record(r) PROVE \A x \in Request : PhaseOK(x)'
  BY <1>13, ConstantsAssumption
  DEF Record, Go, IInv, TypeOK, PhaseOK, Committed, NotCommitted
<1>14. ASSUME NEW r \in Request, StatementFails(r) PROVE \A x \in Request : PhaseOK(x)'
  BY <1>14, ConstantsAssumption
  DEF StatementFails, IInv, TypeOK, PhaseOK, Committed, NotCommitted
<1>15. ASSUME NEW j \in Job, JobConnects(j) PROVE \A x \in Request : PhaseOK(x)'
  BY <1>15, ConstantsAssumption
  DEF JobConnects, IInv, TypeOK, PhaseOK, Committed, NotCommitted
<1>16. ASSUME NEW j \in Job, JobRefused(j) PROVE \A x \in Request : PhaseOK(x)'
  BY <1>16, ConstantsAssumption
  DEF JobRefused, IInv, TypeOK, PhaseOK, Committed, NotCommitted
<1>17. ASSUME NEW j \in Job, JobEnds(j) PROVE \A x \in Request : PhaseOK(x)'
  BY <1>17, ConstantsAssumption
  DEF JobEnds, IInv, TypeOK, PhaseOK, Committed, NotCommitted
<1>18. ASSUME NEW j \in Job, OnAfterCommit(j) PROVE \A x \in Request : PhaseOK(x)'
  BY <1>18, ConstantsAssumption
  DEF OnAfterCommit, IInv, TypeOK, PhaseOK, Committed, NotCommitted
<1>19. ASSUME NEW w \in Work, Join(w) PROVE \A x \in Request : PhaseOK(x)'
  BY <1>19, ConstantsAssumption
  DEF Join, IInv, TypeOK, PhaseOK, Committed, NotCommitted
<1>20. ASSUME NEW w \in Work, WorkStatement(w) PROVE \A x \in Request : PhaseOK(x)'
  BY <1>20, ConstantsAssumption
  DEF WorkStatement, IInv, TypeOK, PhaseOK, Committed, NotCommitted
<1>21. ASSUME NEW w \in Work, WorkEnds(w) PROVE \A x \in Request : PhaseOK(x)'
  BY <1>21, ConstantsAssumption
  DEF WorkEnds, IInv, TypeOK, PhaseOK, Committed, NotCommitted
<1>22. CASE UNCHANGED vars
  BY <1>22 DEF vars, IInv, TypeOK, PhaseOK, Committed, NotCommitted
<1> QED
  BY <1>1, <1>2, <1>3, <1>4, <1>5, <1>6, <1>7, <1>8, <1>9, <1>10, <1>11, <1>12, <1>13, <1>14, <1>15, <1>16, <1>17, <1>18, <1>19, <1>20, <1>21, <1>22
  DEF Next, RequestStep, JobStep, Terminated

\* A request's queue holds its own jobs only.
LEMMA QueueStep ==
  ASSUME IInv, [Next]_vars
  PROVE  \A x \in Request : QueueOK(x)'
<1>1. ASSUME NEW r \in Request, Begin(r) PROVE \A x \in Request : QueueOK(x)'
  BY <1>1, ConstantsAssumption
  DEF Begin, Go, IInv, TypeOK, QueueOK
<1>2. ASSUME NEW r \in Request, PoolBusy(r) PROVE \A x \in Request : QueueOK(x)'
  BY <1>2, ConstantsAssumption
  DEF PoolBusy, Go, Say, IInv, TypeOK, QueueOK
<1>3. ASSUME NEW r \in Request, Publish(r) PROVE \A x \in Request : QueueOK(x)'
  BY <1>3, ConstantsAssumption
  DEF Publish, Go, IInv, TypeOK, QueueOK
<1>4. ASSUME NEW r \in Request, PublishFails(r) PROVE \A x \in Request : QueueOK(x)'
  BY <1>4, ConstantsAssumption
  DEF PublishFails, Go, Say, IInv, TypeOK, QueueOK
<1>5. ASSUME NEW r \in Request, HandlerReturns(r) PROVE \A x \in Request : QueueOK(x)'
  BY <1>5, ConstantsAssumption
  DEF HandlerReturns, Go, Say, IInv, TypeOK, QueueOK
<1>6. ASSUME NEW r \in Request, HandlerThrows(r) PROVE \A x \in Request : QueueOK(x)'
  BY <1>6, ConstantsAssumption
  DEF HandlerThrows, Go, Say, IInv, TypeOK, QueueOK
<1>7. ASSUME NEW r \in Request, Settled(r) PROVE \A x \in Request : QueueOK(x)'
  BY <1>7, ConstantsAssumption
  DEF Settled, Go, IInv, TypeOK, QueueOK
<1>8. ASSUME NEW r \in Request, CommitAnswered(r) PROVE \A x \in Request : QueueOK(x)'
  BY <1>8, ConstantsAssumption
  DEF CommitAnswered, Go, IInv, TypeOK, QueueOK
<1>9. ASSUME NEW r \in Request, NEW refused \in BOOLEAN, CommitFails(r, refused) PROVE \A x \in Request : QueueOK(x)'
  BY <1>9, ConstantsAssumption
  DEF CommitFails, Go, Say, Drop, IInv, TypeOK, QueueOK
<1>10. ASSUME NEW r \in Request, RolledBack(r) PROVE \A x \in Request : QueueOK(x)'
  BY <1>10, ConstantsAssumption
  DEF RolledBack, Go, Drop, IInv, TypeOK, QueueOK
<1>11. ASSUME NEW r \in Request, DrainNext(r) PROVE \A x \in Request : QueueOK(x)'
  <2>1. jobs[r] \in Seq(Job) /\ jobs[r] # <<>> BY <1>11 DEF DrainNext, IInv, TypeOK
  <2>2. \A i \in 1 .. Len(Tail(jobs[r])) :
          i + 1 \in 1 .. Len(jobs[r]) /\ Tail(jobs[r])[i] = jobs[r][i + 1]
    BY <2>1
  <2>3. \A i \in 1 .. Len(Tail(jobs[r])) : JobOf[Tail(jobs[r])[i]] = r
    BY <2>2 DEF IInv, QueueOK
  <2>4. ASSUME NEW x \in Request PROVE QueueOK(x)'
    <3>1. jobs'[x] = jobs[x] \/ (x = r /\ jobs'[x] = Tail(jobs[r]))
      BY <1>11 DEF DrainNext, IInv, TypeOK
    <3> QED BY <2>3, <3>1 DEF IInv, QueueOK
  <2> QED BY <2>4
<1>12. ASSUME NEW r \in Request, Drained(r) PROVE \A x \in Request : QueueOK(x)'
  BY <1>12, ConstantsAssumption
  DEF Drained, Go, IInv, TypeOK, QueueOK
<1>13. ASSUME NEW r \in Request, Record(r) PROVE \A x \in Request : QueueOK(x)'
  BY <1>13, ConstantsAssumption
  DEF Record, Go, IInv, TypeOK, QueueOK
<1>14. ASSUME NEW r \in Request, StatementFails(r) PROVE \A x \in Request : QueueOK(x)'
  BY <1>14, ConstantsAssumption
  DEF StatementFails, IInv, TypeOK, QueueOK
<1>15. ASSUME NEW j \in Job, JobConnects(j) PROVE \A x \in Request : QueueOK(x)'
  BY <1>15, ConstantsAssumption
  DEF JobConnects, IInv, TypeOK, QueueOK
<1>16. ASSUME NEW j \in Job, JobRefused(j) PROVE \A x \in Request : QueueOK(x)'
  BY <1>16, ConstantsAssumption
  DEF JobRefused, IInv, TypeOK, QueueOK
<1>17. ASSUME NEW j \in Job, JobEnds(j) PROVE \A x \in Request : QueueOK(x)'
  BY <1>17, ConstantsAssumption
  DEF JobEnds, IInv, TypeOK, QueueOK
<1>18. ASSUME NEW j \in Job, OnAfterCommit(j) PROVE \A x \in Request : QueueOK(x)'
  <2> DEFINE r == JobOf[j]
  <2>1. r \in Request /\ jobs[r] \in Seq(Job) BY ConstantsAssumption DEF IInv, TypeOK
  <2>2. jobs' = jobs \/ jobs' = [jobs EXCEPT ![r] = Append(jobs[r], j)]
    BY <1>18, <2>1 DEF OnAfterCommit, IInv, TypeOK
  <2>3. \A i \in 1 .. Len(Append(jobs[r], j)) : JobOf[Append(jobs[r], j)[i]] = r
    BY <2>1 DEF IInv, QueueOK
  <2>4. ASSUME NEW x \in Request PROVE QueueOK(x)'
    <3>1. jobs'[x] = jobs[x] \/ (x = r /\ jobs'[x] = Append(jobs[r], j))
      BY <2>1, <2>2 DEF IInv, TypeOK
    <3> QED BY <2>3, <3>1 DEF IInv, QueueOK
  <2> QED BY <2>4
<1>19. ASSUME NEW w \in Work, Join(w) PROVE \A x \in Request : QueueOK(x)'
  BY <1>19, ConstantsAssumption
  DEF Join, IInv, TypeOK, QueueOK
<1>20. ASSUME NEW w \in Work, WorkStatement(w) PROVE \A x \in Request : QueueOK(x)'
  BY <1>20, ConstantsAssumption
  DEF WorkStatement, IInv, TypeOK, QueueOK
<1>21. ASSUME NEW w \in Work, WorkEnds(w) PROVE \A x \in Request : QueueOK(x)'
  BY <1>21, ConstantsAssumption
  DEF WorkEnds, IInv, TypeOK, QueueOK
<1>22. CASE UNCHANGED vars
  BY <1>22 DEF vars, IInv, TypeOK, QueueOK
<1> QED
  BY <1>1, <1>2, <1>3, <1>4, <1>5, <1>6, <1>7, <1>8, <1>9, <1>10, <1>11, <1>12, <1>13, <1>14, <1>15, <1>16, <1>17, <1>18, <1>19, <1>20, <1>21, <1>22
  DEF Next, RequestStep, JobStep, Terminated

\* onAfterCommit and settleAfterCommit lose no job and start none too early.
LEMMA JobsStep ==
  ASSUME IInv, [Next]_vars
  PROVE  \A y \in Job : JobOK(y)'
<1>1. ASSUME NEW r \in Request, Begin(r) PROVE \A y \in Job : JobOK(y)'
  BY <1>1, ConstantsAssumption
  DEF Begin, Go, IInv, TypeOK, Pinned, PhaseOK, Committed, NotCommitted, QueueOK, JobOK, Started
<1>2. ASSUME NEW r \in Request, PoolBusy(r) PROVE \A y \in Job : JobOK(y)'
  BY <1>2, ConstantsAssumption
  DEF PoolBusy, Go, Say, IInv, TypeOK, Pinned, PhaseOK, Committed, NotCommitted, QueueOK, JobOK, Started
<1>3. ASSUME NEW r \in Request, Publish(r) PROVE \A y \in Job : JobOK(y)'
  BY <1>3, ConstantsAssumption
  DEF Publish, Go, IInv, TypeOK, Pinned, PhaseOK, Committed, NotCommitted, QueueOK, JobOK, Started
<1>4. ASSUME NEW r \in Request, PublishFails(r) PROVE \A y \in Job : JobOK(y)'
  BY <1>4, ConstantsAssumption
  DEF PublishFails, Go, Say, IInv, TypeOK, Pinned, PhaseOK, Committed, NotCommitted, QueueOK, JobOK, Started
<1>5. ASSUME NEW r \in Request, HandlerReturns(r) PROVE \A y \in Job : JobOK(y)'
  BY <1>5, ConstantsAssumption
  DEF HandlerReturns, Go, Say, IInv, TypeOK, Pinned, PhaseOK, Committed, NotCommitted, QueueOK, JobOK, Started
<1>6. ASSUME NEW r \in Request, HandlerThrows(r) PROVE \A y \in Job : JobOK(y)'
  BY <1>6, ConstantsAssumption
  DEF HandlerThrows, Go, Say, IInv, TypeOK, Pinned, PhaseOK, Committed, NotCommitted, QueueOK, JobOK, Started
<1>7. ASSUME NEW r \in Request, Settled(r) PROVE \A y \in Job : JobOK(y)'
  BY <1>7, ConstantsAssumption
  DEF Settled, Go, IInv, TypeOK, Pinned, PhaseOK, Committed, NotCommitted, QueueOK, JobOK, Started
<1>8. ASSUME NEW r \in Request, CommitAnswered(r) PROVE \A y \in Job : JobOK(y)'
  BY <1>8, ConstantsAssumption
  DEF CommitAnswered, Go, IInv, TypeOK, Pinned, PhaseOK, Committed, NotCommitted, QueueOK, JobOK, Started
<1>9. ASSUME NEW r \in Request, NEW refused \in BOOLEAN, CommitFails(r, refused) PROVE \A y \in Job : JobOK(y)'
  BY <1>9, ConstantsAssumption
  DEF CommitFails, Go, Say, Drop, IInv, TypeOK, Pinned, PhaseOK, Committed, NotCommitted, QueueOK, JobOK, Started
<1>10. ASSUME NEW r \in Request, RolledBack(r) PROVE \A y \in Job : JobOK(y)'
  BY <1>10, ConstantsAssumption
  DEF RolledBack, Go, Drop, IInv, TypeOK, Pinned, PhaseOK, Committed, NotCommitted, QueueOK, JobOK, Started
<1>11. ASSUME NEW r \in Request, DrainNext(r) PROVE \A y \in Job : JobOK(y)'
  <2>1. jobs[r] \in Seq(Job) /\ jobs[r] # <<>> BY <1>11 DEF DrainNext, IInv, TypeOK
  <2>2. Head(jobs[r]) = jobs[r][1] /\ 1 \in 1 .. Len(jobs[r]) BY <2>1
  <2>3. JobOf[Head(jobs[r])] = r BY <2>2 DEF IInv, QueueOK
  <2>4. \A i \in 1 .. Len(jobs[r]) :
          i # 1 => i - 1 \in 1 .. Len(Tail(jobs[r])) /\ Tail(jobs[r])[i - 1] = jobs[r][i]
    BY <2>1
  <2>5. qstate[r] = "committed" BY <1>11 DEF DrainNext, IInv, PhaseOK, Committed, NotCommitted
  <2>6. CASE Ended(Head(jobs[r]))
    <3>1. jobs' = [jobs EXCEPT ![r] = Tail(@)] /\ jstate' = jstate
          /\ phase' = phase /\ qstate' = qstate
      BY <1>11, <2>6 DEF DrainNext
    <3>2. SUFFICES ASSUME NEW y \in Job, jstate[y] = "queued", JobOf[y] = r
                   PROVE  \E i \in 1 .. Len(jobs'[r]) : jobs'[r][i] = y
      <4>1. ASSUME NEW y \in Job, JobOf[y] # r PROVE JobOK(y)'
        <5>1. JobOK(y) /\ JobOf[y] \in Request BY ConstantsAssumption DEF IInv
        <5>2. jobs'[JobOf[y]] = jobs[JobOf[y]] BY <3>1, <4>1, <5>1 DEF IInv, TypeOK
        <5> QED BY <3>1, <5>1, <5>2 DEF JobOK, Started
      <4>2. ASSUME NEW y \in Job, jstate[y] # "queued" PROVE JobOK(y)'
        BY <3>1, <4>2 DEF IInv, JobOK, Started
      <4>3. ASSUME NEW y \in Job, JobOf[y] = r, jstate[y] = "queued",
                   \E i \in 1 .. Len(jobs'[r]) : jobs'[r][i] = y
            PROVE  JobOK(y)'
        BY <3>1, <4>3 DEF IInv, JobOK, Started
      <4> QED BY <4>1, <4>2, <4>3
    <3>3. PICK i \in 1 .. Len(jobs[r]) : jobs[r][i] = y BY <3>2 DEF IInv, JobOK
    <3>4. i # 1 BY <2>2, <2>6, <3>2, <3>3 DEF Ended
    <3>5. i - 1 \in 1 .. Len(Tail(jobs[r])) /\ Tail(jobs[r])[i - 1] = y BY <2>4, <3>3, <3>4
    <3>6. jobs'[r] = Tail(jobs[r]) BY <3>1 DEF IInv, TypeOK
    <3> QED BY <3>5, <3>6
  <2>7. CASE ~Ended(Head(jobs[r]))
    BY <1>11, <2>3, <2>5, <2>7 DEF DrainNext, IInv, TypeOK, JobOK, Started
  <2> QED BY <2>6, <2>7
<1>12. ASSUME NEW r \in Request, Drained(r) PROVE \A y \in Job : JobOK(y)'
  BY <1>12, ConstantsAssumption
  DEF Drained, Go, IInv, TypeOK, Pinned, PhaseOK, Committed, NotCommitted, QueueOK, JobOK, Started
<1>13. ASSUME NEW r \in Request, Record(r) PROVE \A y \in Job : JobOK(y)'
  BY <1>13, ConstantsAssumption
  DEF Record, Go, IInv, TypeOK, Pinned, PhaseOK, Committed, NotCommitted, QueueOK, JobOK, Started
<1>14. ASSUME NEW r \in Request, StatementFails(r) PROVE \A y \in Job : JobOK(y)'
  BY <1>14, ConstantsAssumption
  DEF StatementFails, IInv, TypeOK, Pinned, PhaseOK, Committed, NotCommitted, QueueOK, JobOK, Started
<1>15. ASSUME NEW j \in Job, JobConnects(j) PROVE \A y \in Job : JobOK(y)'
  BY <1>15, ConstantsAssumption
  DEF JobConnects, IInv, TypeOK, Pinned, PhaseOK, Committed, NotCommitted, QueueOK, JobOK, Started
<1>16. ASSUME NEW j \in Job, JobRefused(j) PROVE \A y \in Job : JobOK(y)'
  BY <1>16, ConstantsAssumption
  DEF JobRefused, IInv, TypeOK, Pinned, PhaseOK, Committed, NotCommitted, QueueOK, JobOK, Started
<1>17. ASSUME NEW j \in Job, JobEnds(j) PROVE \A y \in Job : JobOK(y)'
  BY <1>17, ConstantsAssumption
  DEF JobEnds, IInv, TypeOK, Pinned, PhaseOK, Committed, NotCommitted, QueueOK, JobOK, Started
<1>18. ASSUME NEW j \in Job, OnAfterCommit(j) PROVE \A y \in Job : JobOK(y)'
  <2> DEFINE r == JobOf[j]
  <2>1. r \in Request /\ jobs[r] \in Seq(Job) BY ConstantsAssumption DEF IInv, TypeOK
  <2>2. Len(Append(jobs[r], j)) = Len(jobs[r]) + 1 /\ Len(jobs[r]) \in Nat
        /\ Append(jobs[r], j)[Len(jobs[r]) + 1] = j
        /\ \A i \in 1 .. Len(jobs[r]) : Append(jobs[r], j)[i] = jobs[r][i]
    BY <2>1
  <2>3. phase' = phase /\ qstate' = qstate /\ jstate[j] = "new" BY <1>18 DEF OnAfterCommit
  <2>4. ASSUME NEW y \in Job, y # j PROVE JobOK(y)'
    <3>1. jstate'[y] = jstate[y] BY <1>18, <2>4 DEF OnAfterCommit, IInv, TypeOK
    <3>2. JobOK(y) /\ JobOf[y] \in Request BY ConstantsAssumption DEF IInv
    <3>3. CASE jobs'[JobOf[y]] = jobs[JobOf[y]]
      BY <2>3, <3>1, <3>2, <3>3 DEF JobOK, Started
    <3>4. CASE JobOf[y] = r /\ jobs'[r] = Append(jobs[r], j)
      BY <2>2, <2>3, <3>1, <3>2, <3>4 DEF JobOK, Started
    <3> QED BY <1>18, <2>1, <3>2, <3>3, <3>4 DEF OnAfterCommit, IInv, TypeOK
  <2>5. JobOK(j)'
    <3>1. CASE qstate[r] = "open"
      <4>1. jobs'[r] = Append(jobs[r], j) /\ jstate'[j] = "queued"
        BY <1>18, <2>1, <3>1 DEF OnAfterCommit, IInv, TypeOK
      <4>2. phase[r] \in Pinned \union {"draining"}
        BY <2>1, <3>1 DEF IInv, TypeOK, Phases, Pinned, PhaseOK, Committed, NotCommitted
      <4> QED BY <2>2, <2>3, <3>1, <4>1, <4>2 DEF JobOK, Started
    <3>2. CASE qstate[r] = "committed"
      BY <1>18, <2>3, <3>2 DEF OnAfterCommit, IInv, TypeOK, JobOK, Started
    <3>3. CASE qstate[r] = "rolled-back"
      BY <1>18, <2>3, <3>3 DEF OnAfterCommit, IInv, TypeOK, JobOK, Started
    <3> QED BY <1>18, <2>1, <3>1, <3>2, <3>3 DEF OnAfterCommit, IInv, TypeOK
  <2> QED BY <2>4, <2>5
<1>19. ASSUME NEW w \in Work, Join(w) PROVE \A y \in Job : JobOK(y)'
  BY <1>19, ConstantsAssumption
  DEF Join, IInv, TypeOK, Pinned, PhaseOK, Committed, NotCommitted, QueueOK, JobOK, Started
<1>20. ASSUME NEW w \in Work, WorkStatement(w) PROVE \A y \in Job : JobOK(y)'
  BY <1>20, ConstantsAssumption
  DEF WorkStatement, IInv, TypeOK, Pinned, PhaseOK, Committed, NotCommitted, QueueOK, JobOK, Started
<1>21. ASSUME NEW w \in Work, WorkEnds(w) PROVE \A y \in Job : JobOK(y)'
  BY <1>21, ConstantsAssumption
  DEF WorkEnds, IInv, TypeOK, Pinned, PhaseOK, Committed, NotCommitted, QueueOK, JobOK, Started
<1>22. CASE UNCHANGED vars
  BY <1>22 DEF vars, IInv, TypeOK, Pinned, PhaseOK, Committed, NotCommitted, QueueOK, JobOK, Started
<1> QED
  BY <1>1, <1>2, <1>3, <1>4, <1>5, <1>6, <1>7, <1>8, <1>9, <1>10, <1>11, <1>12, <1>13, <1>14, <1>15, <1>16, <1>17, <1>18, <1>19, <1>20, <1>21, <1>22
  DEF Next, RequestStep, JobStep, Terminated

\* settleRequestTransaction waits for all that joined.
LEMMA WorkStep ==
  ASSUME IInv, [Next]_vars
  PROVE  \A z \in Work : WorkOK(z)'
<1>1. ASSUME NEW r \in Request, Begin(r) PROVE \A z \in Work : WorkOK(z)'
  BY <1>1, ConstantsAssumption
  DEF Begin, Go, IInv, TypeOK, PhaseOK, Committed, NotCommitted, WorkOK
<1>2. ASSUME NEW r \in Request, PoolBusy(r) PROVE \A z \in Work : WorkOK(z)'
  BY <1>2, ConstantsAssumption
  DEF PoolBusy, Go, Say, IInv, TypeOK, PhaseOK, Committed, NotCommitted, WorkOK
<1>3. ASSUME NEW r \in Request, Publish(r) PROVE \A z \in Work : WorkOK(z)'
  BY <1>3, ConstantsAssumption
  DEF Publish, Go, IInv, TypeOK, PhaseOK, Committed, NotCommitted, WorkOK
<1>4. ASSUME NEW r \in Request, PublishFails(r) PROVE \A z \in Work : WorkOK(z)'
  BY <1>4, ConstantsAssumption
  DEF PublishFails, Go, Say, IInv, TypeOK, PhaseOK, Committed, NotCommitted, WorkOK
<1>5. ASSUME NEW r \in Request, HandlerReturns(r) PROVE \A z \in Work : WorkOK(z)'
  BY <1>5, ConstantsAssumption
  DEF HandlerReturns, Go, Say, IInv, TypeOK, PhaseOK, Committed, NotCommitted, WorkOK
<1>6. ASSUME NEW r \in Request, HandlerThrows(r) PROVE \A z \in Work : WorkOK(z)'
  BY <1>6, ConstantsAssumption
  DEF HandlerThrows, Go, Say, IInv, TypeOK, PhaseOK, Committed, NotCommitted, WorkOK
<1>7. ASSUME NEW r \in Request, Settled(r) PROVE \A z \in Work : WorkOK(z)'
  BY <1>7, ConstantsAssumption
  DEF Settled, Go, IInv, TypeOK, PhaseOK, Committed, NotCommitted, WorkOK
<1>8. ASSUME NEW r \in Request, CommitAnswered(r) PROVE \A z \in Work : WorkOK(z)'
  BY <1>8, ConstantsAssumption
  DEF CommitAnswered, Go, IInv, TypeOK, PhaseOK, Committed, NotCommitted, WorkOK
<1>9. ASSUME NEW r \in Request, NEW refused \in BOOLEAN, CommitFails(r, refused) PROVE \A z \in Work : WorkOK(z)'
  BY <1>9, ConstantsAssumption
  DEF CommitFails, Go, Say, Drop, IInv, TypeOK, PhaseOK, Committed, NotCommitted, WorkOK
<1>10. ASSUME NEW r \in Request, RolledBack(r) PROVE \A z \in Work : WorkOK(z)'
  BY <1>10, ConstantsAssumption
  DEF RolledBack, Go, Drop, IInv, TypeOK, PhaseOK, Committed, NotCommitted, WorkOK
<1>11. ASSUME NEW r \in Request, DrainNext(r) PROVE \A z \in Work : WorkOK(z)'
  BY <1>11, ConstantsAssumption
  DEF DrainNext, Ended, IInv, TypeOK, PhaseOK, Committed, NotCommitted, WorkOK
<1>12. ASSUME NEW r \in Request, Drained(r) PROVE \A z \in Work : WorkOK(z)'
  BY <1>12, ConstantsAssumption
  DEF Drained, Go, IInv, TypeOK, PhaseOK, Committed, NotCommitted, WorkOK
<1>13. ASSUME NEW r \in Request, Record(r) PROVE \A z \in Work : WorkOK(z)'
  BY <1>13, ConstantsAssumption
  DEF Record, Go, IInv, TypeOK, PhaseOK, Committed, NotCommitted, WorkOK
<1>14. ASSUME NEW r \in Request, StatementFails(r) PROVE \A z \in Work : WorkOK(z)'
  BY <1>14, ConstantsAssumption
  DEF StatementFails, IInv, TypeOK, PhaseOK, Committed, NotCommitted, WorkOK
<1>15. ASSUME NEW j \in Job, JobConnects(j) PROVE \A z \in Work : WorkOK(z)'
  BY <1>15, ConstantsAssumption
  DEF JobConnects, IInv, TypeOK, PhaseOK, Committed, NotCommitted, WorkOK
<1>16. ASSUME NEW j \in Job, JobRefused(j) PROVE \A z \in Work : WorkOK(z)'
  BY <1>16, ConstantsAssumption
  DEF JobRefused, IInv, TypeOK, PhaseOK, Committed, NotCommitted, WorkOK
<1>17. ASSUME NEW j \in Job, JobEnds(j) PROVE \A z \in Work : WorkOK(z)'
  BY <1>17, ConstantsAssumption
  DEF JobEnds, IInv, TypeOK, PhaseOK, Committed, NotCommitted, WorkOK
<1>18. ASSUME NEW j \in Job, OnAfterCommit(j) PROVE \A z \in Work : WorkOK(z)'
  BY <1>18, ConstantsAssumption
  DEF OnAfterCommit, IInv, TypeOK, PhaseOK, Committed, NotCommitted, WorkOK
<1>19. ASSUME NEW w \in Work, Join(w) PROVE \A z \in Work : WorkOK(z)'
  BY <1>19, ConstantsAssumption
  DEF Join, IInv, TypeOK, PhaseOK, Committed, NotCommitted, WorkOK
<1>20. ASSUME NEW w \in Work, WorkStatement(w) PROVE \A z \in Work : WorkOK(z)'
  BY <1>20, ConstantsAssumption
  DEF WorkStatement, IInv, TypeOK, PhaseOK, Committed, NotCommitted, WorkOK
<1>21. ASSUME NEW w \in Work, WorkEnds(w) PROVE \A z \in Work : WorkOK(z)'
  BY <1>21, ConstantsAssumption
  DEF WorkEnds, IInv, TypeOK, PhaseOK, Committed, NotCommitted, WorkOK
<1>22. CASE UNCHANGED vars
  BY <1>22 DEF vars, IInv, TypeOK, PhaseOK, Committed, NotCommitted, WorkOK
<1> QED
  BY <1>1, <1>2, <1>3, <1>4, <1>5, <1>6, <1>7, <1>8, <1>9, <1>10, <1>11, <1>12, <1>13, <1>14, <1>15, <1>16, <1>17, <1>18, <1>19, <1>20, <1>21, <1>22
  DEF Next, RequestStep, JobStep, Terminated

\* The inductive invariant holds throughout.
THEOREM Inductive == Spec => []IInv
<1>1. Init => IInv BY InitIInv
<1>2. IInv /\ [Next]_vars => IInv'
  BY TypeStep, PhaseStep, QueueStep, JobsStep, WorkStep DEF IInv
<1> QED BY <1>1, <1>2, PTL DEF Spec

\* withTenantIsolation and its queue stay well typed, late callers included.
THEOREM TypeCorrect == Spec => []TypeOK
<1>1. IInv => TypeOK BY DEF IInv
<1> QED BY <1>1, Inductive, PTL

\* Whether the transaction committed is what became of its writes.
LEMMA FateOfQueue ==
  ASSUME IInv, NEW r \in Request
  PROVE  /\ qstate[r] = "committed" =>
              (fate[r] = "kept" \/ Swallowed(r)) /\ phase[r] \notin Pinned
         /\ qstate[r] = "rolled-back" => fate[r] = "undone" \/ answer[r] = "uncommitted"
<1>1. phase[r] \in Phases /\ PhaseOK(r) BY DEF IInv, TypeOK
<1> QED BY <1>1 DEF Phases, Pinned, PhaseOK, Committed, NotCommitted, Swallowed

\* onAfterCommit: no job starts for a transaction whose writes do not stand.
THEOREM JobsAfterCommit == Spec => []JobsOnlyAfterCommit
<1>1. IInv => JobsOnlyAfterCommit
  BY ConstantsAssumption, FateOfQueue DEF IInv, JobOK, JobsOnlyAfterCommit
<1> QED BY <1>1, Inductive, PTL

\* settleAfterCommit and onAfterCommit between them leave no job behind.
THEOREM JobsAccountedFor == Spec => []NoJobLost
<1>1. IInv => NoJobLost
  BY ConstantsAssumption, FateOfQueue DEF IInv, JobOK, NoJobLost
<1> QED BY <1>1, Inductive, PTL

\* tenantMiddleware answers a success exactly when the request's writes stand.
THEOREM AnswersAreTrue == Spec => []ToldTheTruth
<1>1. IInv => ToldTheTruth
  BY DEF IInv, PhaseOK, Committed, NotCommitted, Swallowed, ToldTheTruth
<1> QED BY <1>1, Inductive, PTL

\* settleRequestTransaction: no joined work reaches an ended transaction.
THEOREM JoinedWorkStaysInside == Spec => []NothingAfterTheEnd
<1>1. IInv => NothingAfterTheEnd
  BY DEF IInv, WorkOK, NothingAfterTheEnd
<1> QED BY <1>1, Inductive, PTL

\* A job and the transaction that registered it never hold a connection each.
THEOREM OneConnectionEach == Spec => []NoSecondConnection
<1>1. IInv => NoSecondConnection
  BY ConstantsAssumption, FateOfQueue DEF IInv, JobOK, Started, NoSecondConnection
<1> QED BY <1>1, Inductive, PTL

-----------------------------------------------------------------------------
(* TrxSequencer: the turns of one transaction.                               *)

\* The inductive invariant.  The first part is about the promise chains: c is a
\* record of the wire, the queues and the scopes' states, U the levels whose head
\* has not been started yet, up and in the nesting, and g the guarded scopes.

EndOps == {"release", "rollback", "restore"}
States == {"unused", "queued"} \union Running \union Opened

QItem == [op : Ops, by : Level]
WItem == [op : Ops, by : Level, at : Level]
Queues == [Level -> Seq(QItem)]

ChainTypes(c) ==
  /\ c.state \in [Scope -> States]
  /\ c.queue \in Queues
  /\ c.wire \in Seq(WItem)

\* A queued scope is under way exactly when it is a head that was started, and is
\* queued once.
ScopeItems(c, U, up) ==
  \A l \in Level : \A n \in DOMAIN c.queue[l] :
    c.queue[l][n].op = "scope" =>
      /\ c.queue[l][n].by \in Scope
      /\ up[c.queue[l][n].by] = l
      /\ n = 1 /\ l \notin U => c.state[c.queue[l][n].by] \in Running
      /\ ~(n = 1 /\ l \notin U) => c.state[c.queue[l][n].by] = "queued"

QueuedOnce(c) ==
  \A l \in Level : \A n, m \in DOMAIN c.queue[l] :
    c.queue[l][n].op = "scope" /\ c.queue[l][m] = c.queue[l][n] => n = m

AtTheHead(c, U, up) ==
  \A s \in Scope : c.state[s] \in Running =>
    /\ up[s] \notin U
    /\ c.queue[up[s]] # <<>>
    /\ c.queue[up[s]][1] = Item("scope", s)

\* A scope that is opening has sent its first statement and nothing else.
FirstItems(c) ==
  /\ \A l \in Level : \A n \in DOMAIN c.queue[l] :
       c.queue[l][n].op \in {"save", "set"} => l \in Scope /\ c.state[l] = "opening"
  /\ \A s \in Scope : c.state[s] = "opening" => c.queue[s] = <<Item(FirstOp(s), s)>>

\* The statement that ends a scope is its own, sent once.
LastItems(c, g) ==
  \A l \in Level : \A n \in DOMAIN c.queue[l] :
    c.queue[l][n].op \in EndOps =>
      /\ c.queue[l][n].by = l
      /\ l \in Scope /\ c.state[l] = "ending" /\ l \in g
      /\ KindOf[l] = "role" <=> c.queue[l][n].op = "restore"

EndedOnce(c) ==
  \A l \in Level : \A n, m \in DOMAIN c.queue[l] :
    c.queue[l][n].op \in EndOps /\ c.queue[l][m].op \in EndOps => n = m

\* Code sends where its level is nested, and only once that was opened.
WriteItems(c, in) ==
  \A l \in Level : \A n \in DOMAIN c.queue[l] :
    c.queue[l][n].op = "write" =>
      /\ l \in in[c.queue[l][n].by]
      /\ c.queue[l][n].by = Root \/ c.state[c.queue[l][n].by] \in Opened

NothingYet(c, U) ==
  /\ \A s \in Scope : c.state[s] \in {"unused", "queued"} => c.queue[s] = <<>>
  /\ \A s \in Scope : s \in U => c.state[s] \in Opened

\* What is on the wire are started heads, of different levels.
WireHeads(c, U) ==
  /\ \A n \in DOMAIN c.wire :
       /\ c.wire[n].at \notin U
       /\ c.queue[c.wire[n].at] # <<>>
       /\ c.queue[c.wire[n].at][1] = Item(c.wire[n].op, c.wire[n].by)
       /\ c.wire[n].op # "scope"
  /\ \A n, m \in DOMAIN c.wire : c.wire[n].at = c.wire[m].at => n = m

Chains(c, U, up, in, g) ==
  /\ ChainTypes(c)
  /\ ScopeItems(c, U, up)
  /\ QueuedOnce(c)
  /\ AtTheHead(c, U, up)
  /\ FirstItems(c)
  /\ LastItems(c, g)
  /\ EndedOnce(c)
  /\ WriteItems(c, in)
  /\ NothingYet(c, U)
  /\ WireHeads(c, U)

\* As long as nothing strayed the scopes under way are nested in one another, and
\* only the innermost level has a statement on the wire.
UnderWay(c) == {s \in Scope : c.state[s] \in Running}

Innermost(c, U, l) == c.queue[l] = <<>> \/ c.queue[l][1].op # "scope" \/ l \in U

OneAtATime(c, U) ==
  /\ Len(c.wire) <= 1
  /\ U # {} => c.wire = <<>>

QueuesUnderWay(c, U) ==
  \A l \in Level : c.queue[l] # <<>> \/ l \in U => l \in UnderWay(c) \union {Root}

InOneLine(c, U, in) ==
  /\ \A l \in UnderWay(c) \union {Root} : Innermost(c, U, l) => UnderWay(c) \subseteq in[l]
  /\ \A s \in UnderWay(c) : in[s] \subseteq UnderWay(c) \union {Root}

EndsTheQueue(c) ==
  \A l \in Level : \A n \in DOMAIN c.queue[l] :
    c.queue[l][n].op \in EndOps => n = Len(c.queue[l])

Line(c, U, in) ==
  /\ OneAtATime(c, U)
  /\ QueuesUnderWay(c, U)
  /\ InOneLine(c, U, in)
  /\ EndsTheQueue(c)

Now == [wire |-> wire, queue |-> queue, state |-> state]

\* The scopes are a tree.
Tree(up, in) ==
  /\ in \in [Level -> SUBSET Level] /\ up \in [Scope -> Level]
  /\ in[Root] = {Root}
  /\ \A s \in Scope : in[s] = {s} \union in[up[s]] /\ s \notin in[up[s]]
  /\ \A l \in Level : l \in in[l] /\ Root \in in[l]
  /\ \A l \in Level : \A m \in in[l] : in[m] \subseteq in[l]
  /\ \A l, m \in Level : l \in in[m] /\ m \in in[l] => l = m

\* A level that others are nested in was opened, and every level is nested in one
\* where its code may queue.
Nested ==
  /\ \A l \in Level : \A s \in inside[l] : s \in Scope /\ s # l => state[s] \in Opened
  /\ \A l \in Level : \E m \in inside[l] : IsNearest(m, l)
  /\ \A s \in Scope : state[s] = "unused" => parent[s] = Root

\* The savepoints on the connection, in the order they were set.
MarksInOrder ==
  /\ \A k \in DOMAIN marks : marks[k].len <= Len(log)
  /\ \A k, j \in DOMAIN marks : j <= k => marks[j].len <= marks[k].len

MarksOfBlocks ==
  /\ \A k, j \in DOMAIN marks : marks[k].by = marks[j].by => k = j
  /\ \A k \in DOMAIN marks : marks[k].by \in guarded /\ KindOf[marks[k].by] = "savepoint"

GuardedOpened == \A s \in guarded : state[s] \in Opened

\* Every write is of code that was opened, at a level its own is nested in.
LogOfOpened ==
  \A n \in DOMAIN log :
    /\ log[n].at \in inside[log[n].by]
    /\ log[n].by = Root \/ state[log[n].by] \in Opened

\* An open block's savepoint stands, what is after it is of code inside, and what
\* is before any savepoint is not.
OpenMarked == \A s \in guarded : KindOf[s] = "savepoint" /\ ~Closed(s) => Marked(s)

AfterMark ==
  \A k \in DOMAIN marks :
    ~Closed(marks[k].by) =>
      /\ \A n \in DOMAIN log : n > marks[k].len => marks[k].by \in inside[log[n].by]
      /\ \A j \in DOMAIN marks : j > k => marks[k].by \in inside[marks[j].by]

BeforeMark ==
  \A k \in DOMAIN marks : \A n \in DOMAIN log :
    n <= marks[k].len => marks[k].by \notin inside[log[n].by]

Failed == \A s \in guarded : KindOf[s] = "savepoint" /\ state[s] = "failed" =>
            \A n \in DOMAIN log : s \notin inside[log[n].at]

Kept == \A l \in Level :
    (\A s \in inside[l] \ {Root} : KindOf[s] = "savepoint" => state[s] # "failed")
      => accepted[l] = Cardinality(WritesOf(l))

LogInv ==
  /\ MarksOfBlocks /\ LogOfOpened
  /\ OpenMarked /\ AfterMark /\ BeforeMark /\ Failed /\ Kept

\* The role is the engine's while a role window is under way, unless the
\* transaction refuses statements; a window and a savepoint know what was before.
Windows == {s \in guarded : KindOf[s] = "role" /\ state[s] \in Running}

RoleNow == ~failing => (role = "engine" <=> Windows # {})
WindowsGuarded == \A s \in Scope : KindOf[s] = "role" /\ state[s] \in {"open", "ending"} => s \in guarded
PrevRole == \A s \in Windows : prev[s] = "engine" <=> InRoleWindow(parent[s])
MarkRole == \A k \in DOMAIN marks : marks[k].role = "engine" <=> InRoleWindow(marks[k].by)
WriteRole ==
  \A n \in DOMAIN log :
    /\ log[n].role = "engine" => InRoleWindow(log[n].by)
    /\ log[n].role = "request" => ~InRoleWindow(log[n].at)

RoleInv == RoleNow /\ PrevRole /\ MarkRole /\ WriteRole

ChainsHold == Chains(Now, {}, parent, inside, guarded)
LineHolds == Line(Now, {}, inside)

\* What holds always, and what holds as long as nothing strayed.
Always ==
  /\ TurnsTypeOK /\ ChainsHold
  /\ Tree(parent, inside) /\ Nested /\ WindowsGuarded /\ GuardedOpened
  /\ MarksInOrder

Straight == LineHolds /\ LogInv /\ RoleInv

TurnsInv == Always /\ (~strayed => Straight)
-----------------------------------------------------------------------------
(* Lists.                                                                    *)

LEMMA ListIs ==
  ASSUME NEW T, NEW x \in Seq(T)
  PROVE  /\ Len(x) \in Nat /\ DOMAIN x = 1 .. Len(x)
         /\ x = <<>> <=> Len(x) = 0
         /\ \A n \in 1 .. Len(x) : x[n] \in T
         /\ x # <<>> => 1 \in DOMAIN x /\ Head(x) = x[1]
<1>1. Len(x) \in Nat /\ DOMAIN x = 1 .. Len(x) /\ \A n \in 1 .. Len(x) : x[n] \in T
  BY LenProperties
<1>2. x = <<>> <=> Len(x) = 0
  BY EmptySeq
<1>3. x # <<>> => Head(x) = x[1]
  OBVIOUS
<1>4. x # <<>> => Len(x) >= 1
  BY <1>1, <1>2
<1>5. x # <<>> => 1 \in DOMAIN x
  BY <1>1, <1>4
<1> QED
  BY <1>1, <1>2, <1>3, <1>5

LEMMA AppendIs ==
  ASSUME NEW T, NEW x \in Seq(T), NEW e \in T
  PROVE  /\ Append(x, e) \in Seq(T)
         /\ Len(Append(x, e)) = Len(x) + 1 /\ Len(x) \in Nat
         /\ Append(x, e) # <<>>
         /\ \A n \in 1 .. Len(x) : Append(x, e)[n] = x[n]
         /\ Append(x, e)[Len(x) + 1] = e
<1>1. /\ Append(x, e) \in Seq(T)
      /\ Len(Append(x, e)) = Len(x) + 1
      /\ \A n \in 1 .. Len(x) : Append(x, e)[n] = x[n]
      /\ Append(x, e)[Len(x) + 1] = e
  BY AppendProperties
<1>2. Len(x) \in Nat
  BY LenProperties
<1>3. Append(x, e) # <<>>
  BY <1>1, <1>2, ListIs
<1> QED
  BY <1>1, <1>2, <1>3

LEMMA TailIs ==
  ASSUME NEW T, NEW x \in Seq(T), x # <<>>
  PROVE  /\ Tail(x) \in Seq(T) /\ Len(x) \in Nat \ {0}
         /\ Len(Tail(x)) = Len(x) - 1
         /\ \A n \in 1 .. Len(x) - 1 : Tail(x)[n] = x[n + 1]
<1>1. /\ Tail(x) \in Seq(T) /\ Len(Tail(x)) = Len(x) - 1
      /\ \A n \in 1 .. Len(Tail(x)) : Tail(x)[n] = x[n + 1]
  BY HeadTailProperties
<1>2. Len(x) \in Nat \ {0}
  BY EmptySeq
<1> QED
  BY <1>1, <1>2

LEMMA QueueIs ==
  ASSUME NEW q \in Queues, NEW l \in Level
  PROVE  /\ q[l] \in Seq(QItem)
         /\ Len(q[l]) \in Nat /\ DOMAIN q[l] = 1 .. Len(q[l])
         /\ q[l] = <<>> <=> Len(q[l]) = 0
         /\ \A n \in DOMAIN q[l] : q[l][n] \in QItem /\ q[l][n].op \in Ops /\ q[l][n].by \in Level
         /\ q[l] # <<>> => 1 \in DOMAIN q[l] /\ Head(q[l]) = q[l][1]
<1>1. q[l] \in Seq(QItem)
  BY DEF Queues
<1>2. \A i \in QItem : i.op \in Ops /\ i.by \in Level
  BY DEF QItem
<1> QED
  BY <1>1, <1>2, ListIs

\* An item goes behind the others of its level.
LEMMA BehindIs ==
  ASSUME NEW q \in Queues, NEW k \in Level, NEW i \in QItem
  PROVE  /\ Behind(q, k, i) \in Queues
         /\ \A l \in Level : l # k => Behind(q, k, i)[l] = q[l]
         /\ Len(Behind(q, k, i)[k]) = Len(q[k]) + 1
         /\ Behind(q, k, i)[k] # <<>>
         /\ \A n \in 1 .. Len(q[k]) : Behind(q, k, i)[k][n] = q[k][n]
         /\ Behind(q, k, i)[k][Len(q[k]) + 1] = i
<1>1. q[k] \in Seq(QItem)
  BY DEF Queues
<1>2. Behind(q, k, i)[k] = Append(q[k], i)
  BY DEF Behind, Queues
<1>3. Append(q[k], i) \in Seq(QItem)
  BY <1>1, AppendIs
<1>4. Behind(q, k, i) \in Queues
  BY <1>3 DEF Behind, Queues
<1>5. \A l \in Level : l # k => Behind(q, k, i)[l] = q[l]
  BY DEF Behind, Queues
<1> QED
  BY <1>1, <1>2, <1>4, <1>5, AppendIs

\* A level's head leaves its queue.
LEMMA WithoutIs ==
  ASSUME NEW q \in Queues, NEW k \in Level, q[k] # <<>>
  PROVE  /\ Without(q, k) \in Queues
         /\ \A l \in Level : l # k => Without(q, k)[l] = q[l]
         /\ Len(q[k]) \in Nat \ {0}
         /\ Len(Without(q, k)[k]) = Len(q[k]) - 1
         /\ \A n \in 1 .. Len(q[k]) - 1 : Without(q, k)[k][n] = q[k][n + 1]
<1>1. q[k] \in Seq(QItem)
  BY DEF Queues
<1>2. Without(q, k)[k] = Tail(q[k])
  BY DEF Without, Queues
<1>3. Tail(q[k]) \in Seq(QItem)
  BY <1>1, TailIs
<1>4. Without(q, k) \in Queues
  BY <1>3 DEF Without, Queues
<1>5. \A l \in Level : l # k => Without(q, k)[l] = q[l]
  BY DEF Without, Queues
<1> QED
  BY <1>1, <1>2, <1>4, <1>5, TailIs

\* Queue q[k] without its head is r[k].
Taken(r, q, k) ==
  /\ r \in Queues
  /\ \A l \in Level : l # k => r[l] = q[l]
  /\ Len(q[k]) \in Nat \ {0} /\ DOMAIN q[k] = 1 .. Len(q[k])
  /\ DOMAIN r[k] = 1 .. Len(q[k]) - 1 /\ Len(r[k]) = Len(q[k]) - 1
  /\ \A n \in 1 .. Len(q[k]) - 1 : r[k][n] = q[k][n + 1]
  /\ r[k] = <<>> <=> Len(q[k]) = 1

LEMMA WithoutGives ==
  ASSUME NEW q \in Queues, NEW k \in Level, q[k] # <<>>
  PROVE  Taken(Without(q, k), q, k)
<1> DEFINE r == Without(q, k)
<1>1. /\ r \in Queues
      /\ \A l \in Level : l # k => r[l] = q[l]
      /\ Len(q[k]) \in Nat \ {0} /\ Len(r[k]) = Len(q[k]) - 1
      /\ \A n \in 1 .. Len(q[k]) - 1 : r[k][n] = q[k][n + 1]
  BY WithoutIs
<1> HIDE DEF r
<1>2. DOMAIN q[k] = 1 .. Len(q[k])
  BY QueueIs
<1>3. DOMAIN r[k] = 1 .. Len(r[k]) /\ (r[k] = <<>> <=> Len(r[k]) = 0)
  BY <1>1, QueueIs
<1>4. Len(r[k]) = 0 <=> Len(q[k]) = 1
  BY <1>1
<1>5. Taken(r, q, k)
  BY <1>1, <1>2, <1>3, <1>4 DEF Taken
<1> QED
  BY <1>5 DEF r

LEMMA WireIs ==
  ASSUME NEW w \in Seq(WItem)
  PROVE  /\ Len(w) \in Nat /\ DOMAIN w = 1 .. Len(w)
         /\ w = <<>> <=> Len(w) = 0
         /\ \A n \in DOMAIN w : w[n] \in WItem /\ w[n].op \in Ops /\ w[n].by \in Level /\ w[n].at \in Level
         /\ w # <<>> => 1 \in DOMAIN w /\ Head(w) = w[1]
<1>1. \A i \in WItem : i.op \in Ops /\ i.by \in Level /\ i.at \in Level
  BY DEF WItem
<1> QED
  BY <1>1, ListIs

LEMMA LevelIs == Root \in Level /\ Root \notin Scope /\ Level = Scope \union {Root} /\ Scope \subseteq Level
BY TurnsAssumption DEF Level

LEMMA FirstOpIs ==
  ASSUME NEW s \in Scope
  PROVE  /\ FirstOp(s) \in Ops /\ FirstOp(s) \in {"save", "set"}
         /\ FirstOp(s) # "scope" /\ FirstOp(s) # "write" /\ FirstOp(s) \notin EndOps
         /\ Item(FirstOp(s), s) \in QItem
         /\ Item(FirstOp(s), s).op = FirstOp(s) /\ Item(FirstOp(s), s).by = s
<1>1. FirstOp(s) \in {"save", "set"}
  BY DEF FirstOp
<1>2. Item(FirstOp(s), s) \in QItem
  BY <1>1, LevelIs DEF Item, QItem, Ops
<1> QED
  BY <1>1, <1>2 DEF Ops, EndOps, Item

-----------------------------------------------------------------------------
(* The promise chains, one step of #queue at a time.                         *)

\* Started or not, an empty queue breaks nothing.
LEMMA StartNothing ==
  ASSUME NEW c, NEW U, NEW up, NEW in, NEW g, NEW l \in Level, l \in U,
         Chains(c, U, up, in, g), c.queue[l] = <<>>
  PROVE  Chains(c, U \ {l}, up, in, g)
<1>t. c.queue \in Queues
  BY DEF Chains, ChainTypes
<1>0. DOMAIN c.queue[l] = {}
  BY <1>t, QueueIs
<1>1. ScopeItems(c, U \ {l}, up)
  BY <1>0 DEF Chains, ScopeItems
<1>2. AtTheHead(c, U \ {l}, up)
  BY DEF Chains, AtTheHead
<1>3. NothingYet(c, U \ {l})
  BY DEF Chains, NothingYet
<1>4. WireHeads(c, U \ {l})
  BY DEF Chains, WireHeads
<1> QED
  BY <1>1, <1>2, <1>3, <1>4 DEF Chains

\* A statement at the head of a queue goes on the wire.
LEMMA StartStatement ==
  ASSUME NEW c, NEW U, NEW up, NEW in, NEW g, NEW l \in Level, l \in U,
         Chains(c, U, up, in, g), c.queue[l] # <<>>, c.queue[l][1].op # "scope"
  PROVE  Chains(SendItem(c, c.queue[l][1], l), U \ {l}, up, in, g)
<1> DEFINE i == c.queue[l][1]
           e == OnWire(i.op, i.by, l)
           d == SendItem(c, i, l)
<1>t. c.queue \in Queues /\ c.wire \in Seq(WItem)
  BY DEF Chains, ChainTypes
<1>i. 1 \in DOMAIN c.queue[l] /\ i \in QItem /\ i.op \in Ops /\ i.by \in Level
  BY <1>t, QueueIs
<1>e. e \in WItem /\ e.op = i.op /\ e.by = i.by /\ e.at = l
  BY <1>i DEF OnWire, WItem
<1>d. d.wire = Append(c.wire, e) /\ d.queue = c.queue /\ d.state = c.state
  BY DEF SendItem
<1>w. /\ d.wire \in Seq(WItem) /\ Len(d.wire) = Len(c.wire) + 1 /\ Len(c.wire) \in Nat
      /\ DOMAIN c.wire = 1 .. Len(c.wire) /\ DOMAIN d.wire = 1 .. Len(d.wire)
      /\ \A n \in DOMAIN c.wire : d.wire[n] = c.wire[n]
      /\ d.wire[Len(c.wire) + 1] = e
  <2>1. /\ Append(c.wire, e) \in Seq(WItem)
        /\ Len(Append(c.wire, e)) = Len(c.wire) + 1 /\ Len(c.wire) \in Nat
        /\ \A n \in 1 .. Len(c.wire) : Append(c.wire, e)[n] = c.wire[n]
        /\ Append(c.wire, e)[Len(c.wire) + 1] = e
    BY <1>t, <1>e, AppendIs
  <2> QED
    BY <2>1, <1>d, <1>t, WireIs
<1>q. i = Item(i.op, i.by)
  BY <1>i DEF QItem, Item
<1> HIDE DEF d, e, i
<1>1. ScopeItems(d, U \ {l}, up)
  BY <1>d DEF Chains, ScopeItems, i
<1>2. AtTheHead(d, U \ {l}, up)
  BY <1>d DEF Chains, AtTheHead
<1>3. NothingYet(d, U \ {l})
  BY <1>d DEF Chains, NothingYet
<1>4. WireHeads(d, U \ {l})
  <2>1. ASSUME NEW n \in DOMAIN d.wire, n \notin DOMAIN c.wire PROVE d.wire[n] = e
    BY <2>1, <1>w
  <2>2. ASSUME NEW n \in DOMAIN c.wire
        PROVE  /\ d.wire[n].at \notin U
               /\ d.queue[d.wire[n].at] # <<>>
               /\ d.queue[d.wire[n].at][1] = Item(d.wire[n].op, d.wire[n].by)
               /\ d.wire[n].op # "scope"
    BY <2>2, <1>w, <1>d DEF Chains, WireHeads
  <2>3. /\ e.at \notin U \ {l} /\ d.queue[e.at] # <<>>
        /\ d.queue[e.at][1] = Item(e.op, e.by) /\ e.op # "scope"
    BY <1>e, <1>d, <1>q DEF i
  <2>4. ASSUME NEW n \in DOMAIN d.wire, NEW m \in DOMAIN d.wire, d.wire[n].at = d.wire[m].at
        PROVE  n = m
    <3>1. CASE n \in DOMAIN c.wire /\ m \in DOMAIN c.wire
      BY <3>1, <2>4, <1>w DEF Chains, WireHeads
    <3>2. CASE n \notin DOMAIN c.wire /\ m \notin DOMAIN c.wire
      BY <3>2, <1>w
    <3>3. CASE n \in DOMAIN c.wire /\ m \notin DOMAIN c.wire
      BY <3>3, <2>1, <2>2, <2>4, <1>e
    <3>4. CASE n \notin DOMAIN c.wire /\ m \in DOMAIN c.wire
      BY <3>4, <2>1, <2>2, <2>4, <1>e
    <3> QED
      BY <3>1, <3>2, <3>3, <3>4
  <2> QED
    BY <2>1, <2>2, <2>3, <2>4 DEF WireHeads
<1>5. ChainTypes(d)
  BY <1>d, <1>w DEF Chains, ChainTypes
<1>6. QueuedOnce(d) /\ FirstItems(d) /\ LastItems(d, g) /\ EndedOnce(d) /\ WriteItems(d, in)
  BY <1>d DEF Chains, QueuedOnce, FirstItems, LastItems, EndedOnce, WriteItems
<1>7. Chains(d, U \ {l}, up, in, g)
  BY <1>1, <1>2, <1>3, <1>4, <1>5, <1>6 DEF Chains
<1> QED
  BY <1>7 DEF d, i

\* Scope t is at the head of level l, and has not started.
NextScope(c, t, l) == c.queue[l] # <<>> /\ c.queue[l][1].op = "scope" /\ c.queue[l][1].by = t
Waits(c, t, l, up) == t \in Scope /\ up[t] = l /\ c.state[t] = "queued"

\* A scope at the head of a queue is opened and sends its first statement.
LEMMA StartScope ==
  ASSUME NEW c, NEW U, NEW up, NEW in, NEW g, NEW l \in Level, l \in U, NEW t,
         Chains(c, U, up, in, g), NextScope(c, t, l)
  PROVE  Chains(OpenScope(c, t), U \ {l}, up, in, g) /\ Waits(c, t, l, up)
<1> DEFINE f == Item(FirstOp(t), t)
           e == OnWire(FirstOp(t), t, t)
           d == OpenScope(c, t)
<1>t. c.queue \in Queues /\ c.wire \in Seq(WItem) /\ c.state \in [Scope -> States]
  BY DEF Chains, ChainTypes
<1>b. c.queue[l] # <<>> /\ c.queue[l][1].op = "scope" /\ t = c.queue[l][1].by
  BY DEF NextScope
<1>h. 1 \in DOMAIN c.queue[l] /\ c.queue[l][1] \in QItem
  BY <1>b, <1>t, QueueIs
<1>s. t \in Scope /\ up[t] = l /\ c.state[t] = "queued"
  BY <1>h, <1>b DEF Chains, ScopeItems
<1>n. c.queue[t] = <<>> /\ t \notin U /\ t # l /\ t \in Level
  <2>1. c.queue[t] = <<>> /\ t \notin U
    BY <1>s DEF Chains, NothingYet, Opened
  <2> QED
    BY <2>1, <1>s, <1>b, LevelIs
<1>f. /\ f \in QItem /\ f.op = FirstOp(t) /\ f.by = t /\ FirstOp(t) \in {"save", "set"}
      /\ f.op # "scope" /\ f.op # "write" /\ f.op \notin EndOps
  BY <1>s, FirstOpIs
<1>e. e \in WItem /\ e.op = f.op /\ e.by = f.by /\ e.at = t
  BY <1>f, <1>n DEF OnWire, WItem, QItem
<1>d. /\ d.wire = Append(c.wire, e)
      /\ d.queue = [c.queue EXCEPT ![t] = <<f>>]
      /\ d.state = [c.state EXCEPT ![t] = "opening"]
  BY DEF OpenScope
<1> HIDE DEF d, e, f
<1>q. /\ d.queue \in Queues /\ d.queue[t] = <<f>> /\ DOMAIN d.queue[t] = {1} /\ d.queue[t][1] = f
      /\ \A m \in Level : m # t => d.queue[m] = c.queue[m]
  <2>1. <<f>> \in Seq(QItem) /\ DOMAIN <<f>> = {1} /\ <<f>>[1] = f
    BY <1>f
  <2>2. d.queue[t] = <<f>> /\ \A m \in Level : m # t => d.queue[m] = c.queue[m]
    BY <1>d, <1>t, <1>n DEF Queues
  <2>3. d.queue \in Queues
    BY <1>d, <1>t, <2>1 DEF Queues
  <2> QED
    BY <2>1, <2>2, <2>3
<1>z. /\ d.state \in [Scope -> States] /\ d.state[t] = "opening"
      /\ \A m \in Scope : m # t => d.state[m] = c.state[m]
  BY <1>d, <1>t, <1>s DEF States, Running
<1>w. /\ d.wire \in Seq(WItem) /\ Len(d.wire) = Len(c.wire) + 1 /\ Len(c.wire) \in Nat
      /\ DOMAIN c.wire = 1 .. Len(c.wire) /\ DOMAIN d.wire = 1 .. Len(d.wire)
      /\ \A n \in DOMAIN c.wire : d.wire[n] = c.wire[n]
      /\ d.wire[Len(c.wire) + 1] = e
  <2>1. /\ Append(c.wire, e) \in Seq(WItem)
        /\ Len(Append(c.wire, e)) = Len(c.wire) + 1 /\ Len(c.wire) \in Nat
        /\ \A n \in 1 .. Len(c.wire) : Append(c.wire, e)[n] = c.wire[n]
        /\ Append(c.wire, e)[Len(c.wire) + 1] = e
    BY <1>t, <1>e, AppendIs
  <2> QED
    BY <2>1, <1>d, <1>t, WireIs
<1>1. ScopeItems(d, U \ {l}, up)
  <2> SUFFICES ASSUME NEW k \in Level, NEW n \in DOMAIN d.queue[k], d.queue[k][n].op = "scope"
               PROVE  /\ d.queue[k][n].by \in Scope
                      /\ up[d.queue[k][n].by] = k
                      /\ n = 1 /\ k \notin U \ {l} => d.state[d.queue[k][n].by] \in Running
                      /\ ~(n = 1 /\ k \notin U \ {l}) => d.state[d.queue[k][n].by] = "queued"
    BY DEF ScopeItems
  <2>1. k # t
    BY <1>q, <1>f
  <2>2. d.queue[k] = c.queue[k]
    BY <2>1, <1>q
  <2>3. /\ d.queue[k][n].by \in Scope
        /\ up[d.queue[k][n].by] = k
        /\ n = 1 /\ k \notin U => c.state[d.queue[k][n].by] \in Running
        /\ ~(n = 1 /\ k \notin U) => c.state[d.queue[k][n].by] = "queued"
    BY <2>2 DEF Chains, ScopeItems
  <2>4. CASE k # l
    <3>1. d.queue[k][n].by # t
      BY <2>3, <2>4, <1>s
    <3> QED
      BY <2>3, <2>4, <3>1, <1>z
  <2>5. CASE k = l /\ n = 1
    <3>1. d.queue[k][n].by = t
      BY <2>2, <2>5, <1>b
    <3> QED
      BY <2>3, <2>5, <3>1, <1>z DEF Running
  <2>6. CASE k = l /\ n # 1
    <3>1. d.queue[k][n].by # t
      <4> SUFFICES ASSUME d.queue[k][n].by = t PROVE FALSE
        OBVIOUS
      <4>1. c.queue[l][n] \in QItem
        BY <2>2, <2>6, <1>t, QueueIs
      <4>2. c.queue[l][n] = c.queue[l][1]
        BY <4>1, <1>h, <1>b, <2>2, <2>6 DEF QItem
      <4> QED
        BY <4>2, <2>2, <2>6, <1>h, <1>b DEF Chains, QueuedOnce
    <3> QED
      BY <2>3, <2>6, <3>1, <1>z
  <2> QED
    BY <2>4, <2>5, <2>6
<1>2. AtTheHead(d, U \ {l}, up)
  <2> SUFFICES ASSUME NEW s \in Scope, d.state[s] \in Running
               PROVE  /\ up[s] \notin U \ {l}
                      /\ d.queue[up[s]] # <<>>
                      /\ d.queue[up[s]][1] = Item("scope", s)
    BY DEF AtTheHead
  <2>1. CASE s = t
    <3>1. c.queue[l][1] = Item("scope", t)
      BY <1>h, <1>b DEF Item, QItem
    <3> QED
      BY <2>1, <3>1, <1>b, <1>s, <1>q, <1>n
  <2>2. CASE s # t
    <3>1. up[s] \notin U /\ c.queue[up[s]] # <<>> /\ c.queue[up[s]][1] = Item("scope", s)
      BY <2>2, <1>z DEF Chains, AtTheHead
    <3>2. up[s] # t
      BY <3>1, <1>n
    <3>3. d.queue[up[s]] = c.queue[up[s]]
      <4>1. d.queue = [c.queue EXCEPT ![t] = <<f>>]
        BY <1>d
      <4> QED
        BY <4>1, <3>2, <1>t DEF Queues
    <3> QED
      BY <3>1, <3>3
  <2> QED
    BY <2>1, <2>2
<1>3. NothingYet(d, U \ {l})
  <2>1. ASSUME NEW s \in Scope, d.state[s] \in {"unused", "queued"} PROVE d.queue[s] = <<>>
    BY <2>1, <1>z, <1>q, LevelIs DEF Chains, NothingYet
  <2>2. ASSUME NEW s \in Scope, s \in U \ {l} PROVE d.state[s] \in Opened
    BY <2>2, <1>z, <1>n DEF Chains, NothingYet
  <2> QED
    BY <2>1, <2>2 DEF NothingYet
<1>4. WireHeads(d, U \ {l})
  <2>1. ASSUME NEW n \in DOMAIN d.wire, n \notin DOMAIN c.wire PROVE d.wire[n] = e
    BY <2>1, <1>w
  <2>2. ASSUME NEW n \in DOMAIN c.wire
        PROVE  /\ d.wire[n].at \notin U
               /\ d.queue[d.wire[n].at] # <<>>
               /\ d.queue[d.wire[n].at][1] = Item(d.wire[n].op, d.wire[n].by)
               /\ d.wire[n].op # "scope"
               /\ d.wire[n].at # t
    <3>1. d.wire[n] = c.wire[n] /\ c.wire[n].at \in Level
      BY <1>w, <1>t, WireIs
    <3>2. /\ c.wire[n].at \notin U /\ c.queue[c.wire[n].at] # <<>>
          /\ c.queue[c.wire[n].at][1] = Item(c.wire[n].op, c.wire[n].by)
          /\ c.wire[n].op # "scope"
      BY DEF Chains, WireHeads
    <3>3. c.wire[n].at # t
      BY <3>2, <1>n
    <3>4. d.queue[c.wire[n].at] = c.queue[c.wire[n].at]
      BY <3>1, <3>3, <1>q
    <3> QED
      BY <3>1, <3>2, <3>3, <3>4
  <2>3. /\ e.at \notin U \ {l} /\ d.queue[e.at] # <<>>
        /\ d.queue[e.at][1] = Item(e.op, e.by) /\ e.op # "scope"
    BY <1>e, <1>q, <1>f, <1>n DEF f
  <2>4. ASSUME NEW n \in DOMAIN d.wire, NEW m \in DOMAIN d.wire, d.wire[n].at = d.wire[m].at
        PROVE  n = m
    <3>1. CASE n \in DOMAIN c.wire /\ m \in DOMAIN c.wire
      BY <3>1, <2>4, <1>w DEF Chains, WireHeads
    <3>2. CASE n \notin DOMAIN c.wire /\ m \notin DOMAIN c.wire
      BY <3>2, <1>w
    <3>3. CASE n \in DOMAIN c.wire /\ m \notin DOMAIN c.wire
      BY <3>3, <2>1, <2>2, <2>4, <1>e
    <3>4. CASE n \notin DOMAIN c.wire /\ m \in DOMAIN c.wire
      BY <3>4, <2>1, <2>2, <2>4, <1>e
    <3> QED
      BY <3>1, <3>2, <3>3, <3>4
  <2>5. \A n \in DOMAIN d.wire :
          /\ d.wire[n].at \notin U \ {l}
          /\ d.queue[d.wire[n].at] # <<>>
          /\ d.queue[d.wire[n].at][1] = Item(d.wire[n].op, d.wire[n].by)
          /\ d.wire[n].op # "scope"
    BY <2>1, <2>2, <2>3
  <2> QED
    BY <2>4, <2>5 DEF WireHeads
<1>5. ChainTypes(d)
  BY <1>z, <1>q, <1>w DEF ChainTypes
<1>6. QueuedOnce(d)
  BY <1>q DEF Chains, QueuedOnce
<1>7. FirstItems(d)
  <2>1. ASSUME NEW k \in Level, NEW n \in DOMAIN d.queue[k], d.queue[k][n].op \in {"save", "set"}
        PROVE  k \in Scope /\ d.state[k] = "opening"
    BY <2>1, <1>q, <1>z, <1>s DEF Chains, FirstItems
  <2>2. ASSUME NEW s \in Scope, d.state[s] = "opening"
        PROVE  d.queue[s] = <<Item(FirstOp(s), s)>>
    BY <2>2, <1>q, <1>z, LevelIs DEF Chains, FirstItems, f
  <2> QED
    BY <2>1, <2>2 DEF FirstItems
<1>8. LastItems(d, g)
  BY <1>q, <1>z, <1>f, <1>s DEF Chains, LastItems
<1>9. EndedOnce(d)
  BY <1>q DEF Chains, EndedOnce
<1>10. WriteItems(d, in)
  <2> SUFFICES ASSUME NEW k \in Level, NEW n \in DOMAIN d.queue[k], d.queue[k][n].op = "write"
               PROVE  /\ k \in in[d.queue[k][n].by]
                      /\ d.queue[k][n].by = Root \/ d.state[d.queue[k][n].by] \in Opened
    BY DEF WriteItems
  <2>1. k # t
    BY <1>q, <1>f
  <2>2. d.queue[k] = c.queue[k]
    BY <2>1, <1>q
  <2>3. d.queue[k][n].by \in Level
    BY <1>q, QueueIs
  <2>4. /\ k \in in[d.queue[k][n].by]
        /\ d.queue[k][n].by = Root \/ c.state[d.queue[k][n].by] \in Opened
    BY <2>2 DEF Chains, WriteItems
  <2>5. d.queue[k][n].by # t
    BY <2>4, <1>s, LevelIs DEF Opened
  <2> QED
    BY <2>3, <2>4, <2>5, <1>z, LevelIs
<1>11. Chains(d, U \ {l}, up, in, g)
  BY <1>1, <1>2, <1>3, <1>4, <1>5, <1>6, <1>7, <1>8, <1>9, <1>10 DEF Chains
<1> QED
  BY <1>11, <1>s DEF d, Waits

\* Starting a level's head leaves everything as it should be, and opens at most
\* the scope that was queued there.
LEMMA StartKeeps ==
  ASSUME NEW c, NEW U, NEW up, NEW in, NEW g, NEW l \in Level, l \in U,
         Chains(c, U, up, in, g)
  PROVE  /\ Chains(Start(c, l), U \ {l}, up, in, g)
         /\ \A s \in Scope : \/ Start(c, l).state[s] = c.state[s]
                             \/ c.state[s] = "queued" /\ Start(c, l).state[s] = "opening"
<1>t. c.queue \in Queues /\ c.state \in [Scope -> States]
  BY DEF Chains, ChainTypes
<1>h. c.queue[l] # <<>> => Head(c.queue[l]) = c.queue[l][1]
  BY <1>t, QueueIs
<1>1. CASE c.queue[l] = <<>>
  BY <1>1, StartNothing DEF Start
<1>2. CASE c.queue[l] # <<>> /\ c.queue[l][1].op # "scope"
  <2>1. Start(c, l) = SendItem(c, c.queue[l][1], l)
    BY <1>2, <1>h DEF Start
  <2>2. Start(c, l).state = c.state
    BY <2>1 DEF SendItem
  <2> QED
    BY <1>2, <2>1, <2>2, StartStatement
<1>3. CASE c.queue[l] # <<>> /\ c.queue[l][1].op = "scope"
  <2> DEFINE t == c.queue[l][1].by
  <2>1. Start(c, l) = OpenScope(c, t)
    BY <1>3, <1>h DEF Start
  <2>2. Start(c, l).state = [c.state EXCEPT ![t] = "opening"]
    BY <2>1 DEF OpenScope
  <2>3. NextScope(c, t, l)
    BY <1>3 DEF NextScope
  <2> HIDE DEF t
  <2>4. Chains(OpenScope(c, t), U \ {l}, up, in, g) /\ Waits(c, t, l, up)
    BY <2>3, StartScope
  <2> QED
    BY <2>1, <2>2, <2>4, <1>t DEF Waits
<1> QED
  BY <1>1, <1>2, <1>3

\* What may go behind the others of level k of c while its states become st: a write of
\* code nested there, a scope not yet used, or the statement that ends level k.
Fits(c, st, k, i, up, in, g) ==
  /\ i \in QItem /\ i.op \notin {"save", "set"}
  /\ k = Root \/ c.state[k] \in Opened
  /\ st \in [Scope -> States]
  /\ \A s \in Scope :
       \/ st[s] = c.state[s]
       \/ i.op = "scope" /\ s = i.by /\ c.state[s] = "unused" /\ st[s] = "queued"
       \/ i.op \in EndOps /\ s = k /\ c.state[s] = "open" /\ st[s] = "ending"
  /\ i.op = "write" => k \in in[i.by] /\ (i.by = Root \/ c.state[i.by] \in Opened)
  /\ i.op = "scope" =>
       i.by \in Scope /\ up[i.by] = k /\ c.state[i.by] = "unused" /\ st[i.by] = "queued"
  /\ i.op \in EndOps =>
       /\ i.by = k /\ k \in Scope /\ k \in g /\ st[k] = "ending"
       /\ KindOf[k] = "role" <=> i.op = "restore"
       /\ \A n \in DOMAIN c.queue[k] : c.queue[k][n].op \notin EndOps

\* The levels still to be started once level k got an item.
Due(c, U, k) == IF c.queue[k] = <<>> THEN U \union {k} ELSE U

\* A fitting item behind the others breaks nothing.
LEMMA AddItem ==
  ASSUME NEW c, NEW d, NEW U, NEW up \in [Scope -> Level], NEW in, NEW g, NEW k \in Level, NEW i,
         Chains(c, U, up, in, g), Fits(c, d.state, k, i, up, in, g),
         d.wire = c.wire, d.queue = Behind(c.queue, k, i)
  PROVE  Chains(d, Due(c, U, k), up, in, g)
<1> DEFINE V == Due(c, U, k)
           N == Len(c.queue[k])
<1>t. c.queue \in Queues /\ c.wire \in Seq(WItem) /\ c.state \in [Scope -> States]
  BY DEF Chains, ChainTypes
<1>i. i \in QItem
  BY DEF Fits
<1>q. /\ d.queue \in Queues
      /\ \A l \in Level : l # k => d.queue[l] = c.queue[l]
      /\ N \in Nat /\ DOMAIN c.queue[k] = 1 .. N
      /\ c.queue[k] = <<>> <=> N = 0
      /\ d.queue[k] # <<>> /\ DOMAIN d.queue[k] = 1 .. N + 1
      /\ \A n \in 1 .. N : d.queue[k][n] = c.queue[k][n]
      /\ d.queue[k][N + 1] = i
  <2>1. /\ d.queue \in Queues
        /\ \A l \in Level : l # k => d.queue[l] = c.queue[l]
        /\ Len(d.queue[k]) = N + 1
        /\ d.queue[k] # <<>>
        /\ \A n \in 1 .. N : d.queue[k][n] = c.queue[k][n]
        /\ d.queue[k][N + 1] = i
    BY <1>t, <1>i, BehindIs
  <2>2. N \in Nat /\ DOMAIN c.queue[k] = 1 .. N /\ (c.queue[k] = <<>> <=> N = 0)
    BY <1>t, QueueIs
  <2>3. DOMAIN d.queue[k] = 1 .. N + 1
    BY <2>1, QueueIs
  <2> QED
    BY <2>1, <2>2, <2>3
<1>v. /\ \A l \in Level : c.queue[l] # <<>> => (l \in V <=> l \in U)
      /\ N = 0 => k \in V
      /\ V \subseteq U \union {k} /\ U \subseteq V
  BY <1>q DEF Due
<1>o. ASSUME NEW l \in Level, NEW n \in DOMAIN d.queue[l]
      PROVE  \/ n \in DOMAIN c.queue[l] /\ d.queue[l][n] = c.queue[l][n] /\ c.queue[l] # <<>>
             \/ l = k /\ n = N + 1 /\ d.queue[l][n] = i
  <2>1. CASE l # k
    <3>1. d.queue[l] = c.queue[l] /\ c.queue[l] # <<>>
      BY <2>1, <1>q
    <3> QED
      BY <3>1
  <2>2. CASE l = k /\ n \in 1 .. N
    BY <2>2, <1>q
  <2>3. CASE l = k /\ n \notin 1 .. N
    BY <2>3, <1>q
  <2> QED
    BY <2>1, <2>2, <2>3
<1>h. ASSUME NEW l \in Level, c.queue[l] # <<>>
      PROVE  d.queue[l] # <<>> /\ d.queue[l][1] = c.queue[l][1]
  <2>1. CASE l # k
    BY <2>1, <1>h, <1>q
  <2>2. CASE l = k
    <3>1. 1 \in 1 .. N
      BY <2>2, <1>h, <1>q
    <3> QED
      BY <2>2, <3>1, <1>q
  <2> QED
    BY <2>1, <2>2
<1> HIDE DEF V, N
<1>1. ScopeItems(d, V, up)
  <2> SUFFICES ASSUME NEW l \in Level, NEW n \in DOMAIN d.queue[l], d.queue[l][n].op = "scope"
               PROVE  /\ d.queue[l][n].by \in Scope
                      /\ up[d.queue[l][n].by] = l
                      /\ n = 1 /\ l \notin V => d.state[d.queue[l][n].by] \in Running
                      /\ ~(n = 1 /\ l \notin V) => d.state[d.queue[l][n].by] = "queued"
    BY DEF ScopeItems
  <2>1. CASE n \in DOMAIN c.queue[l] /\ d.queue[l][n] = c.queue[l][n] /\ c.queue[l] # <<>>
    <3> DEFINE s == c.queue[l][n].by
    <3>1. /\ s \in Scope /\ up[s] = l
          /\ n = 1 /\ l \notin U => c.state[s] \in Running
          /\ ~(n = 1 /\ l \notin U) => c.state[s] = "queued"
      BY <2>1 DEF Chains, ScopeItems
    <3>2. \/ d.state[s] = c.state[s]
          \/ c.state[s] = "unused"
          \/ c.state[s] = "open" /\ d.state[s] = "ending"
      BY <3>1 DEF Fits
    <3> HIDE DEF s
    <3>3. c.state[s] \in Running => d.state[s] \in Running
      BY <3>2 DEF Running
    <3>4. c.state[s] = "queued" => d.state[s] = "queued"
      BY <3>2
    <3>5. l \in V <=> l \in U
      BY <2>1, <1>v
    <3> QED
      BY <2>1, <3>1, <3>3, <3>4, <3>5 DEF s
  <2>2. CASE l = k /\ n = N + 1 /\ d.queue[l][n] = i
    <3>1. i.by \in Scope /\ up[i.by] = k /\ d.state[i.by] = "queued"
      BY <2>2 DEF Fits
    <3>2. n = 1 => l \in V
      BY <2>2, <1>v, <1>q
    <3> QED
      BY <2>2, <3>1, <3>2
  <2> QED
    BY <2>1, <2>2, <1>o
<1>2. QueuedOnce(d)
  <2> SUFFICES ASSUME NEW l \in Level, NEW n \in DOMAIN d.queue[l], NEW m \in DOMAIN d.queue[l],
                      d.queue[l][n].op = "scope", d.queue[l][m] = d.queue[l][n]
               PROVE  n = m
    BY DEF QueuedOnce
  <2>1. CASE /\ n \in DOMAIN c.queue[l] /\ d.queue[l][n] = c.queue[l][n]
             /\ m \in DOMAIN c.queue[l] /\ d.queue[l][m] = c.queue[l][m]
    BY <2>1 DEF Chains, QueuedOnce
  <2>2. ASSUME NEW x \in DOMAIN c.queue[k], c.queue[k][x] = i, i.op = "scope" PROVE FALSE
    <3>1. c.state[i.by] \in Running \/ c.state[i.by] = "queued"
      BY <2>2 DEF Chains, ScopeItems
    <3>2. c.state[i.by] = "unused"
      BY <2>2 DEF Fits
    <3> QED
      BY <3>1, <3>2 DEF Running
  <2>3. CASE ~(n \in DOMAIN c.queue[l] /\ d.queue[l][n] = c.queue[l][n])
    <3>1. l = k /\ n = N + 1 /\ d.queue[l][n] = i
      BY <2>3, <1>o
    <3>2. m = N + 1
      BY <3>1, <2>2, <1>o
    <3> QED
      BY <3>1, <3>2
  <2>4. CASE ~(m \in DOMAIN c.queue[l] /\ d.queue[l][m] = c.queue[l][m])
    <3>1. l = k /\ m = N + 1 /\ d.queue[l][m] = i
      BY <2>4, <1>o
    <3>2. n = N + 1
      BY <3>1, <2>2, <1>o
    <3> QED
      BY <3>1, <3>2
  <2> QED
    BY <2>1, <2>3, <2>4
<1>3. AtTheHead(d, V, up)
  <2> SUFFICES ASSUME NEW s \in Scope, d.state[s] \in Running
               PROVE  /\ up[s] \notin V
                      /\ d.queue[up[s]] # <<>>
                      /\ d.queue[up[s]][1] = Item("scope", s)
    BY DEF AtTheHead
  <2>1. c.state[s] \in Running
    BY DEF Fits, Running
  <2>2. up[s] \notin U /\ c.queue[up[s]] # <<>> /\ c.queue[up[s]][1] = Item("scope", s)
    BY <2>1 DEF Chains, AtTheHead
  <2>3. up[s] \in Level
    OBVIOUS
  <2> QED
    BY <2>2, <2>3, <1>h, <1>v
<1>4. FirstItems(d)
  <2>1. ASSUME NEW l \in Level, NEW n \in DOMAIN d.queue[l], d.queue[l][n].op \in {"save", "set"}
        PROVE  l \in Scope /\ d.state[l] = "opening"
    <3>1. n \in DOMAIN c.queue[l] /\ d.queue[l][n] = c.queue[l][n]
      BY <2>1, <1>o DEF Fits
    <3>2. l \in Scope /\ c.state[l] = "opening"
      BY <2>1, <3>1 DEF Chains, FirstItems
    <3> QED
      BY <3>2 DEF Fits
  <2>2. ASSUME NEW s \in Scope, d.state[s] = "opening"
        PROVE  d.queue[s] = <<Item(FirstOp(s), s)>>
    <3>1. c.state[s] = "opening"
      BY <2>2 DEF Fits
    <3>2. s # k /\ s \in Level
      BY <3>1, LevelIs DEF Fits, Opened
    <3> QED
      BY <3>1, <3>2, <1>q DEF Chains, FirstItems
  <2> QED
    BY <2>1, <2>2 DEF FirstItems
<1>5. LastItems(d, g)
  <2> SUFFICES ASSUME NEW l \in Level, NEW n \in DOMAIN d.queue[l], d.queue[l][n].op \in EndOps
               PROVE  /\ d.queue[l][n].by = l
                      /\ l \in Scope /\ d.state[l] = "ending" /\ l \in g
                      /\ KindOf[l] = "role" <=> d.queue[l][n].op = "restore"
    BY DEF LastItems
  <2>1. CASE n \in DOMAIN c.queue[l] /\ d.queue[l][n] = c.queue[l][n]
    <3>1. /\ c.queue[l][n].by = l
          /\ l \in Scope /\ c.state[l] = "ending" /\ l \in g
          /\ KindOf[l] = "role" <=> c.queue[l][n].op = "restore"
      BY <2>1 DEF Chains, LastItems
    <3>2. d.state[l] = "ending"
      BY <3>1 DEF Fits
    <3> QED
      BY <2>1, <3>1, <3>2
  <2>2. CASE l = k /\ d.queue[l][n] = i
    BY <2>2 DEF Fits
  <2> QED
    BY <2>1, <2>2, <1>o
<1>6. EndedOnce(d)
  <2> SUFFICES ASSUME NEW l \in Level, NEW n \in DOMAIN d.queue[l], NEW m \in DOMAIN d.queue[l],
                      d.queue[l][n].op \in EndOps, d.queue[l][m].op \in EndOps
               PROVE  n = m
    BY DEF EndedOnce
  <2>1. CASE /\ n \in DOMAIN c.queue[l] /\ d.queue[l][n] = c.queue[l][n]
             /\ m \in DOMAIN c.queue[l] /\ d.queue[l][m] = c.queue[l][m]
    BY <2>1 DEF Chains, EndedOnce
  <2>2. ASSUME i.op \in EndOps PROVE \A x \in DOMAIN c.queue[k] : c.queue[k][x].op \notin EndOps
    BY <2>2 DEF Fits
  <2> QED
    BY <2>1, <2>2, <1>o
<1>7. WriteItems(d, in)
  <2> SUFFICES ASSUME NEW l \in Level, NEW n \in DOMAIN d.queue[l], d.queue[l][n].op = "write"
               PROVE  /\ l \in in[d.queue[l][n].by]
                      /\ d.queue[l][n].by = Root \/ d.state[d.queue[l][n].by] \in Opened
    BY DEF WriteItems
  <2> DEFINE b == d.queue[l][n].by
  <2>1. b \in Level
    BY <1>q, QueueIs
  <2>2. l \in in[b] /\ (b = Root \/ c.state[b] \in Opened)
    <3>1. CASE n \in DOMAIN c.queue[l] /\ d.queue[l][n] = c.queue[l][n]
      BY <3>1 DEF Chains, WriteItems
    <3>2. CASE l = k /\ d.queue[l][n] = i
      BY <3>2 DEF Fits
    <3> QED
      BY <3>1, <3>2, <1>o
  <2> HIDE DEF b
  <2>3. b # Root => d.state[b] \in Opened
    BY <2>1, <2>2, LevelIs DEF Fits, Opened
  <2> QED
    BY <2>2, <2>3 DEF b
<1>8. NothingYet(d, V)
  <2>1. ASSUME NEW s \in Scope, d.state[s] \in {"unused", "queued"} PROVE d.queue[s] = <<>>
    <3>1. c.state[s] \in {"unused", "queued"}
      BY <2>1 DEF Fits
    <3>2. s # k /\ s \in Level
      BY <3>1, LevelIs DEF Fits, Opened
    <3> QED
      BY <3>1, <3>2, <1>q DEF Chains, NothingYet
  <2>2. ASSUME NEW s \in Scope, s \in V PROVE d.state[s] \in Opened
    <3>1. c.state[s] \in Opened
      BY <2>2, <1>v, LevelIs DEF Chains, NothingYet, Fits
    <3> QED
      BY <3>1 DEF Fits, Opened
  <2> QED
    BY <2>1, <2>2 DEF NothingYet
<1>9. WireHeads(d, V)
  <2>1. ASSUME NEW n \in DOMAIN d.wire
        PROVE  /\ d.wire[n].at \notin V
               /\ d.queue[d.wire[n].at] # <<>>
               /\ d.queue[d.wire[n].at][1] = Item(d.wire[n].op, d.wire[n].by)
               /\ d.wire[n].op # "scope"
    <3>1. /\ c.wire[n].at \notin U /\ c.queue[c.wire[n].at] # <<>>
          /\ c.queue[c.wire[n].at][1] = Item(c.wire[n].op, c.wire[n].by)
          /\ c.wire[n].op # "scope"
      BY DEF Chains, WireHeads
    <3>2. c.wire[n].at \in Level
      BY <1>t, WireIs
    <3> QED
      BY <3>1, <3>2, <1>h, <1>v
  <2>2. \A n, m \in DOMAIN d.wire : d.wire[n].at = d.wire[m].at => n = m
    BY DEF Chains, WireHeads
  <2> QED
    BY <2>1, <2>2 DEF WireHeads
<1>10. ChainTypes(d)
  BY <1>t, <1>q DEF ChainTypes, Fits
<1> QED
  BY <1>1, <1>2, <1>3, <1>4, <1>5, <1>6, <1>7, <1>8, <1>9, <1>10 DEF Chains, V

\* Where a scope nobody used yet is nested does not matter so far.
LEMMA Renest ==
  ASSUME NEW c, NEW U, NEW up, NEW in, NEW g, NEW up2, NEW in2, NEW s \in Scope,
         Chains(c, U, up, in, g), c.state[s] = "unused",
         \A x \in Scope : x # s => up2[x] = up[x],
         \A l \in Level : l # s => in2[l] = in[l]
  PROVE  Chains(c, U, up2, in2, g)
<1>t. c.queue \in Queues
  BY DEF Chains, ChainTypes
<1>1. ScopeItems(c, U, up2)
  <2> SUFFICES ASSUME NEW l \in Level, NEW n \in DOMAIN c.queue[l], c.queue[l][n].op = "scope"
               PROVE  /\ c.queue[l][n].by \in Scope
                      /\ up2[c.queue[l][n].by] = l
                      /\ n = 1 /\ l \notin U => c.state[c.queue[l][n].by] \in Running
                      /\ ~(n = 1 /\ l \notin U) => c.state[c.queue[l][n].by] = "queued"
    BY DEF ScopeItems
  <2>1. /\ c.queue[l][n].by \in Scope
        /\ up[c.queue[l][n].by] = l
        /\ n = 1 /\ l \notin U => c.state[c.queue[l][n].by] \in Running
        /\ ~(n = 1 /\ l \notin U) => c.state[c.queue[l][n].by] = "queued"
    BY DEF Chains, ScopeItems
  <2>2. c.queue[l][n].by # s
    BY <2>1 DEF Running
  <2> QED
    BY <2>1, <2>2
<1>2. AtTheHead(c, U, up2)
  <2> SUFFICES ASSUME NEW x \in Scope, c.state[x] \in Running
               PROVE  /\ up2[x] \notin U
                      /\ c.queue[up2[x]] # <<>>
                      /\ c.queue[up2[x]][1] = Item("scope", x)
    BY DEF AtTheHead
  <2>1. x # s
    BY DEF Running
  <2> QED
    BY <2>1 DEF Chains, AtTheHead
<1>3. WriteItems(c, in2)
  <2> SUFFICES ASSUME NEW l \in Level, NEW n \in DOMAIN c.queue[l], c.queue[l][n].op = "write"
               PROVE  /\ l \in in2[c.queue[l][n].by]
                      /\ c.queue[l][n].by = Root \/ c.state[c.queue[l][n].by] \in Opened
    BY DEF WriteItems
  <2>1. /\ l \in in[c.queue[l][n].by]
        /\ c.queue[l][n].by = Root \/ c.state[c.queue[l][n].by] \in Opened
    BY DEF Chains, WriteItems
  <2>2. c.queue[l][n].by # s
    BY <2>1, LevelIs DEF Opened
  <2>3. c.queue[l][n].by \in Level
    BY <1>t, QueueIs
  <2> QED
    BY <2>1, <2>2, <2>3
<1> QED
  BY <1>1, <1>2, <1>3 DEF Chains

LEMMA Reguard ==
  ASSUME NEW c, NEW U, NEW up, NEW in, NEW g, NEW g2, Chains(c, U, up, in, g), g \subseteq g2
  PROVE  Chains(c, U, up, in, g2)
<1>1. LastItems(c, g2)
  BY DEF Chains, LastItems
<1> QED
  BY <1>1 DEF Chains

\* The level the statement at the head of the wire was sent from.
SentFrom(c) == Head(c.wire).at

\* What that statement is.
LEMMA HeadIs ==
  ASSUME NEW c, NEW up, NEW in, NEW g, Chains(c, {}, up, in, g), c.wire # <<>>
  PROVE  LET e == Head(c.wire) IN
         /\ 1 \in DOMAIN c.wire /\ e = c.wire[1]
         /\ e.op \in Ops \ {"scope"} /\ e.by \in Level /\ e.at \in Level
         /\ c.queue[e.at] # <<>> /\ 1 \in DOMAIN c.queue[e.at]
         /\ c.queue[e.at][1].op = e.op /\ c.queue[e.at][1].by = e.by
         /\ e.op \in {"save", "set"} =>
              /\ e.by = e.at /\ e.by \in Scope /\ e.op = FirstOp(e.by)
              /\ c.state[e.by] = "opening" /\ DOMAIN c.queue[e.at] = {1}
         /\ e.op \in EndOps =>
              /\ e.by = e.at /\ e.by \in Scope /\ e.by \in g /\ c.state[e.by] = "ending"
              /\ KindOf[e.by] = "role" <=> e.op = "restore"
         /\ e.op = "write" =>
              /\ e.at \in in[e.by]
              /\ e.by = Root \/ c.state[e.by] \in Opened
         /\ e.op \notin {"save", "set"} => e.at = Root \/ c.state[e.at] # "opening"
<1> DEFINE e == Head(c.wire)
           k == e.at
<1>t. c.queue \in Queues /\ c.wire \in Seq(WItem)
  BY DEF Chains, ChainTypes
<1>1. 1 \in DOMAIN c.wire /\ e = c.wire[1] /\ e.op \in Ops /\ e.by \in Level /\ k \in Level
  BY <1>t, WireIs
<1>2. c.queue[k] # <<>> /\ c.queue[k][1] = Item(e.op, e.by) /\ e.op # "scope"
  BY <1>1 DEF Chains, WireHeads
<1>3. 1 \in DOMAIN c.queue[k]
  BY <1>1, <1>2, <1>t, QueueIs
<1>4. c.queue[k][1].op = e.op /\ c.queue[k][1].by = e.by
  BY <1>2 DEF Item
<1> HIDE DEF e, k
<1>5. ASSUME NEW s \in Scope, c.state[s] = "opening"
      PROVE  /\ DOMAIN c.queue[s] = {1} /\ c.queue[s][1].op = FirstOp(s) /\ c.queue[s][1].by = s
             /\ FirstOp(s) \in {"save", "set"}
  <2>1. c.queue[s] = <<Item(FirstOp(s), s)>>
    BY <1>5 DEF Chains, FirstItems
  <2>2. DOMAIN c.queue[s] = {1} /\ c.queue[s][1] = Item(FirstOp(s), s)
    BY <2>1
  <2> QED
    BY <2>2, FirstOpIs
<1>6. e.op \in {"save", "set"} =>
        /\ e.by = k /\ e.by \in Scope /\ e.op = FirstOp(e.by)
        /\ c.state[e.by] = "opening" /\ DOMAIN c.queue[k] = {1}
  <2> SUFFICES ASSUME e.op \in {"save", "set"}
               PROVE  /\ e.by = k /\ e.by \in Scope /\ e.op = FirstOp(e.by)
                      /\ c.state[e.by] = "opening" /\ DOMAIN c.queue[k] = {1}
    OBVIOUS
  <2>1. k \in Scope /\ c.state[k] = "opening"
    BY <1>1, <1>3, <1>4 DEF Chains, FirstItems
  <2> QED
    BY <2>1, <1>4, <1>5
<1>7. e.op \in EndOps =>
        /\ e.by = k /\ e.by \in Scope /\ e.by \in g /\ c.state[e.by] = "ending"
        /\ KindOf[e.by] = "role" <=> e.op = "restore"
  BY <1>1, <1>3, <1>4 DEF Chains, LastItems
<1>8. e.op = "write" => k \in in[e.by] /\ (e.by = Root \/ c.state[e.by] \in Opened)
  BY <1>1, <1>3, <1>4 DEF Chains, WriteItems
<1>9. e.op \notin {"save", "set"} => k = Root \/ c.state[k] # "opening"
  BY <1>1, <1>4, <1>5, LevelIs
<1> QED
  BY <1>1, <1>2, <1>3, <1>4, <1>6, <1>7, <1>8, <1>9 DEF e, k

\* The statement at the head of the wire leaves it and the queue it was sent from;
\* if it is a scope's first, the scope is open.
LEMMA PopItem ==
  ASSUME NEW c, NEW d, NEW up \in [Scope -> Level], NEW in, NEW g, NEW k,
         Chains(c, {}, up, in, g), c.wire # <<>>, k = SentFrom(c),
         d.wire = Tail(c.wire), d.queue = Without(c.queue, k),
         d.state \in [Scope -> States],
         \A s \in Scope : \/ d.state[s] = c.state[s]
                          \/ /\ Head(c.wire).op \in {"save", "set"}
                             /\ s = Head(c.wire).by /\ d.state[s] = "open",
         Head(c.wire).op \in {"save", "set"} => d.state[Head(c.wire).by] = "open"
  PROVE  Chains(d, {k}, up, in, g)
<1> DEFINE e == Head(c.wire)
           N == Len(c.queue[k])
<1>t. c.queue \in Queues /\ c.wire \in Seq(WItem) /\ c.state \in [Scope -> States]
  BY DEF Chains, ChainTypes
<1>e. /\ 1 \in DOMAIN c.wire /\ e = c.wire[1] /\ k \in Level
      /\ e.op # "scope" /\ c.queue[k] # <<>> /\ c.queue[k][1].op = e.op
      /\ e.op \in {"save", "set"} =>
           e.by = k /\ k \in Scope /\ c.state[k] = "opening" /\ DOMAIN c.queue[k] = {1}
      /\ e.op \notin {"save", "set"} => k = Root \/ c.state[k] # "opening"
  BY HeadIs DEF SentFrom
<1>z. \A s \in Scope : \/ d.state[s] = c.state[s] /\ ~(s = k /\ c.state[s] = "opening")
                       \/ s = k /\ c.state[s] = "opening" /\ d.state[s] = "open"
  BY <1>e, LevelIs
<1>q. /\ d.queue \in Queues
      /\ \A l \in Level : l # k => d.queue[l] = c.queue[l]
      /\ N \in Nat \ {0} /\ DOMAIN c.queue[k] = 1 .. N
      /\ DOMAIN d.queue[k] = 1 .. N - 1
      /\ \A n \in 1 .. N - 1 : d.queue[k][n] = c.queue[k][n + 1]
  <2>1. k \in Level /\ c.queue[k] # <<>>
    BY <1>e
  <2>2. Taken(Without(c.queue, k), c.queue, k)
    BY <2>1, <1>t, WithoutGives
  <2>3. Taken(d.queue, c.queue, k)
    BY <2>2
  <2> QED
    BY <2>3 DEF Taken
<1>w. /\ d.wire \in Seq(WItem) /\ DOMAIN c.wire = 1 .. Len(c.wire) /\ Len(c.wire) \in Nat \ {0}
      /\ DOMAIN d.wire = 1 .. Len(c.wire) - 1
      /\ \A n \in 1 .. Len(c.wire) - 1 : d.wire[n] = c.wire[n + 1]
  <2>1. /\ Tail(c.wire) \in Seq(WItem) /\ Len(c.wire) \in Nat \ {0}
        /\ Len(Tail(c.wire)) = Len(c.wire) - 1
        /\ \A n \in 1 .. Len(c.wire) - 1 : Tail(c.wire)[n] = c.wire[n + 1]
    BY <1>t, TailIs
  <2> QED
    BY <2>1, <1>t, WireIs
<1> HIDE DEF e, N
<1>o. ASSUME NEW n \in DOMAIN d.queue[k]
      PROVE  /\ n + 1 \in DOMAIN c.queue[k] /\ n + 1 # 1
             /\ d.queue[k][n] = c.queue[k][n + 1]
             /\ e.op \notin {"save", "set"}
  <2>1. n \in 1 .. N - 1 /\ N \in Nat
    BY <1>q
  <2>2. n + 1 \in 1 .. N /\ n + 1 # 1
    BY <2>1
  <2>3. e.op \notin {"save", "set"}
    <3>1. SUFFICES ASSUME DOMAIN c.queue[k] = {1} PROVE FALSE
      BY <1>e
    <3>2. n + 1 \in {1}
      BY <2>2, <1>q, <3>1
    <3> QED
      BY <3>2, <2>2
  <2> QED
    BY <2>1, <2>2, <2>3, <1>q
<1>a. ASSUME NEW l \in Level, NEW n \in DOMAIN d.queue[l]
      PROVE  \E m \in DOMAIN c.queue[l] : d.queue[l][n] = c.queue[l][m]
  <2>1. CASE l # k
    <3>1. d.queue[l] = c.queue[l]
      BY <2>1, <1>q
    <3> QED
      BY <3>1
  <2>2. CASE l = k
    <3>1. n + 1 \in DOMAIN c.queue[l] /\ d.queue[l][n] = c.queue[l][n + 1]
      BY <2>2, <1>o
    <3> QED
      BY <3>1
  <2> QED
    BY <2>1, <2>2
<1>1. ScopeItems(d, {k}, up)
  <2> SUFFICES ASSUME NEW l \in Level, NEW n \in DOMAIN d.queue[l], d.queue[l][n].op = "scope"
               PROVE  /\ d.queue[l][n].by \in Scope
                      /\ up[d.queue[l][n].by] = l
                      /\ n = 1 /\ l \notin {k} => d.state[d.queue[l][n].by] \in Running
                      /\ ~(n = 1 /\ l \notin {k}) => d.state[d.queue[l][n].by] = "queued"
    BY DEF ScopeItems
  <2>1. CASE l # k
    <3>1. d.queue[l] = c.queue[l]
      BY <2>1, <1>q
    <3>2. /\ d.queue[l][n].by \in Scope
          /\ up[d.queue[l][n].by] = l
          /\ n = 1 => c.state[d.queue[l][n].by] \in Running
          /\ n # 1 => c.state[d.queue[l][n].by] = "queued"
      BY <3>1 DEF Chains, ScopeItems
    <3> QED
      BY <2>1, <3>2, <1>z DEF Running
  <2>2. CASE l = k
    <3>1. n + 1 \in DOMAIN c.queue[k] /\ n + 1 # 1 /\ d.queue[k][n] = c.queue[k][n + 1]
      BY <2>2, <1>o
    <3>2. /\ d.queue[k][n].by \in Scope
          /\ up[d.queue[k][n].by] = k
          /\ c.state[d.queue[k][n].by] = "queued"
      <4>1. \A m \in DOMAIN c.queue[k] :
              c.queue[k][m].op = "scope" /\ m # 1 =>
                /\ c.queue[k][m].by \in Scope
                /\ up[c.queue[k][m].by] = k
                /\ c.state[c.queue[k][m].by] = "queued"
        BY <1>e DEF Chains, ScopeItems
      <4> QED
        BY <2>2, <3>1, <4>1
    <3> QED
      BY <2>2, <3>2, <1>z
  <2> QED
    BY <2>1, <2>2
<1>2. QueuedOnce(d)
  <2> SUFFICES ASSUME NEW l \in Level, NEW n \in DOMAIN d.queue[l], NEW m \in DOMAIN d.queue[l],
                      d.queue[l][n].op = "scope", d.queue[l][m] = d.queue[l][n]
               PROVE  n = m
    BY DEF QueuedOnce
  <2>1. CASE l # k
    BY <2>1, <1>q DEF Chains, QueuedOnce
  <2>2. CASE l = k
    <3>1. n + 1 = m + 1
      BY <2>2, <1>o DEF Chains, QueuedOnce
    <3> QED
      BY <2>2, <3>1, <1>q
  <2> QED
    BY <2>1, <2>2
<1>3. AtTheHead(d, {k}, up)
  <2> SUFFICES ASSUME NEW s \in Scope, d.state[s] \in Running
               PROVE  /\ up[s] \notin {k}
                      /\ d.queue[up[s]] # <<>>
                      /\ d.queue[up[s]][1] = Item("scope", s)
    BY DEF AtTheHead
  <2>1. c.state[s] \in Running
    BY <1>z DEF Running
  <2>2. c.queue[up[s]] # <<>> /\ c.queue[up[s]][1] = Item("scope", s)
    BY <2>1 DEF Chains, AtTheHead
  <2>3. up[s] # k
    BY <2>2, <1>e DEF Item
  <2> QED
    BY <2>2, <2>3, <1>q
<1>4. FirstItems(d)
  <2>1. ASSUME NEW l \in Level, NEW n \in DOMAIN d.queue[l], d.queue[l][n].op \in {"save", "set"}
        PROVE  l \in Scope /\ d.state[l] = "opening"
    <3>1. l # k
      <4> SUFFICES ASSUME l = k PROVE FALSE
        OBVIOUS
      <4>1. n + 1 \in DOMAIN c.queue[k] /\ d.queue[k][n] = c.queue[k][n + 1] /\ e.op \notin {"save", "set"}
        BY <1>o
      <4>2. k \in Scope /\ c.state[k] = "opening"
        BY <4>1, <2>1 DEF Chains, FirstItems
      <4> QED
        BY <4>1, <4>2, <1>e, LevelIs
    <3>2. l \in Scope /\ c.state[l] = "opening"
      BY <2>1, <3>1, <1>q DEF Chains, FirstItems
    <3> QED
      BY <3>1, <3>2, <1>z
  <2>2. ASSUME NEW s \in Scope, d.state[s] = "opening"
        PROVE  d.queue[s] = <<Item(FirstOp(s), s)>>
    <3>1. c.state[s] = "opening" /\ s # k
      BY <2>2, <1>z
    <3> QED
      BY <3>1, <1>q, LevelIs DEF Chains, FirstItems
  <2> QED
    BY <2>1, <2>2 DEF FirstItems
<1>5. LastItems(d, g)
  <2> SUFFICES ASSUME NEW l \in Level, NEW n \in DOMAIN d.queue[l], d.queue[l][n].op \in EndOps
               PROVE  /\ d.queue[l][n].by = l
                      /\ l \in Scope /\ d.state[l] = "ending" /\ l \in g
                      /\ KindOf[l] = "role" <=> d.queue[l][n].op = "restore"
    BY DEF LastItems
  <2>1. PICK m \in DOMAIN c.queue[l] : d.queue[l][n] = c.queue[l][m]
    BY <1>a
  <2>2. /\ d.queue[l][n].by = l
        /\ l \in Scope /\ c.state[l] = "ending" /\ l \in g
        /\ KindOf[l] = "role" <=> d.queue[l][n].op = "restore"
    BY <2>1 DEF Chains, LastItems
  <2> QED
    BY <2>2, <1>z
<1>6. EndedOnce(d)
  <2> SUFFICES ASSUME NEW l \in Level, NEW n \in DOMAIN d.queue[l], NEW m \in DOMAIN d.queue[l],
                      d.queue[l][n].op \in EndOps, d.queue[l][m].op \in EndOps
               PROVE  n = m
    BY DEF EndedOnce
  <2>1. CASE l # k
    BY <2>1, <1>q DEF Chains, EndedOnce
  <2>2. CASE l = k
    <3>1. n + 1 = m + 1
      BY <2>2, <1>o DEF Chains, EndedOnce
    <3> QED
      BY <2>2, <3>1, <1>q
  <2> QED
    BY <2>1, <2>2
<1>7. WriteItems(d, in)
  <2> SUFFICES ASSUME NEW l \in Level, NEW n \in DOMAIN d.queue[l], d.queue[l][n].op = "write"
               PROVE  /\ l \in in[d.queue[l][n].by]
                      /\ d.queue[l][n].by = Root \/ d.state[d.queue[l][n].by] \in Opened
    BY DEF WriteItems
  <2> DEFINE b == d.queue[l][n].by
  <2>1. b \in Level
    BY <1>q, QueueIs
  <2>2. PICK m \in DOMAIN c.queue[l] : d.queue[l][n] = c.queue[l][m]
    BY <1>a
  <2>3. l \in in[b] /\ (b = Root \/ c.state[b] \in Opened)
    BY <2>2 DEF Chains, WriteItems
  <2> HIDE DEF b
  <2>4. b # Root => d.state[b] \in Opened
    BY <2>1, <2>3, <1>z, LevelIs DEF Opened
  <2> QED
    BY <2>3, <2>4 DEF b
<1>8. NothingYet(d, {k})
  <2>1. ASSUME NEW s \in Scope, d.state[s] \in {"unused", "queued"} PROVE d.queue[s] = <<>>
    <3>1. c.state[s] \in {"unused", "queued"}
      BY <2>1, <1>z
    <3>2. c.queue[s] = <<>>
      BY <3>1 DEF Chains, NothingYet
    <3>3. s # k /\ s \in Level
      BY <3>2, <1>e, LevelIs
    <3> QED
      BY <3>2, <3>3, <1>q
  <2>2. ASSUME NEW s \in Scope, s \in {k} PROVE d.state[s] \in Opened
    <3>1. c.state[s] \notin {"unused", "queued"}
      BY <2>2, <1>e DEF Chains, NothingYet
    <3>2. d.state[s] \in States
      OBVIOUS
    <3> QED
      BY <2>2, <3>1, <3>2, <1>z DEF States, Running, Opened
  <2> QED
    BY <2>1, <2>2 DEF NothingYet
<1>9. WireHeads(d, {k})
  <2>1. ASSUME NEW n \in DOMAIN d.wire
        PROVE  /\ n + 1 \in DOMAIN c.wire /\ d.wire[n] = c.wire[n + 1]
               /\ c.wire[n + 1].at # k /\ c.wire[n + 1].at \in Level
    <3>1. n + 1 \in DOMAIN c.wire /\ d.wire[n] = c.wire[n + 1] /\ n + 1 # 1
      BY <1>w
    <3>2. c.wire[1].at = k /\ 1 \in DOMAIN c.wire
      BY <1>e DEF SentFrom, e
    <3>3. c.wire[n + 1].at # c.wire[1].at
      BY <3>1, <3>2 DEF Chains, WireHeads
    <3> QED
      BY <3>1, <3>2, <3>3, <1>t, WireIs
  <2>2. ASSUME NEW n \in DOMAIN d.wire
        PROVE  /\ d.wire[n].at \notin {k}
               /\ d.queue[d.wire[n].at] # <<>>
               /\ d.queue[d.wire[n].at][1] = Item(d.wire[n].op, d.wire[n].by)
               /\ d.wire[n].op # "scope"
    <3> DEFINE x == c.wire[n + 1]
    <3>1. n + 1 \in DOMAIN c.wire /\ d.wire[n] = x /\ x.at # k /\ x.at \in Level
      BY <2>1
    <3>2. /\ c.queue[x.at] # <<>>
          /\ c.queue[x.at][1] = Item(x.op, x.by)
          /\ x.op # "scope"
      BY <3>1 DEF Chains, WireHeads
    <3> HIDE DEF x
    <3>3. d.queue[x.at] = c.queue[x.at]
      BY <3>1, <1>q
    <3> QED
      BY <3>1, <3>2, <3>3
  <2>3. ASSUME NEW n \in DOMAIN d.wire, NEW m \in DOMAIN d.wire, d.wire[n].at = d.wire[m].at
        PROVE  n = m
    <3>1. n + 1 = m + 1
      BY <2>1, <2>3 DEF Chains, WireHeads
    <3> QED
      BY <3>1, <1>w
  <2> QED
    BY <2>2, <2>3 DEF WireHeads
<1>10. ChainTypes(d)
  BY <1>w, <1>q DEF ChainTypes
<1> QED
  BY <1>1, <1>2, <1>3, <1>4, <1>5, <1>6, <1>7, <1>8, <1>9, <1>10 DEF Chains

\* A scope whose level has nothing that ends it left is closed, and leaves the
\* queue it was in.
LEMMA CloseKeeps ==
  ASSUME NEW c, NEW d, NEW U, NEW up \in [Scope -> Level], NEW in, NEW g, NEW s \in Scope, NEW as,
         Chains(c, U, up, in, g), c.state[s] \in {"open", "ending"}, as \in {"released", "failed"},
         up[s] # s,
         \A n \in DOMAIN c.queue[s] : c.queue[s][n].op \notin EndOps,
         d.wire = c.wire, d.queue = Without(c.queue, up[s]),
         d.state = [c.state EXCEPT ![s] = as]
  PROVE  Chains(d, U \union {up[s]}, up, in, g)
<1> DEFINE p == up[s]
           V == U \union {p}
           N == Len(c.queue[p])
<1>t. c.queue \in Queues /\ c.wire \in Seq(WItem) /\ c.state \in [Scope -> States]
  BY DEF Chains, ChainTypes
<1>p. p \in Level /\ p # s /\ c.state[s] \in Running
  BY DEF Running
<1>h. p \notin U /\ c.queue[p] # <<>> /\ c.queue[p][1] = Item("scope", s)
  BY <1>p DEF Chains, AtTheHead
<1>z. /\ d.state \in [Scope -> States] /\ d.state[s] = as
      /\ \A x \in Scope : x # s => d.state[x] = c.state[x]
  BY <1>t DEF States, Opened
<1>q. /\ d.queue \in Queues
      /\ \A l \in Level : l # p => d.queue[l] = c.queue[l]
      /\ N \in Nat \ {0} /\ DOMAIN c.queue[p] = 1 .. N
      /\ DOMAIN d.queue[p] = 1 .. N - 1
      /\ \A n \in 1 .. N - 1 : d.queue[p][n] = c.queue[p][n + 1]
  <2>1. p \in Level /\ c.queue[p] # <<>>
    BY <1>h, <1>p
  <2>2. Taken(Without(c.queue, p), c.queue, p)
    BY <2>1, <1>t, WithoutGives
  <2>3. Taken(d.queue, c.queue, p)
    BY <2>2
  <2> QED
    BY <2>3 DEF Taken
<1> HIDE DEF p, N
<1>o. ASSUME NEW n \in DOMAIN d.queue[p]
      PROVE  /\ n + 1 \in DOMAIN c.queue[p] /\ n + 1 # 1
             /\ d.queue[p][n] = c.queue[p][n + 1]
  <2>1. n \in 1 .. N - 1 /\ N \in Nat
    BY <1>q
  <2>2. n + 1 \in 1 .. N /\ n + 1 # 1
    BY <2>1
  <2> QED
    BY <2>1, <2>2, <1>q
<1>a. ASSUME NEW l \in Level, NEW n \in DOMAIN d.queue[l]
      PROVE  \E m \in DOMAIN c.queue[l] : d.queue[l][n] = c.queue[l][m]
  <2>1. CASE l # p
    <3>1. d.queue[l] = c.queue[l]
      BY <2>1, <1>q
    <3> QED
      BY <3>1
  <2>2. CASE l = p
    <3>1. n + 1 \in DOMAIN c.queue[l] /\ d.queue[l][n] = c.queue[l][n + 1]
      BY <2>2, <1>o
    <3> QED
      BY <3>1
  <2> QED
    BY <2>1, <2>2
<1>f. p \in Scope => c.state[p] # "opening"
  <2> SUFFICES ASSUME p \in Scope, c.state[p] = "opening" PROVE FALSE
    OBVIOUS
  <2>1. c.queue[p] = <<Item(FirstOp(p), p)>>
    BY DEF Chains, FirstItems
  <2>2. FirstOp(p) = "scope"
    BY <2>1, <1>h DEF Item
  <2> QED
    BY <2>2, FirstOpIs
<1>1. ScopeItems(d, V, up)
  <2> SUFFICES ASSUME NEW l \in Level, NEW n \in DOMAIN d.queue[l], d.queue[l][n].op = "scope"
               PROVE  /\ d.queue[l][n].by \in Scope
                      /\ up[d.queue[l][n].by] = l
                      /\ n = 1 /\ l \notin V => d.state[d.queue[l][n].by] \in Running
                      /\ ~(n = 1 /\ l \notin V) => d.state[d.queue[l][n].by] = "queued"
    BY DEF ScopeItems
  <2>1. CASE l # p
    <3>1. d.queue[l] = c.queue[l]
      BY <2>1, <1>q
    <3>2. /\ d.queue[l][n].by \in Scope
          /\ up[d.queue[l][n].by] = l
          /\ n = 1 /\ l \notin V => c.state[d.queue[l][n].by] \in Running
          /\ ~(n = 1 /\ l \notin V) => c.state[d.queue[l][n].by] = "queued"
      BY <3>1, <2>1 DEF Chains, ScopeItems
    <3>3. d.queue[l][n].by # s
      BY <2>1, <3>2 DEF p
    <3> QED
      BY <3>2, <3>3, <1>z
  <2>2. CASE l = p
    <3>1. n + 1 \in DOMAIN c.queue[p] /\ n + 1 # 1 /\ d.queue[p][n] = c.queue[p][n + 1]
      BY <2>2, <1>o
    <3>2. \A m \in DOMAIN c.queue[p] :
              c.queue[p][m].op = "scope" /\ m # 1 =>
                /\ c.queue[p][m].by \in Scope
                /\ up[c.queue[p][m].by] = p
                /\ c.state[c.queue[p][m].by] = "queued"
      BY <1>p DEF Chains, ScopeItems
    <3>3. /\ d.queue[p][n].by \in Scope
          /\ up[d.queue[p][n].by] = p
          /\ c.state[d.queue[p][n].by] = "queued"
      BY <2>2, <3>1, <3>2
    <3>4. d.queue[p][n].by # s
      BY <3>3
    <3> QED
      BY <2>2, <3>3, <3>4, <1>z
  <2> QED
    BY <2>1, <2>2
<1>2. QueuedOnce(d)
  <2> SUFFICES ASSUME NEW l \in Level, NEW n \in DOMAIN d.queue[l], NEW m \in DOMAIN d.queue[l],
                      d.queue[l][n].op = "scope", d.queue[l][m] = d.queue[l][n]
               PROVE  n = m
    BY DEF QueuedOnce
  <2>1. CASE l # p
    BY <2>1, <1>q DEF Chains, QueuedOnce
  <2>2. CASE l = p
    <3>1. n + 1 = m + 1
      BY <2>2, <1>o, <1>p DEF Chains, QueuedOnce
    <3> QED
      BY <2>2, <3>1, <1>q
  <2> QED
    BY <2>1, <2>2
<1>3. AtTheHead(d, V, up)
  <2> SUFFICES ASSUME NEW x \in Scope, d.state[x] \in Running
               PROVE  /\ up[x] \notin V
                      /\ d.queue[up[x]] # <<>>
                      /\ d.queue[up[x]][1] = Item("scope", x)
    BY DEF AtTheHead
  <2>1. x # s /\ c.state[x] \in Running
    BY <1>z DEF Running
  <2>2. up[x] \notin U /\ c.queue[up[x]] # <<>> /\ c.queue[up[x]][1] = Item("scope", x)
    BY <2>1 DEF Chains, AtTheHead
  <2>3. up[x] # p
    BY <2>1, <2>2, <1>h DEF Item
  <2> QED
    BY <2>2, <2>3, <1>q
<1>4. FirstItems(d)
  <2>1. ASSUME NEW l \in Level, NEW n \in DOMAIN d.queue[l], d.queue[l][n].op \in {"save", "set"}
        PROVE  l \in Scope /\ d.state[l] = "opening"
    <3>1. PICK m \in DOMAIN c.queue[l] : d.queue[l][n] = c.queue[l][m]
      BY <1>a
    <3>2. l \in Scope /\ c.state[l] = "opening"
      BY <2>1, <3>1 DEF Chains, FirstItems
    <3> QED
      BY <3>2, <1>z
  <2>2. ASSUME NEW x \in Scope, d.state[x] = "opening"
        PROVE  d.queue[x] = <<Item(FirstOp(x), x)>>
    <3>1. c.state[x] = "opening" /\ x # p
      BY <2>2, <1>z, <1>f
    <3> QED
      BY <3>1, <1>q, LevelIs DEF Chains, FirstItems
  <2> QED
    BY <2>1, <2>2 DEF FirstItems
<1>5. LastItems(d, g)
  <2> SUFFICES ASSUME NEW l \in Level, NEW n \in DOMAIN d.queue[l], d.queue[l][n].op \in EndOps
               PROVE  /\ d.queue[l][n].by = l
                      /\ l \in Scope /\ d.state[l] = "ending" /\ l \in g
                      /\ KindOf[l] = "role" <=> d.queue[l][n].op = "restore"
    BY DEF LastItems
  <2>1. PICK m \in DOMAIN c.queue[l] : d.queue[l][n] = c.queue[l][m]
    BY <1>a
  <2>2. /\ d.queue[l][n].by = l
        /\ l \in Scope /\ c.state[l] = "ending" /\ l \in g
        /\ KindOf[l] = "role" <=> d.queue[l][n].op = "restore"
    BY <2>1 DEF Chains, LastItems
  <2>3. l # s
    BY <2>1
  <2> QED
    BY <2>2, <2>3, <1>z
<1>6. EndedOnce(d)
  <2> SUFFICES ASSUME NEW l \in Level, NEW n \in DOMAIN d.queue[l], NEW m \in DOMAIN d.queue[l],
                      d.queue[l][n].op \in EndOps, d.queue[l][m].op \in EndOps
               PROVE  n = m
    BY DEF EndedOnce
  <2>1. CASE l # p
    BY <2>1, <1>q DEF Chains, EndedOnce
  <2>2. CASE l = p
    <3>1. n + 1 = m + 1
      BY <2>2, <1>o, <1>p DEF Chains, EndedOnce
    <3> QED
      BY <2>2, <3>1, <1>q
  <2> QED
    BY <2>1, <2>2
<1>7. WriteItems(d, in)
  <2> SUFFICES ASSUME NEW l \in Level, NEW n \in DOMAIN d.queue[l], d.queue[l][n].op = "write"
               PROVE  /\ l \in in[d.queue[l][n].by]
                      /\ d.queue[l][n].by = Root \/ d.state[d.queue[l][n].by] \in Opened
    BY DEF WriteItems
  <2> DEFINE b == d.queue[l][n].by
  <2>1. b \in Level
    BY <1>q, QueueIs
  <2>2. PICK m \in DOMAIN c.queue[l] : d.queue[l][n] = c.queue[l][m]
    BY <1>a
  <2>3. l \in in[b] /\ (b = Root \/ c.state[b] \in Opened)
    BY <2>2 DEF Chains, WriteItems
  <2> HIDE DEF b
  <2>4. b # Root => d.state[b] \in Opened
    BY <2>1, <2>3, <1>z, LevelIs DEF Opened
  <2> QED
    BY <2>3, <2>4 DEF b
<1>8. NothingYet(d, V)
  <2>1. ASSUME NEW x \in Scope, d.state[x] \in {"unused", "queued"} PROVE d.queue[x] = <<>>
    <3>1. c.state[x] \in {"unused", "queued"}
      BY <2>1, <1>z
    <3>2. c.queue[x] = <<>>
      BY <3>1 DEF Chains, NothingYet
    <3>3. x # p /\ x \in Level
      BY <3>2, <1>h, LevelIs
    <3> QED
      BY <3>2, <3>3, <1>q
  <2>2. ASSUME NEW x \in Scope, x \in V PROVE d.state[x] \in Opened
    <3>1. CASE x = s
      BY <3>1, <1>z DEF Opened
    <3>2. CASE x # s /\ x \in U
      BY <3>2, <1>z DEF Chains, NothingYet
    <3>3. CASE x # s /\ x = p
      <4>1. c.state[p] \notin {"unused", "queued", "opening"}
        BY <3>3, <1>h, <1>f DEF Chains, NothingYet
      <4>2. d.state[x] \in States
        BY <1>z
      <4> QED
        BY <3>3, <4>1, <4>2, <1>z DEF States, Running, Opened
    <3> QED
      BY <2>2, <3>1, <3>2, <3>3
  <2> QED
    BY <2>1, <2>2 DEF NothingYet
<1>9. WireHeads(d, V)
  <2>1. ASSUME NEW n \in DOMAIN d.wire
        PROVE  /\ d.wire[n].at \notin V
               /\ d.queue[d.wire[n].at] # <<>>
               /\ d.queue[d.wire[n].at][1] = Item(d.wire[n].op, d.wire[n].by)
               /\ d.wire[n].op # "scope"
    <3>1. /\ c.wire[n].at \notin U /\ c.queue[c.wire[n].at] # <<>>
          /\ c.queue[c.wire[n].at][1] = Item(c.wire[n].op, c.wire[n].by)
          /\ c.wire[n].op # "scope"
      BY DEF Chains, WireHeads
    <3>2. c.wire[n].at \in Level
      BY <1>t, WireIs
    <3>3. c.wire[n].at # p
      BY <3>1, <1>h DEF Item
    <3> QED
      BY <3>1, <3>2, <3>3, <1>q
  <2>2. \A n, m \in DOMAIN d.wire : d.wire[n].at = d.wire[m].at => n = m
    BY DEF Chains, WireHeads
  <2> QED
    BY <2>1, <2>2 DEF WireHeads
<1>10. ChainTypes(d)
  BY <1>t, <1>z, <1>q DEF ChainTypes
<1>11. Chains(d, V, up, in, g)
  BY <1>1, <1>2, <1>3, <1>4, <1>5, <1>6, <1>7, <1>8, <1>9, <1>10 DEF Chains
<1> QED
  BY <1>11 DEF p

-----------------------------------------------------------------------------
(* As long as nothing strayed, the scopes under way are one in another.      *)

LEMMA UnderWayIs ==
  ASSUME NEW c
  PROVE  /\ UnderWay(c) \subseteq Scope /\ UnderWay(c) \union {Root} \subseteq Level
         /\ Root \notin UnderWay(c)
BY LevelIs DEF UnderWay

\* Only one level under way is innermost.
LEMMA OnlyOne ==
  ASSUME NEW c, NEW U, NEW up, NEW in, Tree(up, in), InOneLine(c, U, in),
         NEW k \in UnderWay(c) \union {Root}, NEW m \in UnderWay(c) \union {Root},
         Innermost(c, U, k), Innermost(c, U, m)
  PROVE  k = m
<1>1. UnderWay(c) \subseteq in[k] /\ UnderWay(c) \subseteq in[m]
  BY DEF InOneLine
<1>2. in[Root] = {Root} /\ Root \notin UnderWay(c)
  BY UnderWayIs DEF Tree
<1>3. CASE k # Root /\ m # Root
  <2>1. k \in in[m] /\ m \in in[k] /\ k \in Level /\ m \in Level
    BY <1>1, <1>3, UnderWayIs
  <2> QED
    BY <2>1 DEF Tree
<1>4. CASE k = Root \/ m = Root
  <2>1. UnderWay(c) = {}
    BY <1>1, <1>2, <1>4
  <2> QED
    BY <2>1
<1> QED
  BY <1>3, <1>4

\* What is on the wire was sent at the innermost level.
LEMMA WireInnermost ==
  ASSUME NEW c, NEW U, NEW up, NEW in, NEW g,
         Chains(c, U, up, in, g), Line(c, U, in), c.wire # <<>>
  PROVE  LET k == Head(c.wire).at IN
         k \in UnderWay(c) \union {Root} /\ Innermost(c, U, k) /\ c.queue[k] # <<>> /\ U = {}
<1> DEFINE k == Head(c.wire).at
<1>t. c.queue \in Queues /\ c.wire \in Seq(WItem)
  BY DEF Chains, ChainTypes
<1>1. 1 \in DOMAIN c.wire /\ k = c.wire[1].at /\ k \in Level
  BY <1>t, WireIs
<1>2. c.queue[k] # <<>> /\ c.queue[k][1].op # "scope"
  <2>1. c.queue[c.wire[1].at] # <<>> /\ c.wire[1].op # "scope"
        /\ c.queue[c.wire[1].at][1] = Item(c.wire[1].op, c.wire[1].by)
    BY <1>1 DEF Chains, WireHeads
  <2> QED
    BY <2>1, <1>1 DEF Item
<1>3. k \in UnderWay(c) \union {Root}
  BY <1>1, <1>2 DEF Line, QueuesUnderWay
<1>4. U = {}
  BY DEF Line, OneAtATime
<1> QED
  BY <1>2, <1>3, <1>4 DEF Innermost

LEMMA LineAdd ==
  ASSUME NEW c, NEW d, NEW U, NEW up, NEW in, NEW g, NEW k, NEW i \in QItem,
         Chains(c, U, up, in, g), Line(c, U, in), Tree(up, in),
         k \in UnderWay(c) \union {Root}, U \subseteq {k},
         \A n \in DOMAIN c.queue[k] : c.queue[k][n].op \notin EndOps,
         d.wire = c.wire, d.queue = Behind(c.queue, k, i), UnderWay(d) = UnderWay(c)
  PROVE  Line(d, Due(c, U, k), in)
<1> DEFINE V == Due(c, U, k)
           N == Len(c.queue[k])
<1>t. c.queue \in Queues /\ c.wire \in Seq(WItem) /\ k \in Level
  BY UnderWayIs DEF Chains, ChainTypes
<1>q. /\ d.queue \in Queues
      /\ \A l \in Level : l # k => d.queue[l] = c.queue[l]
      /\ N \in Nat /\ DOMAIN c.queue[k] = 1 .. N
      /\ c.queue[k] = <<>> <=> N = 0
      /\ d.queue[k] # <<>> /\ DOMAIN d.queue[k] = 1 .. N + 1 /\ Len(d.queue[k]) = N + 1
      /\ \A n \in 1 .. N : d.queue[k][n] = c.queue[k][n]
  <2>1. /\ d.queue \in Queues
        /\ \A l \in Level : l # k => d.queue[l] = c.queue[l]
        /\ Len(d.queue[k]) = N + 1
        /\ d.queue[k] # <<>>
        /\ \A n \in 1 .. N : d.queue[k][n] = c.queue[k][n]
    BY <1>t, BehindIs
  <2>2. N \in Nat /\ DOMAIN c.queue[k] = 1 .. N /\ (c.queue[k] = <<>> <=> N = 0)
    BY <1>t, QueueIs
  <2>3. DOMAIN d.queue[k] = 1 .. N + 1
    BY <2>1, <1>t, QueueIs
  <2> QED
    BY <2>1, <2>2, <2>3
<1>v. /\ \A l \in Level : l # k => (l \in V <=> l \in U)
      /\ N # 0 => V = U
      /\ V \subseteq {k}
  BY <1>q DEF Due
<1> HIDE DEF N, V
<1>i. ASSUME NEW l \in Level, Innermost(d, V, l) PROVE Innermost(c, U, l)
  <2>1. CASE l # k
    BY <2>1, <1>i, <1>q, <1>v DEF Innermost
  <2>2. CASE l = k /\ N = 0
    BY <2>2, <1>q DEF Innermost
  <2>3. CASE l = k /\ N # 0
    <3>1. 1 \in 1 .. N
      BY <2>3, <1>q
    <3>2. d.queue[k][1] = c.queue[k][1]
      BY <3>1, <1>q
    <3> QED
      BY <2>3, <3>2, <1>i, <1>q, <1>v DEF Innermost
  <2> QED
    BY <2>1, <2>2, <2>3
<1>1. OneAtATime(d, V)
  <2>1. ASSUME V # {} PROVE c.wire = <<>>
    <3>1. CASE U # {}
      BY <3>1 DEF Line, OneAtATime
    <3>2. CASE U = {}
      <4>1. N = 0
        BY <3>2, <2>1, <1>v, <1>q
      <4>2. Innermost(c, U, k) /\ c.queue[k] = <<>>
        BY <4>1, <1>q DEF Innermost
      <4> SUFFICES ASSUME c.wire # <<>> PROVE FALSE
        OBVIOUS
      <4> DEFINE m == Head(c.wire).at
      <4>3. m \in UnderWay(c) \union {Root} /\ Innermost(c, U, m) /\ c.queue[m] # <<>>
        BY WireInnermost
      <4> HIDE DEF m
      <4>4. k = m
        BY <4>2, <4>3, OnlyOne DEF Line
      <4> QED
        BY <4>2, <4>3, <4>4
    <3> QED
      BY <3>1, <3>2
  <2> QED
    BY <2>1 DEF Line, OneAtATime
<1>2. QueuesUnderWay(d, V)
  <2> SUFFICES ASSUME NEW l \in Level, d.queue[l] # <<>> \/ l \in V
               PROVE  l \in UnderWay(d) \union {Root}
    BY DEF QueuesUnderWay
  <2>1. CASE l = k
    BY <2>1
  <2>2. CASE l # k
    BY <2>2, <1>q, <1>v DEF Line, QueuesUnderWay
  <2> QED
    BY <2>1, <2>2
<1>3. InOneLine(d, V, in)
  BY <1>i, UnderWayIs DEF Line, InOneLine
<1>4. EndsTheQueue(d)
  <2> SUFFICES ASSUME NEW l \in Level, NEW n \in DOMAIN d.queue[l], d.queue[l][n].op \in EndOps
               PROVE  n = Len(d.queue[l])
    BY DEF EndsTheQueue
  <2>1. CASE l # k
    BY <2>1, <1>q DEF Line, EndsTheQueue
  <2>2. CASE l = k
    <3>1. n \notin 1 .. N
      BY <2>2, <1>q
    <3> QED
      BY <2>2, <3>1, <1>q
  <2> QED
    BY <2>1, <2>2
<1> QED
  BY <1>1, <1>2, <1>3, <1>4 DEF Line, V

\* Level l has nothing queued.
Empty(c, l) == c.queue[l] = <<>>

\* The statement at the head of the wire is the only one there, and the one that ends
\* a scope leaves its queue empty.
LEMMA LinePop ==
  ASSUME NEW c, NEW d, NEW up, NEW in, NEW g, NEW k,
         Chains(c, {}, up, in, g), Line(c, {}, in), c.wire # <<>>, k = SentFrom(c),
         d.wire = Tail(c.wire), d.queue = Without(c.queue, k), UnderWay(d) = UnderWay(c)
  PROVE  /\ Line(d, {k}, in) /\ d.wire = <<>>
         /\ Head(c.wire).op \in EndOps \union {"save", "set"} => Empty(d, k)
<1> DEFINE N == Len(c.queue[k])
<1>t. c.queue \in Queues /\ c.wire \in Seq(WItem)
  BY DEF Chains, ChainTypes
<1>k. k \in UnderWay(c) \union {Root} /\ k \in Level /\ c.queue[k] # <<>>
  BY WireInnermost, UnderWayIs DEF SentFrom
<1>e. /\ c.queue[k][1].op = Head(c.wire).op /\ 1 \in DOMAIN c.queue[k]
      /\ Head(c.wire).op # "scope"
      /\ Head(c.wire).op \in {"save", "set"} => DOMAIN c.queue[k] = {1}
  BY HeadIs DEF SentFrom
<1>q. /\ d.queue \in Queues
      /\ \A l \in Level : l # k => d.queue[l] = c.queue[l]
      /\ N \in Nat \ {0} /\ DOMAIN c.queue[k] = 1 .. N
      /\ DOMAIN d.queue[k] = 1 .. N - 1 /\ Len(d.queue[k]) = N - 1
      /\ \A n \in 1 .. N - 1 : d.queue[k][n] = c.queue[k][n + 1]
      /\ d.queue[k] = <<>> <=> N = 1
  <2>1. k \in Level /\ c.queue[k] # <<>>
    BY <1>k
  <2>2. Taken(Without(c.queue, k), c.queue, k)
    BY <2>1, <1>t, WithoutGives
  <2>3. Taken(d.queue, c.queue, k)
    BY <2>2
  <2> QED
    BY <2>3 DEF Taken
<1> HIDE DEF N
<1>w. d.wire = <<>>
  <2>1. Len(c.wire) <= 1
    BY DEF Line, OneAtATime
  <2>2. Tail(c.wire) \in Seq(WItem) /\ Len(c.wire) \in Nat \ {0} /\ Len(Tail(c.wire)) = Len(c.wire) - 1
    BY <1>t, TailIs
  <2>3. \A n, m : n \in Nat \ {0} /\ n <= 1 /\ m = n - 1 => m = 0
    OBVIOUS
  <2>4. Len(Tail(c.wire)) = 0
    BY <2>1, <2>2, <2>3
  <2> QED
    BY <2>2, <2>4, ListIs
<1>i. ASSUME NEW l \in Level, Innermost(d, {k}, l) PROVE Innermost(c, {}, l)
  <2>1. CASE l # k
    BY <2>1, <1>i, <1>q DEF Innermost
  <2>2. CASE l = k
    BY <2>2, <1>e DEF Innermost
  <2> QED
    BY <2>1, <2>2
<1>1. OneAtATime(d, {k})
  <2>1. Len(<<>>) = 0
    BY EmptySeq
  <2>2. Len(d.wire) = 0
    BY <2>1, <1>w
  <2>3. \A n : n = 0 => n <= 1
    OBVIOUS
  <2>4. Len(d.wire) <= 1
    BY <2>2, <2>3
  <2> QED
    BY <2>4, <1>w DEF OneAtATime
<1>2. QueuesUnderWay(d, {k})
  BY <1>k, <1>q DEF Line, QueuesUnderWay
<1>3. InOneLine(d, {k}, in)
  BY <1>i, UnderWayIs DEF Line, InOneLine
<1>4. EndsTheQueue(d)
  <2> SUFFICES ASSUME NEW l \in Level, NEW n \in DOMAIN d.queue[l], d.queue[l][n].op \in EndOps
               PROVE  n = Len(d.queue[l])
    BY DEF EndsTheQueue
  <2>1. CASE l # k
    BY <2>1, <1>q DEF Line, EndsTheQueue
  <2>2. CASE l = k
    <3>1. n \in 1 .. N - 1 /\ d.queue[k][n] = c.queue[k][n + 1]
      BY <2>2, <1>q
    <3>2. n + 1 \in 1 .. N
      BY <3>1, <1>q
    <3>3. n + 1 = N
      BY <2>2, <3>1, <3>2, <1>k, <1>q DEF Line, EndsTheQueue, N
    <3> QED
      BY <2>2, <3>1, <3>3, <1>q
  <2> QED
    BY <2>1, <2>2
<1>5. ASSUME Head(c.wire).op \in EndOps \union {"save", "set"} PROVE d.queue[k] = <<>>
  <2>1. CASE Head(c.wire).op \in EndOps
    <3>1. 1 = N
      BY <2>1, <1>e, <1>k DEF Line, EndsTheQueue, N
    <3> QED
      BY <3>1, <1>q
  <2>2. CASE Head(c.wire).op \in {"save", "set"}
    <3>1. 1 .. N = {1}
      BY <2>2, <1>e, <1>q
    <3>2. N \in 1 .. N
      BY <1>q
    <3>3. N = 1
      BY <3>1, <3>2
    <3> QED
      BY <3>3, <1>q
  <2> QED
    BY <1>5, <2>1, <2>2
<1> QED
  BY <1>1, <1>2, <1>3, <1>4, <1>5, <1>w DEF Line, Empty

LEMMA LineClose ==
  ASSUME NEW c, NEW d, NEW U, NEW up, NEW in, NEW g, NEW s,
         Chains(c, U, up, in, g), Line(c, U, in), Tree(up, in),
         s \in UnderWay(c), c.queue[s] = <<>>, U \subseteq {s},
         d.wire = c.wire, d.queue = Without(c.queue, up[s]), UnderWay(d) = UnderWay(c) \ {s}
  PROVE  Line(d, {up[s]}, in)
<1> DEFINE p == up[s]
           N == Len(c.queue[p])
<1>t. c.queue \in Queues /\ c.wire \in Seq(WItem)
  BY DEF Chains, ChainTypes
<1>s. s \in Scope /\ s \in Level /\ c.state[s] \in Running
  BY LevelIs DEF UnderWay
<1>p. p \in Level /\ p # s /\ p \in in[s] /\ in[s] = {s} \union in[p] /\ s \notin in[p]
  BY <1>s DEF Tree
<1>h. c.queue[p] # <<>>
  BY <1>s DEF Chains, AtTheHead
<1>q. /\ d.queue \in Queues
      /\ \A l \in Level : l # p => d.queue[l] = c.queue[l]
      /\ N \in Nat \ {0} /\ DOMAIN c.queue[p] = 1 .. N
      /\ DOMAIN d.queue[p] = 1 .. N - 1 /\ Len(d.queue[p]) = N - 1
      /\ \A n \in 1 .. N - 1 : d.queue[p][n] = c.queue[p][n + 1]
      /\ d.queue[p] = <<>> <=> N = 1
  <2>1. p \in Level /\ c.queue[p] # <<>>
    BY <1>p, <1>h
  <2>2. Taken(Without(c.queue, p), c.queue, p)
    BY <2>1, <1>t, WithoutGives
  <2>3. Taken(d.queue, c.queue, p)
    BY <2>2
  <2> QED
    BY <2>3 DEF Taken
<1> HIDE DEF N, p
<1>n. Innermost(c, U, s)
  BY DEF Innermost
<1>l. /\ UnderWay(c) \subseteq in[s]
      /\ \A x \in UnderWay(c) : in[x] \subseteq UnderWay(c) \union {Root}
  BY <1>n DEF Line, InOneLine
<1>u. p \in UnderWay(d) \union {Root}
  BY <1>l, <1>p
<1>1. OneAtATime(d, {p})
  <2>1. SUFFICES ASSUME c.wire # <<>> PROVE FALSE
    BY DEF Line, OneAtATime
  <2> DEFINE m == Head(c.wire).at
  <2>2. m \in UnderWay(c) \union {Root} /\ Innermost(c, U, m) /\ c.queue[m] # <<>>
    BY <2>1, WireInnermost
  <2> HIDE DEF m
  <2>3. s = m
    BY <2>2, <1>n, OnlyOne DEF Line
  <2> QED
    BY <2>2, <2>3
<1>2. QueuesUnderWay(d, {p})
  <2> SUFFICES ASSUME NEW l \in Level, d.queue[l] # <<>> \/ l \in {p}
               PROVE  l \in UnderWay(d) \union {Root}
    BY DEF QueuesUnderWay
  <2>1. CASE l = p
    BY <2>1, <1>u
  <2>2. CASE l # p
    <3>1. d.queue[l] = c.queue[l] /\ c.queue[l] # <<>>
      BY <2>2, <1>q
    <3>2. l \in UnderWay(c) \union {Root}
      BY <3>1 DEF Line, QueuesUnderWay
    <3>3. l # s
      BY <3>1
    <3> QED
      BY <3>2, <3>3
  <2> QED
    BY <2>1, <2>2
<1>3. InOneLine(d, {p}, in)
  <2>1. ASSUME NEW l \in UnderWay(d) \union {Root}, Innermost(d, {p}, l)
        PROVE  UnderWay(d) \subseteq in[l]
    <3>1. CASE l = p
      BY <3>1, <1>l, <1>p
    <3>2. CASE l # p
      <4>1. l \in Level /\ l \in UnderWay(c) \union {Root} /\ l # s
        BY UnderWayIs, <1>s, LevelIs
      <4>2. Innermost(c, U, l)
        BY <3>2, <4>1, <2>1, <1>q DEF Innermost
      <4>3. l = s
        BY <4>1, <4>2, <1>n, OnlyOne DEF Line
      <4> QED
        BY <4>1, <4>3
    <3> QED
      BY <3>1, <3>2
  <2>2. ASSUME NEW x \in UnderWay(d) PROVE in[x] \subseteq UnderWay(d) \union {Root}
    <3>1. x \in UnderWay(c) /\ x # s /\ x \in Level
      BY UnderWayIs
    <3>2. s \notin in[x]
      BY <3>1, <1>l, <1>s DEF Tree
    <3> QED
      BY <3>1, <3>2, <1>l
  <2> QED
    BY <2>1, <2>2 DEF InOneLine
<1>4. EndsTheQueue(d)
  <2> SUFFICES ASSUME NEW l \in Level, NEW n \in DOMAIN d.queue[l], d.queue[l][n].op \in EndOps
               PROVE  n = Len(d.queue[l])
    BY DEF EndsTheQueue
  <2>1. CASE l # p
    BY <2>1, <1>q DEF Line, EndsTheQueue
  <2>2. CASE l = p
    <3>1. n \in 1 .. N - 1 /\ d.queue[p][n] = c.queue[p][n + 1]
      BY <2>2, <1>q
    <3>2. n + 1 \in 1 .. N
      BY <3>1, <1>q
    <3>3. n + 1 = N
      BY <2>2, <3>1, <3>2, <1>p, <1>q DEF Line, EndsTheQueue, N
    <3> QED
      BY <2>2, <3>1, <3>3, <1>q
  <2> QED
    BY <2>1, <2>2
<1> QED
  BY <1>1, <1>2, <1>3, <1>4 DEF Line, p

LEMMA LineStart ==
  ASSUME NEW c, NEW U, NEW up, NEW in, NEW g, NEW l \in Level, l \in U, \A x \in U : x = l,
         Chains(c, U, up, in, g), Line(c, U, in), Tree(up, in)
  PROVE  Line(Start(c, l), {}, in)
<1> DEFINE d == Start(c, l)
<1>t. c.queue \in Queues /\ c.wire \in Seq(WItem) /\ c.state \in [Scope -> States]
  BY DEF Chains, ChainTypes
<1>h. c.queue[l] # <<>> => Head(c.queue[l]) = c.queue[l][1]
  BY <1>t, QueueIs
<1>w. c.wire = <<>> /\ l \in UnderWay(c) \union {Root} /\ Innermost(c, U, l)
  BY DEF Line, OneAtATime, QueuesUnderWay, Innermost
<1>1. CASE c.queue[l] = <<>>
  <2>1. d = c
    BY <1>1 DEF Start
  <2>2. Line(c, {}, in)
    <3>1. InOneLine(c, {}, in)
      BY DEF Line, InOneLine, Innermost
    <3> QED
      BY <3>1 DEF Line, OneAtATime, QueuesUnderWay
  <2> QED
    BY <2>1, <2>2
<1>e. ASSUME NEW x PROVE Len(Append(<<>>, x)) <= 1
  BY <1>e
<1>2. CASE c.queue[l] # <<>> /\ c.queue[l][1].op # "scope"
  <2>1. d = SendItem(c, c.queue[l][1], l)
    BY <1>2, <1>h DEF Start
  <2>2. /\ d.wire = Append(<<>>, OnWire(c.queue[l][1].op, c.queue[l][1].by, l))
        /\ d.queue = c.queue /\ d.state = c.state
    BY <2>1, <1>w DEF SendItem
  <2> HIDE DEF d
  <2>3. UnderWay(d) = UnderWay(c)
    BY <2>2 DEF UnderWay
  <2>4. OneAtATime(d, {})
    BY <2>2, <1>e DEF OneAtATime
  <2>5. InOneLine(d, {}, in)
    BY <2>2, <2>3 DEF Line, InOneLine, Innermost
  <2>6. QueuesUnderWay(d, {}) /\ EndsTheQueue(d)
    BY <2>2, <2>3 DEF Line, QueuesUnderWay, EndsTheQueue
  <2> QED
    BY <2>4, <2>5, <2>6 DEF Line, d
<1>3. CASE c.queue[l] # <<>> /\ c.queue[l][1].op = "scope"
  <2> DEFINE t == c.queue[l][1].by
             f == Item(FirstOp(t), t)
  <2>1. d = OpenScope(c, t)
    BY <1>3, <1>h DEF Start
  <2>2. t \in Scope /\ up[t] = l /\ c.state[t] = "queued"
    <3>1. NextScope(c, t, l)
      BY <1>3 DEF NextScope
    <3> HIDE DEF t
    <3>2. Waits(c, t, l, up)
      BY <3>1, StartScope
    <3> QED
      BY <3>2 DEF Waits
  <2>3. /\ d.wire = Append(<<>>, OnWire(FirstOp(t), t, t))
        /\ d.queue = [c.queue EXCEPT ![t] = <<f>>]
        /\ d.state = [c.state EXCEPT ![t] = "opening"]
    BY <2>1, <1>w DEF OpenScope
  <2>4. f.op \notin EndOps
    BY <2>2, FirstOpIs
  <2> HIDE DEF d, f, t
  <2>5. /\ d.queue[t] = <<f>> /\ DOMAIN d.queue[t] = {1} /\ d.queue[t][1] = f
        /\ \A x \in Level : x # t => d.queue[x] = c.queue[x]
    BY <2>2, <2>3, <1>t, LevelIs DEF Queues
  <2>6. t # l
    <3>1. c.queue[t] = <<>>
      BY <2>2 DEF Chains, NothingYet
    <3> QED
      BY <3>1, <1>3
  <2>7. UnderWay(d) = UnderWay(c) \union {t}
    BY <2>2, <2>3, <1>t DEF UnderWay, Running
  <2>8. UnderWay(c) \subseteq in[l] /\ in[t] = {t} \union in[l] /\ in[l] \subseteq UnderWay(c) \union {Root}
    <3>1. UnderWay(c) \subseteq in[l]
      BY <1>w DEF Line, InOneLine
    <3>2. in[t] = {t} \union in[l]
      BY <2>2 DEF Tree
    <3>3. in[l] \subseteq UnderWay(c) \union {Root}
      BY <1>w DEF Line, InOneLine, Tree
    <3> QED
      BY <3>1, <3>2, <3>3
  <2>9. OneAtATime(d, {})
    BY <2>3, <1>e DEF OneAtATime
  <2>10. QueuesUnderWay(d, {})
    BY <2>5, <2>7 DEF Line, QueuesUnderWay
  <2>11. EndsTheQueue(d)
    BY <2>4, <2>5 DEF Line, EndsTheQueue
  <2>12. InOneLine(d, {}, in)
    <3>1. ASSUME NEW x \in UnderWay(d) \union {Root}, Innermost(d, {}, x)
          PROVE  UnderWay(d) \subseteq in[x]
      <4>1. CASE x = t
        BY <4>1, <2>7, <2>8
      <4>2. CASE x # t
        <5>1. x \in UnderWay(c) \union {Root} /\ x \in Level
          BY <4>2, <2>7, UnderWayIs
        <5>2. d.queue[x] = c.queue[x]
          BY <4>2, <5>1, <2>5
        <5>3. x # l
          BY <5>2, <3>1, <1>3 DEF Innermost
        <5>4. Innermost(c, U, x)
          BY <5>2, <3>1 DEF Innermost
        <5>5. x = l
          BY <5>1, <5>4, <1>w, OnlyOne DEF Line
        <5> QED
          BY <5>3, <5>5
      <4> QED
        BY <4>1, <4>2
    <3>2. ASSUME NEW x \in UnderWay(d) PROVE in[x] \subseteq UnderWay(d) \union {Root}
      <4>1. CASE x = t
        BY <4>1, <2>7, <2>8
      <4>2. CASE x # t
        BY <4>2, <2>7 DEF Line, InOneLine
      <4> QED
        BY <4>1, <4>2
    <3> QED
      BY <3>1, <3>2 DEF InOneLine
  <2> QED
    BY <2>9, <2>10, <2>11, <2>12 DEF Line, d
<1> QED
  BY <1>1, <1>2, <1>3

-----------------------------------------------------------------------------
(* From the records to the variables.                                        *)

LEMMA NowIs == Now.wire = wire /\ Now.queue = queue /\ Now.state = state
BY DEF Now

\* Only the fields of a record count.
LEMMA SameChains ==
  ASSUME NEW c, NEW d, NEW U, NEW up, NEW in, NEW g, Chains(c, U, up, in, g),
         d.wire = c.wire, d.queue = c.queue, d.state = c.state
  PROVE  Chains(d, U, up, in, g)
BY DEF Chains, ChainTypes, ScopeItems, QueuedOnce, AtTheHead, FirstItems, LastItems, EndedOnce,
       WriteItems, NothingYet, WireHeads

LEMMA SameLine ==
  ASSUME NEW c, NEW d, NEW U, NEW in, Line(c, U, in),
         d.wire = c.wire, d.queue = c.queue, UnderWay(d) = UnderWay(c)
  PROVE  Line(d, U, in)
BY DEF Line, OneAtATime, QueuesUnderWay, InOneLine, EndsTheQueue, Innermost

LEMMA ChainsNext ==
  ASSUME NEW d, Becomes(d), Chains(d, {}, parent', inside', guarded')
  PROVE  ChainsHold'
<1> DEFINE n == [wire |-> wire', queue |-> queue', state |-> state']
<1>1. n.wire = d.wire /\ n.queue = d.queue /\ n.state = d.state
  BY DEF Becomes
<1> HIDE DEF n
<1>2. Chains(n, {}, parent', inside', guarded')
  BY <1>1, SameChains
<1> QED
  BY <1>2 DEF n, ChainsHold, Now

LEMMA LineNext ==
  ASSUME NEW d, Becomes(d), Line(d, {}, inside')
  PROVE  LineHolds'
<1> DEFINE n == [wire |-> wire', queue |-> queue', state |-> state']
<1>1. n.wire = d.wire /\ n.queue = d.queue /\ n.state = d.state
  BY DEF Becomes
<1> HIDE DEF n
<1>2. UnderWay(n) = UnderWay(d)
  BY <1>1 DEF UnderWay
<1>3. Line(n, {}, inside')
  BY <1>1, <1>2, SameLine
<1> QED
  BY <1>3 DEF n, LineHolds, Now

\* Scopes outside S stay as they are, or start.
Opens(st, st2, S) ==
  \A x \in Scope : x \notin S =>
    st2[x] = st[x] \/ (st[x] = "queued" /\ st2[x] = "opening")

\* A start opens at most a scope that was queued.
LEMMA StartOpens ==
  ASSUME NEW c, NEW U, NEW up, NEW in, NEW g, NEW l \in Level, l \in U,
         Chains(c, U, up, in, g)
  PROVE  Opens(c.state, Start(c, l).state, {})
<1>1. /\ Chains(Start(c, l), U \ {l}, up, in, g)
      /\ \A s \in Scope : \/ Start(c, l).state[s] = c.state[s]
                          \/ c.state[s] = "queued" /\ Start(c, l).state[s] = "opening"
  BY StartKeeps
<1> QED
  BY <1>1 DEF Opens

\* The scopes under way, by their states alone.
Going(st) == {s \in Scope : st[s] \in Running}

LEMMA GoingIs == ASSUME NEW c PROVE UnderWay(c) = Going(c.state)
BY DEF UnderWay, Going

\* An item goes behind the others, and is started when nothing is before it.
LEMMA EnqueueKeeps ==
  ASSUME NEW up \in [Scope -> Level], NEW in, NEW g, NEW k \in Level, NEW i, NEW st,
         Chains(Now, {}, up, in, g), Fits(Now, st, k, i, up, in, g)
  PROVE  /\ Chains(Enqueued(k, i, st), {}, up, in, g)
         /\ Opens(st, Enqueued(k, i, st).state, {})
         /\ /\ Line(Now, {}, in) /\ Tree(up, in)
            /\ k \in Going(state) \union {Root}
            /\ \A n \in DOMAIN queue[k] : queue[k][n].op \notin EndOps
            /\ Going(st) = Going(state)
            => Line(Enqueued(k, i, st), {}, in)
<1> DEFINE U == Due(Now, {}, k)
           e == [wire |-> wire, queue |-> Behind(queue, k, i), state |-> st]
<1>e. e.wire = wire /\ e.queue = Behind(queue, k, i) /\ e.state = st
  OBVIOUS
<1>n. Now.wire = wire /\ Now.queue = queue /\ Now.state = state
  BY NowIs
<1>i. i \in QItem
  BY DEF Fits
<1>f. (queue[k] = <<>> => Enqueued(k, i, st) = Start(e, k)) /\ (queue[k] # <<>> => Enqueued(k, i, st) = e)
  BY DEF Enqueued
<1> HIDE DEF e
<1>1. Chains(e, U, up, in, g)
  BY <1>e, <1>n, AddItem
<1>2. ASSUME Line(Now, {}, in), Tree(up, in), k \in Going(state) \union {Root},
             \A n \in DOMAIN queue[k] : queue[k][n].op \notin EndOps, Going(st) = Going(state)
      PROVE  Line(e, U, in)
  <2>1. UnderWay(e) = UnderWay(Now) /\ k \in UnderWay(Now) \union {Root}
    BY <1>2, <1>e, <1>n, GoingIs
  <2>2. {} \subseteq {k}
    OBVIOUS
  <2> QED
    BY <1>2, <2>1, <2>2, <1>e, <1>n, <1>i, LineAdd
<1>3. CASE queue[k] = <<>>
  <2>1. U = {k}
    BY <1>3, <1>n DEF Due
  <2>2. k \in U /\ (\A x \in U : x = k) /\ U \ {k} = {}
    BY <2>1
  <2>3. Enqueued(k, i, st) = Start(e, k)
    BY <1>3, <1>f
  <2> HIDE DEF U
  <2>4. Opens(e.state, Start(e, k).state, {})
    BY <1>1, <2>2, StartOpens
  <2>c. Chains(Start(e, k), U \ {k}, up, in, g)
    BY <1>1, <2>2, StartKeeps
  <2>5. Opens(st, Start(e, k).state, {})
    BY <2>4, <1>e
  <2>6. ASSUME Line(e, U, in), Tree(up, in) PROVE Line(Start(e, k), {}, in)
    BY <2>6, <2>2, <1>1, LineStart
  <2> QED
    BY <1>2, <2>2, <2>3, <2>5, <2>6, <2>c
<1>4. CASE queue[k] # <<>>
  <2>1. U = {}
    BY <1>4, <1>n DEF Due
  <2>2. Enqueued(k, i, st) = e
    BY <1>4, <1>f
  <2> HIDE DEF U
  <2>3. Opens(st, e.state, {})
    BY <1>e DEF Opens
  <2> QED
    BY <1>1, <1>2, <2>1, <2>2, <2>3
<1> QED
  BY <1>3, <1>4

\* The statement executed leaves wire and queue, and the next of its level goes.
LEMMA GoesKeeps ==
  ASSUME NEW g2, NEW k, NEW st \in [Scope -> States], NEW e,
         ChainsHold, Tree(parent, inside), guarded \subseteq g2, wire # <<>>, k = SentFrom(Now),
         e.wire = Tail(wire), e.queue = Without(queue, k), e.state = st,
         \A s \in Scope : \/ st[s] = state[s]
                          \/ Exec.op \in {"save", "set"} /\ s = Exec.by /\ st[s] = "open",
         Exec.op \in {"save", "set"} => st[Exec.by] = "open"
  PROVE  /\ Chains(Start(e, k), {}, parent, inside, g2)
         /\ Opens(st, Start(e, k).state, {})
         /\ LineHolds /\ Going(st) = Going(state) => Line(Start(e, k), {}, inside)
<1> DEFINE U == {k}
<1>n. Now.wire = wire /\ Now.queue = queue /\ Now.state = state
  BY NowIs
<1>p. parent \in [Scope -> Level]
  BY DEF Tree
<1>k. k \in Level
  <2>1. Chains(Now, {}, parent, inside, guarded)
    BY DEF ChainsHold
  <2>2. Head(Now.wire).at \in Level
    BY <2>1, <1>n, HeadIs
  <2> QED
    BY <2>2 DEF SentFrom
<1>u. k \in U /\ \A x \in U : x = k
  OBVIOUS
<1>v. U \ {k} = {}
  OBVIOUS
<1>1. Chains(e, U, parent, inside, guarded)
  BY <1>n, <1>p, PopItem DEF ChainsHold, Exec
<1> HIDE DEF U
<1>2. Chains(e, U, parent, inside, g2)
  BY <1>1, Reguard
<1>3. /\ Chains(Start(e, k), U \ {k}, parent, inside, g2)
      /\ \A s \in Scope : \/ Start(e, k).state[s] = e.state[s]
                          \/ e.state[s] = "queued" /\ Start(e, k).state[s] = "opening"
  BY <1>k, <1>2, <1>u, StartKeeps
<1>4. Opens(st, Start(e, k).state, {})
  BY <1>3 DEF Opens
<1>5. ASSUME LineHolds, Going(st) = Going(state) PROVE Line(Start(e, k), {}, inside)
  <2>1. UnderWay(e) = UnderWay(Now)
    BY <1>5, <1>n, GoingIs
  <2>2. Line(e, {k}, inside)
    BY <1>5, <2>1, <1>n, LinePop DEF ChainsHold, LineHolds
  <2>3. Line(e, U, inside)
    BY <2>2 DEF U
  <2> QED
    BY <2>3, <1>k, <1>2, <1>u, LineStart
<1> QED
  BY <1>3, <1>4, <1>5, <1>v

\* What Postgres runs next is a statement of scope s itself.
ExecutesOwn(s) == wire # <<>> /\ Exec.by = s

\* The statement that ends scope s, or its first one when it fails, is done.
LEMMA CloseScopeKeeps ==
  ASSUME NEW s, NEW as, ChainsHold, Tree(parent, inside), ExecutesOwn(s),
         Exec.op \in EndOps \union {"set"}, as \in {"released", "failed"}, CloseScope(s, as),
         parent' = parent, inside' = inside, guarded' = guarded
  PROVE  /\ ChainsHold' /\ (LineHolds => LineHolds')
         /\ s \in Scope /\ state'[s] = as /\ Opens(state, state', {s})
         /\ state[s] = IF Exec.op = "set" THEN "opening" ELSE "ending"
<1> DEFINE p == parent[s]
           st == IF Exec.op = "set" THEN [state EXCEPT ![s] = "open"] ELSE state
           e1 == [wire |-> Tail(wire), queue |-> Without(queue, s), state |-> st]
           e2 == Settle(Tail(wire), Without(queue, s), s, as)
           d == Start(Start(e2, s), p)
           V == {s} \union {p}
<1>n. Now.wire = wire /\ Now.queue = queue /\ Now.state = state
  BY NowIs
<1>c. Chains(Now, {}, parent, inside, guarded) /\ Now.wire # <<>>
  BY <1>n DEF ChainsHold, ExecutesOwn
<1>t. queue \in Queues /\ state \in [Scope -> States] /\ parent \in [Scope -> Level]
  BY <1>c, <1>n DEF Chains, ChainTypes, Tree
<1>h. /\ s = SentFrom(Now) /\ s \in Scope /\ s \in Level
      /\ queue[s] # <<>> /\ queue[s][1].op = Exec.op /\ 1 \in DOMAIN queue[s]
      /\ state[s] = IF Exec.op = "set" THEN "opening" ELSE "ending"
      /\ Exec.op = "set" => DOMAIN queue[s] = {1}
  BY <1>c, <1>n, HeadIs, LevelIs DEF Exec, ExecutesOwn, SentFrom, EndOps
<1>p. p \in Level /\ p # s /\ s \notin inside[p]
  BY <1>h, <1>t DEF Tree
<1>s. /\ st \in [Scope -> States]
      /\ st[s] \in {"open", "ending"} /\ Going(st) = Going(state)
      /\ \A x \in Scope : \/ st[x] = state[x]
                          \/ Exec.op \in {"save", "set"} /\ x = Exec.by /\ st[x] = "open"
      /\ Exec.op \in {"save", "set"} => st[Exec.by] = "open"
      /\ [st EXCEPT ![s] = as] = [state EXCEPT ![s] = as]
  <2>1. CASE Exec.op = "set"
    BY <2>1, <1>h, <1>t DEF Going, States, Running, EndOps, ExecutesOwn
  <2>2. CASE Exec.op # "set"
    BY <2>2, <1>h, <1>t DEF EndOps, ExecutesOwn
  <2> QED
    BY <2>1, <2>2
<1>e. /\ e1.wire = Tail(wire) /\ e1.queue = Without(queue, s) /\ e1.state = st
      /\ e2.wire = Tail(wire) /\ e2.queue = Without(Without(queue, s), p)
      /\ e2.state = [state EXCEPT ![s] = as]
  BY DEF Settle
<1>d. Becomes(d)
  BY DEF CloseScope
<1> HIDE DEF e1, e2, d, st, p
<1>a. /\ s = SentFrom(Now) /\ e1.wire = Tail(Now.wire) /\ e1.queue = Without(Now.queue, s)
      /\ e1.state \in [Scope -> States]
      /\ \A x \in Scope : \/ e1.state[x] = Now.state[x]
                          \/ /\ Head(Now.wire).op \in {"save", "set"}
                             /\ x = Head(Now.wire).by /\ e1.state[x] = "open"
      /\ Head(Now.wire).op \in {"save", "set"} => e1.state[Head(Now.wire).by] = "open"
  BY <1>n, <1>h, <1>s, <1>e DEF Exec
<1>q. parent \in [Scope -> Level]
  BY <1>t
<1>1. Chains(e1, {s}, parent, inside, guarded)
  BY <1>a, <1>c, <1>q, PopItem
<1>o. \A n \in DOMAIN e1.queue[s] : e1.queue[s][n].op \notin EndOps
  <2> SUFFICES ASSUME NEW n \in DOMAIN e1.queue[s], e1.queue[s][n].op \in EndOps PROVE FALSE
    OBVIOUS
  <2> DEFINE N == Len(queue[s])
  <2>1. /\ N \in Nat /\ DOMAIN queue[s] = 1 .. N
        /\ DOMAIN e1.queue[s] = 1 .. N - 1
        /\ \A m \in 1 .. N - 1 : e1.queue[s][m] = queue[s][m + 1]
    BY <1>e, <1>h, <1>t, WithoutGives DEF Taken
  <2> HIDE DEF N
  <2>2. n + 1 \in 1 .. N /\ n + 1 # 1 /\ e1.queue[s][n] = queue[s][n + 1]
    BY <2>1
  <2>3. Exec.op # "set"
    <3>1. SUFFICES ASSUME DOMAIN queue[s] = {1} PROVE FALSE
      BY <1>h
    <3>2. n + 1 \in {1}
      BY <2>1, <2>2, <3>1
    <3> QED
      BY <2>2, <3>2
  <2>4. Exec.op \in EndOps
    BY <2>3
  <2>5. EndedOnce(Now)
    BY <1>c DEF Chains
  <2>6. n + 1 = 1
    BY <2>1, <2>2, <2>4, <2>5, <1>h, <1>n DEF EndedOnce
  <2> QED
    BY <2>2, <2>6
<1>2. Chains(e2, V, parent, inside, guarded)
  <2>1. e2.wire = e1.wire /\ e2.queue = Without(e1.queue, parent[s]) /\ e2.state = [e1.state EXCEPT ![s] = as]
    BY <1>e, <1>s DEF p
  <2>2. e1.state[s] \in {"open", "ending"} /\ parent[s] # s
    BY <1>e, <1>s, <1>p DEF p
  <2>3. Chains(e2, {s} \union {parent[s]}, parent, inside, guarded)
    BY <2>1, <2>2, <1>1, <1>h, <1>o, <1>t, CloseKeeps
  <2> QED
    BY <2>3 DEF p
<1>v. s \in V /\ p \in V \ {s} /\ (\A x \in V \ {s} : x = p) /\ (V \ {s}) \ {p} = {}
  BY <1>p
<1> HIDE DEF V
<1>3. /\ Chains(Start(e2, s), V \ {s}, parent, inside, guarded)
      /\ \A x \in Scope : \/ Start(e2, s).state[x] = e2.state[x]
                          \/ e2.state[x] = "queued" /\ Start(e2, s).state[x] = "opening"
  BY <1>2, <1>v, <1>h, StartKeeps
<1>4. /\ Chains(d, (V \ {s}) \ {p}, parent, inside, guarded)
      /\ \A x \in Scope : \/ d.state[x] = Start(e2, s).state[x]
                          \/ Start(e2, s).state[x] = "queued" /\ d.state[x] = "opening"
  BY <1>3, <1>v, <1>p, StartKeeps DEF d
<1>5. Chains(d, {}, parent', inside', guarded')
  BY <1>4, <1>v
<1>6. ChainsHold'
  BY <1>5, <1>d, ChainsNext
<1>7. \A x \in Scope : \/ d.state[x] = e2.state[x]
                       \/ e2.state[x] = "queued" /\ d.state[x] = "opening"
  BY <1>3, <1>4
<1>8. state'[s] = as /\ Opens(state, state', {s})
  <2>1. state' = d.state
    BY <1>d DEF Becomes
  <2>2. e2.state[s] = as /\ \A x \in Scope : x # s => e2.state[x] = state[x]
    BY <1>e, <1>h, <1>t
  <2> QED
    BY <2>1, <2>2, <1>7, <1>h DEF Opens
<1>9. ASSUME LineHolds PROVE LineHolds'
  <2>1. UnderWay(e1) = UnderWay(Now) /\ UnderWay(e1) = Going(state)
    BY <1>s, <1>e, <1>n, GoingIs
  <2>a. Line(Now, {}, inside) /\ UnderWay(e1) = UnderWay(Now)
    BY <1>9, <2>1 DEF LineHolds
  <2>b. Head(Now.wire).op \in EndOps \union {"save", "set"}
    BY <1>n DEF Exec
  <2>c. s = SentFrom(Now) /\ e1.wire = Tail(Now.wire) /\ e1.queue = Without(Now.queue, s)
    BY <1>a
  <2>d. Line(e1, {s}, inside)
    BY <2>a, <2>c, <1>c, LinePop
  <2>e. e1.queue[s] = <<>>
    <3>1. Empty(e1, s)
      BY <2>a, <2>b, <2>c, <1>c, LinePop
    <3> QED
      BY <3>1 DEF Empty
  <2>2. Line(e1, {s}, inside) /\ e1.queue[s] = <<>>
    BY <2>d, <2>e
  <2>3. UnderWay(e2) = UnderWay(e1) \ {s}
    BY <2>1, <1>e, <1>h, <1>t, GoingIs DEF Going, Running
  <2>4. s \in UnderWay(e1)
    BY <2>1, <1>h DEF Going, Running
  <2>5. Line(e2, {parent[s]}, inside)
    <3>1. e2.wire = e1.wire /\ e2.queue = Without(e1.queue, parent[s])
      BY <1>e DEF p
    <3> QED
      BY <3>1, <2>2, <2>3, <2>4, <1>1, LineClose
  <2>6. e2.queue[s] = <<>>
    <3>1. e1.queue \in Queues
      BY <1>1 DEF Chains, ChainTypes
    <3>2. e2.queue = Without(e1.queue, p)
      BY <1>e
    <3> QED
      BY <3>1, <3>2, <2>2, <1>p, <1>h DEF Without, Queues
  <2>7. Start(e2, s) = e2
    BY <2>6 DEF Start
  <2>8. Chains(e2, V \ {s}, parent, inside, guarded)
    BY <2>7, <1>3
  <2>9. Line(e2, V \ {s}, inside)
    <3>1. V \ {s} = {parent[s]}
      BY <1>v DEF p
    <3> QED
      BY <3>1, <2>5
  <2>10. Line(Start(e2, p), {}, inside)
    BY <2>8, <2>9, <1>v, <1>p, LineStart
  <2>11. Line(d, {}, inside')
    BY <2>7, <2>10 DEF d
  <2> QED
    BY <2>11, <1>d, LineNext
<1> QED
  BY <1>6, <1>8, <1>9, <1>h

-----------------------------------------------------------------------------
(* What each action makes of the chains, the line and the scopes' states.    *)

LEMMA AlwaysIs ==
  ASSUME Always
  PROVE  /\ TurnsTypeOK /\ ChainsHold /\ Tree(parent, inside) /\ Nested
         /\ WindowsGuarded /\ GuardedOpened /\ MarksInOrder
         /\ Chains(Now, {}, parent, inside, guarded)
         /\ parent \in [Scope -> Level] /\ inside \in [Level -> SUBSET Level]
         /\ state \in [Scope -> States] /\ queue \in Queues /\ wire \in Seq(WItem)
BY NowIs DEF Always, ChainsHold, Chains, ChainTypes, Tree

\* Code queues at a level its own is nested in, the root or one that is not closed.
LEMMA NearestIs ==
  ASSUME Always, NEW l \in Level
  PROVE  /\ Nearest(l) \in inside[l] /\ Nearest(l) \in Level
         /\ IsNearest(Nearest(l), l)
<1>1. \E m \in inside[l] : IsNearest(m, l)
  BY AlwaysIs DEF Nested
<1>2. Nearest(l) \in inside[l] /\ IsNearest(Nearest(l), l)
  BY <1>1 DEF Nearest
<1> QED
  BY <1>2, AlwaysIs

LEMMA NearestOpen ==
  ASSUME Always, NEW l \in Sending, NEW k, k = Nearest(l)
  PROVE  /\ l \in Level /\ k \in Level /\ k \in inside[l]
         /\ k = Root \/ (k \in Scope /\ state[k] \in {"open", "ending"})
         /\ k = Root \/ k \in Going(state)
<1>1. l \in Level /\ (l = Root \/ state[l] \in Opened)
  BY DEF Sending
<1>2. k \in Level /\ k \in inside[l] /\ IsNearest(k, l)
  BY <1>1, NearestIs
<1>3. k = Root \/ ~Closed(k)
  BY <1>2 DEF IsNearest
<1>4. k # Root => k \in Scope /\ state[k] \in Opened
  BY <1>1, <1>2, LevelIs, AlwaysIs DEF Nested
<1> QED
  BY <1>1, <1>2, <1>3, <1>4 DEF Closed, Opened, Going, Running

\* A level that is not ending has nothing queued that ends it.
LEMMA NoEnds ==
  ASSUME Always, NEW k \in Level, k = Root \/ state[k] # "ending"
  PROVE  \A n \in DOMAIN queue[k] : queue[k][n].op \notin EndOps
<1>1. LastItems(Now, guarded)
  BY AlwaysIs DEF Chains
<1> QED
  BY <1>1, NowIs, LevelIs DEF LastItems

LEMMA GoingSame ==
  ASSUME NEW st, \A s \in Scope : st[s] \in Running <=> state[s] \in Running
  PROVE  Going(st) = Going(state)
BY DEF Going

LEMMA RunMoves ==
  ASSUME Always, NEW l \in Level, Run(l)
  PROVE  /\ ChainsHold' /\ Opens(state, state', {})
         /\ ~strayed' => ~strayed
         /\ ~strayed' /\ LineHolds => LineHolds'
<1> DEFINE k == Nearest(l)
           i == Item("write", l)
           d == Enqueued(k, i, state)
<1>1. l \in Sending /\ Becomes(d) /\ Stray(k)
      /\ parent' = parent /\ inside' = inside /\ guarded' = guarded
  BY DEF Run, Enqueue
<1>i. i \in QItem /\ i.op = "write" /\ i.by = l
  BY DEF Item, QItem, Ops
<1>k. k = Nearest(l)
  OBVIOUS
<1> HIDE DEF k, i, d
<1>2. /\ k \in Level /\ k \in inside[l]
      /\ k = Root \/ (k \in Scope /\ state[k] \in {"open", "ending"})
      /\ k = Root \/ k \in Going(state)
  BY <1>1, <1>k, NearestOpen
<1>3. Fits(Now, state, k, i, parent, inside, guarded)
  <2>1. l = Root \/ state[l] \in Opened
    BY <1>1 DEF Sending
  <2>2. k = Root \/ state[k] \in Opened
    BY <1>2 DEF Opened
  <2>3. i.op \notin {"save", "set"} /\ i.op # "scope" /\ i.op \notin EndOps
    BY <1>i DEF EndOps
  <2>4. state \in [Scope -> States]
    BY AlwaysIs
  <2> QED
    BY <1>i, <1>2, <2>1, <2>2, <2>3, <2>4, NowIs DEF Fits
<1>4. Chains(Now, {}, parent, inside, guarded) /\ parent \in [Scope -> Level] /\ Tree(parent, inside)
  BY AlwaysIs
<1>5. /\ Chains(d, {}, parent, inside, guarded)
      /\ Opens(state, d.state, {})
  BY <1>2, <1>3, <1>4, EnqueueKeeps DEF d
<1>6. ~strayed' => ~strayed /\ (k = Root \/ state[k] # "ending")
  BY <1>1 DEF Stray
<1>7. ASSUME ~strayed', LineHolds PROVE LineHolds'
  <2>1. \A n \in DOMAIN queue[k] : queue[k][n].op \notin EndOps
    BY <1>2, <1>6, <1>7, NoEnds
  <2>2. Line(d, {}, inside)
    <3>1. Line(Now, {}, inside) /\ k \in Going(state) \union {Root}
      BY <1>2, <1>7 DEF LineHolds
    <3> QED
      BY <1>2, <1>3, <1>4, <2>1, <3>1, EnqueueKeeps DEF d
  <2> QED
    BY <1>1, <2>2, LineNext
<1>8. ChainsHold'
  BY <1>1, <1>5, ChainsNext
<1>9. Opens(state, state', {})
  BY <1>1, <1>5 DEF Becomes
<1> QED
  BY <1>6, <1>7, <1>8, <1>9

\* A scope's own last statement is queued when its body is done.
LEMMA EndMoves ==
  ASSUME Always, NEW s \in Scope, NEW op \in EndOps, state[s] = "open", s \in guarded,
         KindOf[s] = "role" <=> op = "restore",
         Enqueue(s, Item(op, s), [state EXCEPT ![s] = "ending"]),
         parent' = parent, inside' = inside, guarded' = guarded
  PROVE  /\ ChainsHold' /\ Opens(state, state', {s}) /\ state'[s] = "ending"
         /\ LineHolds => LineHolds'
<1> DEFINE i == Item(op, s)
           st == [state EXCEPT ![s] = "ending"]
           d == Enqueued(s, i, st)
<1>1. Becomes(d)
  BY DEF Enqueue
<1>i. i \in QItem /\ i.op = op /\ i.by = s
  BY LevelIs DEF Item, QItem, Ops, EndOps
<1>t. state \in [Scope -> States]
  BY AlwaysIs
<1>s. /\ st \in [Scope -> States] /\ st[s] = "ending"
      /\ \A x \in Scope : x # s => st[x] = state[x]
  BY <1>t DEF States, Running
<1> HIDE DEF i, st, d
<1>2. s \in Level /\ s # Root /\ s \in Going(state) \union {Root}
  BY LevelIs DEF Going, Running
<1>o. \A n \in DOMAIN queue[s] : queue[s][n].op \notin EndOps
  BY <1>2, NoEnds
<1>3. Fits(Now, st, s, i, parent, inside, guarded)
  <2>1. state[s] \in Opened
    BY DEF Opened
  <2>2. i.op \notin {"save", "set"} /\ i.op # "scope" /\ i.op # "write"
    BY <1>i DEF EndOps
  <2> QED
    BY <1>i, <1>s, <1>o, <2>1, <2>2, NowIs DEF Fits
<1>4. Chains(Now, {}, parent, inside, guarded) /\ parent \in [Scope -> Level] /\ Tree(parent, inside)
  BY AlwaysIs
<1>5. /\ Chains(d, {}, parent, inside, guarded)
      /\ Opens(st, d.state, {})
  BY <1>2, <1>3, <1>4, EnqueueKeeps DEF d
<1>6. ASSUME LineHolds PROVE LineHolds'
  <2>1. Line(Now, {}, inside)
    BY <1>6 DEF LineHolds
  <2>2. \A x \in Scope : st[x] \in Running <=> state[x] \in Running
    BY <1>s DEF Running
  <2>3. Going(st) = Going(state)
    BY <2>2, GoingSame
  <2>4. Line(d, {}, inside)
    BY <1>2, <1>3, <1>4, <1>o, <2>1, <2>3, EnqueueKeeps DEF d
  <2> QED
    BY <1>1, <2>4, LineNext
<1>7. ChainsHold'
  BY <1>1, <1>5, ChainsNext
<1>8. state' = d.state
  BY <1>1 DEF Becomes
<1>9. Opens(state, state', {s}) /\ state'[s] = "ending"
  BY <1>5, <1>8, <1>s DEF Opens
<1> QED
  BY <1>6, <1>7, <1>9

\* Nothing is nested in a scope that was not opened.
LEMMA NobodyInside ==
  ASSUME Always, NEW s \in Scope, state[s] \notin Opened
  PROVE  \A l \in Level : l # s => s \notin inside[l]
BY AlwaysIs DEF Nested

\* A new scope is a leaf of the tree.
LEMMA TreeGrows ==
  ASSUME NEW up, NEW in, NEW up2, NEW in2, NEW s \in Scope, NEW k \in Level,
         Tree(up, in), k # s, \A l \in Level : l # s => s \notin in[l],
         up2 \in [Scope -> Level], up2[s] = k, \A x \in Scope : x # s => up2[x] = up[x],
         in2 \in [Level -> SUBSET Level], in2[s] = {s} \union in[k],
         \A l \in Level : l # s => in2[l] = in[l]
  PROVE  Tree(up2, in2)
<1>t. in \in [Level -> SUBSET Level] /\ up \in [Scope -> Level]
  BY DEF Tree
<1>l. s \in Level /\ s # Root /\ Root \in Level
  BY LevelIs
<1>s. in2[s] = {s} \union in[k] /\ \A l \in Level : l # s => in2[l] = in[l]
  OBVIOUS
<1>u. up2[s] = k /\ \A x \in Scope : x # s => up2[x] = up[x]
  OBVIOUS
<1>1. in2 \in [Level -> SUBSET Level] /\ up2 \in [Scope -> Level]
  OBVIOUS
<1>k. in2[k] = in[k] /\ s \notin in[k] /\ k \in in[k]
  BY <1>s DEF Tree
<1>2. in2[Root] = {Root}
  BY <1>s, <1>l DEF Tree
<1>3. ASSUME NEW x \in Scope PROVE in2[x] = {x} \union in2[up2[x]] /\ x \notin in2[up2[x]]
  <2>1. CASE x = s
    BY <2>1, <1>s, <1>u, <1>k
  <2>2. CASE x # s
    <3>1. up2[x] = up[x] /\ up[x] \in Level /\ in[x] = {x} \union in[up[x]] /\ x \notin in[up[x]]
      BY <2>2, <1>u, <1>t DEF Tree
    <3>2. up[x] \in in[up[x]]
      BY <3>1 DEF Tree
    <3>3. up[x] # s
      BY <2>2, <3>1, <3>2, LevelIs
    <3>4. in2[x] = in[x] /\ in2[up[x]] = in[up[x]]
      BY <2>2, <3>1, <3>3, <1>s, LevelIs
    <3> QED
      BY <3>1, <3>4
  <2> QED
    BY <2>1, <2>2
<1>4. ASSUME NEW l \in Level PROVE l \in in2[l] /\ Root \in in2[l]
  BY <1>s, <1>k DEF Tree
<1>5. ASSUME NEW l \in Level, NEW m \in in2[l] PROVE in2[m] \subseteq in2[l]
  <2>1. CASE l # s
    <3>1. m \in in[l] /\ m # s /\ m \in Level /\ in2[l] = in[l]
      BY <2>1, <1>5, <1>s, <1>t
    <3>2. in2[m] = in[m] /\ in[m] \subseteq in[l]
      BY <3>1, <1>s DEF Tree
    <3> QED
      BY <3>1, <3>2
  <2>2. CASE l = s /\ m # s
    <3>1. m \in in[k] /\ m \in Level
      BY <2>2, <1>5, <1>s, <1>t
    <3>2. in2[m] = in[m] /\ in[m] \subseteq in[k]
      BY <2>2, <3>1, <1>s DEF Tree
    <3> QED
      BY <2>2, <3>2, <1>s
  <2> QED
    BY <2>1, <2>2
<1>6. ASSUME NEW l \in Level, NEW m \in Level, l \in in2[m], m \in in2[l] PROVE l = m
  <2>1. CASE l # s /\ m # s
    BY <2>1, <1>6, <1>s DEF Tree
  <2>2. CASE l = s /\ m # s
    BY <2>2, <1>6, <1>s
  <2>3. CASE l # s /\ m = s
    BY <2>3, <1>6, <1>s
  <2> QED
    BY <2>1, <2>2, <2>3
<1> QED
  BY <1>1, <1>2, <1>3, <1>4, <1>5, <1>6 DEF Tree

LEMMA ExclusiveMoves ==
  ASSUME Always, NEW l \in Level, NEW s \in Scope, Exclusive(l, s)
  PROVE  /\ ChainsHold' /\ Tree(parent', inside')
         /\ Opens(state, state', {s}) /\ state[s] = "unused" /\ state'[s] \in {"queued", "opening"}
         /\ \A x \in Level : x # s => inside'[x] = inside[x]
         /\ \A x \in Scope : x # s => parent'[x] = parent[x]
         /\ ~strayed' => ~strayed
         /\ ~strayed' /\ LineHolds => LineHolds'
<1> DEFINE k == Nearest(l)
           i == Item("scope", s)
           st == [state EXCEPT ![s] = "queued"]
           d == Enqueued(k, i, st)
<1>1. /\ l \in Sending /\ Becomes(d) /\ Stray(k) /\ state[s] = "unused"
      /\ parent' = [parent EXCEPT ![s] = k] /\ inside' = [inside EXCEPT ![s] = {s} \union inside[k]]
      /\ guarded' = guarded
  BY DEF Exclusive, Nest, Enqueue
<1>i. i \in QItem /\ i.op = "scope" /\ i.by = s
  BY LevelIs DEF Item, QItem, Ops
<1>k. k = Nearest(l)
  OBVIOUS
<1>t. /\ state \in [Scope -> States] /\ parent \in [Scope -> Level]
      /\ inside \in [Level -> SUBSET Level] /\ Tree(parent, inside)
      /\ Chains(Now, {}, parent, inside, guarded)
  BY AlwaysIs
<1>s. /\ st \in [Scope -> States] /\ st[s] = "queued"
      /\ \A x \in Scope : x # s => st[x] = state[x]
  BY <1>t DEF States, Running
<1> HIDE DEF k, i, st, d
<1>2. /\ k \in Level /\ k \in inside[l]
      /\ k = Root \/ (k \in Scope /\ state[k] \in {"open", "ending"})
      /\ k = Root \/ k \in Going(state)
  BY <1>1, <1>k, NearestOpen
<1>3. k # s /\ s \in Level /\ \A x \in Level : x # s => s \notin inside[x]
  BY <1>1, <1>2, NobodyInside, LevelIs DEF Opened
<1>5. /\ parent' \in [Scope -> Level] /\ parent'[s] = k
      /\ \A x \in Scope : x # s => parent'[x] = parent[x]
      /\ inside' \in [Level -> SUBSET Level] /\ inside'[s] = {s} \union inside[k]
      /\ \A x \in Level : x # s => inside'[x] = inside[x]
  BY <1>1, <1>2, <1>3, <1>t
<1>4. Tree(parent', inside')
  BY <1>2, <1>3, <1>5, <1>t, TreeGrows
<1>6. Chains(Now, {}, parent', inside', guarded)
  <2>1. Now.state[s] = "unused"
    BY <1>1, NowIs
  <2> QED
    BY <1>t, <1>5, <2>1, Renest
<1>7. Fits(Now, st, k, i, parent', inside', guarded)
  <2>1. k = Root \/ state[k] \in Opened
    BY <1>2 DEF Opened
  <2>2. i.op \notin {"save", "set"} /\ i.op # "write" /\ i.op \notin EndOps
    BY <1>i DEF EndOps
  <2> QED
    BY <1>1, <1>i, <1>2, <1>5, <1>s, <2>1, <2>2, NowIs DEF Fits
<1>p. parent' \in [Scope -> Level]
  BY <1>4 DEF Tree
<1>8. /\ Chains(d, {}, parent', inside', guarded)
      /\ Opens(st, d.state, {})
  BY <1>2, <1>6, <1>7, <1>p, EnqueueKeeps DEF d
<1>9. ~strayed' => ~strayed /\ (k = Root \/ state[k] # "ending")
  BY <1>1 DEF Stray
<1>10. ASSUME ~strayed', LineHolds PROVE LineHolds'
  <2>1. \A n \in DOMAIN queue[k] : queue[k][n].op \notin EndOps
    BY <1>2, <1>9, <1>10, NoEnds
  <2>2. Line(Now, {}, inside')
    <3>1. Line(Now, {}, inside)
      BY <1>10 DEF LineHolds
    <3>2. s \notin UnderWay(Now)
      BY <1>1, NowIs DEF UnderWay, Running
    <3>3. \A x \in UnderWay(Now) \union {Root} : inside'[x] = inside[x]
      BY <1>5, <1>3, <3>2, UnderWayIs, LevelIs
    <3>4. InOneLine(Now, {}, inside')
      BY <3>1, <3>3 DEF Line, InOneLine
    <3> QED
      BY <3>1, <3>4 DEF Line
  <2>3. \A x \in Scope : st[x] \in Running <=> state[x] \in Running
    BY <1>1, <1>s DEF Running
  <2>4. Going(st) = Going(state) /\ k \in Going(state) \union {Root}
    BY <1>2, <2>3, GoingSame
  <2>5. Line(d, {}, inside')
    BY <1>2, <1>4, <1>6, <1>7, <1>p, <2>1, <2>2, <2>4, EnqueueKeeps DEF d
  <2> QED
    BY <1>1, <2>5, LineNext
<1>11. ChainsHold'
  BY <1>1, <1>8, ChainsNext
<1>12. state' = d.state
  BY <1>1 DEF Becomes
<1>13. Opens(state, state', {s}) /\ state'[s] \in {"queued", "opening"}
  BY <1>8, <1>12, <1>s DEF Opens
<1> QED
  BY <1>1, <1>4, <1>5, <1>9, <1>10, <1>11, <1>13

\* An unguarded block just leaves the queue it was in.
LEMMA UnguardedMoves ==
  ASSUME Always, NEW s \in Scope, NEW ok \in BOOLEAN, SavepointBody(s, ok), s \notin guarded
  PROVE  /\ ChainsHold' /\ Opens(state, state', {s})
         /\ state[s] = "open" /\ state'[s] \in {"released", "failed"}
         /\ ~strayed' => ~strayed
         /\ ~strayed' /\ LineHolds => LineHolds'
<1> DEFINE p == parent[s]
           as == IF ok THEN "released" ELSE "failed"
           e == Settle(wire, queue, s, as)
           d == Start(e, p)
           V == {} \union {p}
<1>1. /\ state[s] = "open" /\ Becomes(d) /\ (strayed' <=> strayed \/ queue[s] # <<>>)
      /\ parent' = parent /\ inside' = inside /\ guarded' = guarded
  BY DEF SavepointBody
<1>t. /\ state \in [Scope -> States] /\ parent \in [Scope -> Level]
      /\ Tree(parent, inside) /\ Chains(Now, {}, parent, inside, guarded)
  BY AlwaysIs
<1>a. as \in {"released", "failed"}
  OBVIOUS
<1>e. /\ e.wire = Now.wire /\ e.queue = Without(Now.queue, parent[s])
      /\ e.state = [Now.state EXCEPT ![s] = as]
  BY NowIs DEF Settle
<1> HIDE DEF e, d, as
<1>p. p \in Level /\ p # s /\ s \in Level /\ s # Root
  <2>1. s \in Level /\ s # Root
    BY LevelIs
  <2>2. s \in inside[s] /\ s \notin inside[p]
    BY <2>1, <1>t DEF Tree
  <2> QED
    BY <2>1, <2>2, <1>t
<1>2. Chains(e, V, parent, inside, guarded)
  <2>1. \A n \in DOMAIN Now.queue[s] : Now.queue[s][n].op \notin EndOps
    BY <1>1, <1>p, NoEnds, NowIs
  <2>2. Now.state[s] \in {"open", "ending"} /\ parent[s] # s
    BY <1>1, <1>p, NowIs
  <2> QED
    BY <1>a, <1>e, <1>t, <2>1, <2>2, CloseKeeps
<1>v. p \in V /\ (\A x \in V : x = p)
  OBVIOUS
<1>w. V \ {p} = {}
  OBVIOUS
<1> HIDE DEF V
<1>3. /\ Chains(d, V \ {p}, parent, inside, guarded)
      /\ \A x \in Scope : \/ d.state[x] = e.state[x]
                          \/ e.state[x] = "queued" /\ d.state[x] = "opening"
  BY <1>2, <1>v, <1>p, StartKeeps DEF d
<1>4. ChainsHold'
  <2>1. Chains(d, {}, parent', inside', guarded')
    BY <1>1, <1>3, <1>w
  <2> QED
    BY <1>1, <2>1, ChainsNext
<1>5. state'[s] = as /\ Opens(state, state', {s})
  <2>1. state' = d.state
    BY <1>1 DEF Becomes
  <2>2. e.state[s] = as /\ \A x \in Scope : x # s => e.state[x] = state[x]
    BY <1>e, <1>t, NowIs
  <2> QED
    BY <2>1, <2>2, <1>3, <1>a DEF Opens
<1>6. ASSUME ~strayed', LineHolds PROVE LineHolds'
  <2>1. Now.queue[s] = <<>>
    BY <1>1, <1>6, NowIs
  <2>2. s \in UnderWay(Now) /\ UnderWay(e) = UnderWay(Now) \ {s}
    <3>1. s \in UnderWay(Now)
      BY <1>1, NowIs DEF UnderWay, Running
    <3>2. \A x \in Scope : x # s => e.state[x] = Now.state[x]
      BY <1>e, <1>t, NowIs
    <3>3. e.state[s] \notin Running
      BY <1>e, <1>t, <1>a, NowIs DEF Running
    <3> QED
      BY <3>1, <3>2, <3>3 DEF UnderWay
  <2>3. Line(Now, {}, inside) /\ {} \subseteq {s}
    BY <1>6 DEF LineHolds
  <2>4. Line(e, {parent[s]}, inside)
    BY <1>e, <1>t, <2>1, <2>2, <2>3, LineClose
  <2>5. Line(e, V, inside)
    BY <2>4 DEF V
  <2>6. Line(d, {}, inside')
    BY <1>1, <1>2, <1>t, <1>v, <1>p, <2>5, LineStart DEF d
  <2> QED
    BY <1>1, <2>6, LineNext
<1> QED
  BY <1>1, <1>4, <1>5, <1>6, <1>a

\* What Postgres executes is what HeadIs says of the statement.
LEMMA ExecIs ==
  ASSUME Always, wire # <<>>
  PROVE  /\ Exec.at = SentFrom(Now) /\ Exec.op \in Ops \ {"scope"}
         /\ Exec.by \in Level /\ Exec.at \in Level
         /\ queue[Exec.at] # <<>> /\ queue[Exec.at][1].op = Exec.op
         /\ Exec.op \in {"save", "set"} =>
              /\ Exec.by = Exec.at /\ Exec.by \in Scope /\ Exec.op = FirstOp(Exec.by)
              /\ state[Exec.by] = "opening"
         /\ Exec.op \in EndOps =>
              /\ Exec.by = Exec.at /\ Exec.by \in Scope /\ Exec.by \in guarded
              /\ state[Exec.by] = "ending"
              /\ KindOf[Exec.by] = "role" <=> Exec.op = "restore"
         /\ Exec.op = "write" =>
              /\ Exec.at \in inside[Exec.by]
              /\ Exec.by = Root \/ state[Exec.by] \in Opened
         /\ Exec.op \notin {"save", "set"} => Exec.at = Root \/ state[Exec.at] # "opening"
<1>1. Chains(Now, {}, parent, inside, guarded) /\ Now.wire # <<>>
  BY AlwaysIs, NowIs
<1> QED
  BY <1>1, HeadIs, NowIs DEF Exec, SentFrom

\* As long as nothing strayed it was sent at the innermost level.
LEMMA ExecInnermost ==
  ASSUME Always, LineHolds, wire # <<>>
  PROVE  /\ Exec.at \in Going(state) \union {Root} /\ Going(state) \subseteq inside[Exec.at]
         /\ inside[Exec.at] \subseteq Going(state) \union {Root}
<1>1. Chains(Now, {}, parent, inside, guarded) /\ Now.wire # <<>> /\ Line(Now, {}, inside)
  BY AlwaysIs, NowIs DEF LineHolds
<1>2. Head(Now.wire).at \in UnderWay(Now) \union {Root} /\ Innermost(Now, {}, Head(Now.wire).at)
  BY <1>1, WireInnermost
<1>3. UnderWay(Now) = Going(state) /\ Head(Now.wire).at = Exec.at
  BY GoingIs, NowIs DEF Exec
<1>4. inside[Root] = {Root}
  BY AlwaysIs DEF Tree
<1> QED
  BY <1>1, <1>2, <1>3, <1>4 DEF Line, InOneLine

LEMMA GoesMoves ==
  ASSUME Always, NEW k, NEW st \in [Scope -> States], wire # <<>>, k = SentFrom(Now), Goes(k, st),
         \A s \in Scope : \/ st[s] = state[s]
                          \/ Exec.op \in {"save", "set"} /\ s = Exec.by /\ st[s] = "open",
         Exec.op \in {"save", "set"} => st[Exec.by] = "open",
         parent' = parent, inside' = inside, guarded \subseteq guarded'
  PROVE  /\ ChainsHold' /\ Opens(st, state', {})
         /\ LineHolds /\ Going(st) = Going(state) => LineHolds'
<1> DEFINE e == [wire |-> Tail(wire), queue |-> Without(queue, k), state |-> st]
           d == Start(e, k)
<1>1. Becomes(d)
  BY DEF Goes
<1>2. e.wire = Tail(wire) /\ e.queue = Without(queue, k) /\ e.state = st
  OBVIOUS
<1>3. ChainsHold /\ Tree(parent, inside)
  BY AlwaysIs
<1> HIDE DEF e
<1>4. /\ Chains(Start(e, k), {}, parent, inside, guarded')
      /\ Opens(st, Start(e, k).state, {})
      /\ LineHolds /\ Going(st) = Going(state) => Line(Start(e, k), {}, inside)
  BY <1>2, <1>3, GoesKeeps
<1> HIDE DEF d
<1>5. /\ Chains(d, {}, parent', inside', guarded')
      /\ Opens(st, d.state, {})
      /\ LineHolds /\ Going(st) = Going(state) => Line(d, {}, inside')
  BY <1>4 DEF d
<1>6. ChainsHold'
  BY <1>1, <1>5, ChainsNext
<1>7. Opens(st, state', {})
  BY <1>1, <1>5 DEF Becomes
<1>8. ASSUME LineHolds, Going(st) = Going(state) PROVE LineHolds'
  BY <1>1, <1>5, <1>8, LineNext
<1> QED
  BY <1>6, <1>7, <1>8

LEMMA WriteMoves ==
  ASSUME Always, NEW ok \in BOOLEAN, ExecWrite(ok)
  PROVE  /\ ChainsHold' /\ Opens(state, state', {})
         /\ LineHolds => LineHolds'
<1> DEFINE k == Exec.at
<1>1. /\ wire # <<>> /\ Exec.op = "write" /\ Goes(k, state)
      /\ parent' = parent /\ inside' = inside /\ guarded \subseteq guarded'
  BY DEF ExecWrite
<1>2. k = SentFrom(Now) /\ state \in [Scope -> States]
  BY <1>1, ExecIs, AlwaysIs
<1> HIDE DEF k
<1>3. Exec.op \notin {"save", "set"}
  BY <1>1
<1> QED
  BY <1>1, <1>2, <1>3, GoesMoves

\* A scope's first statement is done: its body runs.
LEMMA OpenMoves ==
  ASSUME Always, NEW s, ExecutesOwn(s), Exec.op \in {"save", "set"},
         Goes(s, [state EXCEPT ![s] = "open"]),
         parent' = parent, inside' = inside, guarded \subseteq guarded'
  PROVE  /\ s \in Scope /\ state[s] = "opening" /\ state'[s] = "open" /\ Exec.op = FirstOp(s)
         /\ ChainsHold' /\ Opens(state, state', {s})
         /\ LineHolds => LineHolds'
<1> DEFINE st == [state EXCEPT ![s] = "open"]
<1>1. /\ wire # <<>> /\ s = SentFrom(Now) /\ s \in Scope /\ state[s] = "opening"
      /\ Exec.op = FirstOp(s)
  BY ExecIs DEF ExecutesOwn
<1>2. state \in [Scope -> States]
  BY AlwaysIs
<1>3. /\ st \in [Scope -> States] /\ st[s] = "open"
      /\ \A x \in Scope : x # s => st[x] = state[x]
  BY <1>1, <1>2 DEF States, Running
<1>4. Goes(s, st)
  OBVIOUS
<1> HIDE DEF st
<1>5. /\ \A x \in Scope : \/ st[x] = state[x]
                          \/ Exec.op \in {"save", "set"} /\ x = Exec.by /\ st[x] = "open"
      /\ Exec.op \in {"save", "set"} => st[Exec.by] = "open"
  BY <1>3 DEF ExecutesOwn
<1>6. /\ ChainsHold' /\ Opens(st, state', {})
      /\ LineHolds /\ Going(st) = Going(state) => LineHolds'
  BY <1>1, <1>3, <1>4, <1>5, GoesMoves
<1>7. Going(st) = Going(state)
  <2>1. \A x \in Scope : st[x] \in Running <=> state[x] \in Running
    BY <1>1, <1>3 DEF Running
  <2> QED
    BY <2>1, GoingSame
<1>8. state'[s] = "open" /\ Opens(state, state', {s})
  BY <1>1, <1>3, <1>6 DEF Opens
<1> QED
  BY <1>1, <1>6, <1>7, <1>8

\* A refused RELEASE is done: the ROLLBACK TO it leads to is the last in its queue.
LEMMA RetryMoves ==
  ASSUME Always, NEW s, ExecutesOwn(s), Exec.op = "release",
         Becomes(Start([wire |-> Tail(wire), state |-> state,
                        queue |-> Behind(Without(queue, s), s, Item("rollback", s))], s)),
         parent' = parent, inside' = inside, guarded' = guarded
  PROVE  /\ ChainsHold' /\ Opens(state, state', {})
         /\ LineHolds => LineHolds'
<1> DEFINE i == Item("rollback", s)
           e == [wire |-> Tail(wire), queue |-> Without(queue, s), state |-> state]
           r == [wire |-> Tail(wire), state |-> state, queue |-> Behind(Without(queue, s), s, i)]
           d == Start(r, s)
           U == {s}
<1>d. Becomes(d)
  OBVIOUS
<1>e. e.wire = Tail(wire) /\ e.queue = Without(queue, s) /\ e.state = state
  OBVIOUS
<1>r. r.wire = e.wire /\ r.queue = Behind(e.queue, s, i) /\ r.state = e.state
  OBVIOUS
<1>u. s \in U /\ (\A x \in U : x = s) /\ U \subseteq {s} /\ U \union {s} = U
  OBVIOUS
<1>v. U \ {s} = {}
  OBVIOUS
<1>h. /\ wire # <<>> /\ s = SentFrom(Now) /\ s \in Scope /\ s \in Level /\ s \in guarded
      /\ queue[s] # <<>> /\ queue[s][1].op = "release" /\ state[s] = "ending"
      /\ KindOf[s] # "role"
  BY ExecIs, LevelIs DEF ExecutesOwn, EndOps
<1>i. i \in QItem /\ i.op = "rollback" /\ i.by = s
  BY <1>h DEF Item, QItem, Ops
<1>t. /\ Chains(Now, {}, parent, inside, guarded) /\ Tree(parent, inside)
      /\ state \in [Scope -> States] /\ queue \in Queues /\ parent \in [Scope -> Level]
  BY AlwaysIs
<1> HIDE DEF e, r, d, i
<1>a. /\ Now.wire # <<>> /\ e.wire = Tail(Now.wire) /\ e.queue = Without(Now.queue, s)
      /\ e.state \in [Scope -> States]
      /\ \A x \in Scope : \/ e.state[x] = Now.state[x]
                          \/ /\ Head(Now.wire).op \in {"save", "set"}
                             /\ x = Head(Now.wire).by /\ e.state[x] = "open"
      /\ Head(Now.wire).op \in {"save", "set"} => e.state[Head(Now.wire).by] = "open"
  BY <1>e, <1>h, <1>t, NowIs DEF Exec
<1>1. Chains(e, U, parent, inside, guarded)
  <2>1. Chains(e, {s}, parent, inside, guarded)
    BY <1>a, <1>h, <1>t, PopItem
  <2> QED
    BY <2>1 DEF U
<1> HIDE DEF U
<1>o. \A n \in DOMAIN e.queue[s] : e.queue[s][n].op \notin EndOps
  <2> SUFFICES ASSUME NEW n \in DOMAIN e.queue[s], e.queue[s][n].op \in EndOps PROVE FALSE
    OBVIOUS
  <2> DEFINE N == Len(queue[s])
  <2>1. /\ N \in Nat /\ DOMAIN queue[s] = 1 .. N
        /\ DOMAIN e.queue[s] = 1 .. N - 1
        /\ \A m \in 1 .. N - 1 : e.queue[s][m] = queue[s][m + 1]
        /\ 1 \in DOMAIN queue[s]
    <3>1. queue \in Queues /\ s \in Level /\ queue[s] # <<>> /\ e.queue = Without(queue, s)
      BY <1>e, <1>h, <1>t
    <3>2. Taken(e.queue, queue, s)
      BY <3>1, WithoutGives
    <3>3. 1 \in DOMAIN queue[s]
      BY <3>1, QueueIs
    <3> QED
      BY <3>2, <3>3 DEF Taken
  <2> HIDE DEF N
  <2>2. n + 1 \in 1 .. N /\ n + 1 # 1 /\ e.queue[s][n] = queue[s][n + 1]
    BY <2>1
  <2>3. EndedOnce(Now)
    BY <1>t DEF Chains
  <2>4. queue[s][1].op \in EndOps
    BY <1>h DEF EndOps
  <2>5. n + 1 = 1
    BY <2>1, <2>2, <2>3, <2>4, <1>h, NowIs DEF EndedOnce
  <2> QED
    BY <2>2, <2>5
<1>2. Chains(r, U, parent, inside, guarded)
  <2>1. Fits(e, r.state, s, i, parent, inside, guarded)
    <3>1. i.op \notin {"save", "set"} /\ i.op # "scope" /\ i.op # "write" /\ i.op # "restore"
      BY <1>i
    <3>2. e.state[s] \in Opened /\ r.state \in [Scope -> States] /\ r.state = e.state
      BY <1>e, <1>r, <1>h, <1>t DEF Opened
    <3> QED
      BY <1>i, <1>h, <1>e, <1>o, <3>1, <3>2 DEF Fits
  <2>2. Chains(r, Due(e, U, s), parent, inside, guarded)
    BY <1>1, <1>h, <1>t, <1>r, <2>1, AddItem
  <2>3. Due(e, U, s) = U
    BY <1>u DEF Due
  <2> QED
    BY <2>2, <2>3
<1>3. /\ Chains(d, U \ {s}, parent, inside, guarded)
      /\ \A x \in Scope : \/ d.state[x] = r.state[x]
                          \/ r.state[x] = "queued" /\ d.state[x] = "opening"
  BY <1>2, <1>u, <1>h, StartKeeps DEF d
<1>4. ChainsHold'
  <2>1. Chains(d, {}, parent', inside', guarded')
    BY <1>3, <1>v
  <2> QED
    BY <1>d, <2>1, ChainsNext
<1>5. Opens(state, state', {})
  BY <1>3, <1>d, <1>e, <1>r DEF Opens, Becomes
<1>6. ASSUME LineHolds PROVE LineHolds'
  <2>1. UnderWay(e) = UnderWay(Now) /\ UnderWay(r) = UnderWay(e)
    BY <1>e, <1>r, NowIs, GoingIs
  <2>2. Line(Now, {}, inside)
    BY <1>6 DEF LineHolds
  <2>3. e.wire = Tail(Now.wire) /\ e.queue = Without(Now.queue, s) /\ Now.wire # <<>> /\ s = SentFrom(Now)
    BY <1>a, <1>h
  <2>4. Line(e, {s}, inside)
    BY <2>1, <2>2, <2>3, <1>t, LinePop
  <2>5. Line(e, U, inside)
    BY <2>4 DEF U
  <2>6. s \in UnderWay(e) \union {Root}
    BY <1>h, <1>e DEF UnderWay, Running
  <2>7. Line(r, Due(e, U, s), inside)
    BY <1>1, <1>o, <1>r, <1>i, <1>t, <1>u, <2>1, <2>5, <2>6, LineAdd
  <2>8. Due(e, U, s) = U
    BY <1>u DEF Due
  <2>9. Line(r, U, inside)
    BY <2>7, <2>8
  <2>10. Line(d, {}, inside')
    BY <1>2, <1>t, <1>u, <1>h, <2>9, LineStart DEF d
  <2> QED
    BY <1>d, <2>10, LineNext
<1> QED
  BY <1>4, <1>5, <1>6

-----------------------------------------------------------------------------
(* The nesting and the types.                                                *)

\* Scope s goes on, from under way to opened; at most others start.  (When s is
\* the root no scope goes on.)
Moves(s) ==
  /\ Opens(state, state', {s})
  /\ s \in Scope => state[s] \in Running /\ state'[s] \in Opened

\* What was opened stays so, and what is closed stays as it is.
Forward ==
  \A x \in Scope :
    /\ state[x] \in Opened => state'[x] \in Opened
    /\ state[x] \in {"released", "failed"} => state'[x] = state[x]

LEMMA NobodyMoves == ASSUME Opens(state, state', {}) PROVE Moves(Root)
BY LevelIs DEF Moves, Opens

LEMMA MovesForward ==
  ASSUME NEW s \in Level, Moves(s)
  PROVE  /\ Forward
         /\ \A x \in Scope : x # s /\ state[x] \notin {"released", "failed"} =>
              state'[x] \notin {"released", "failed"}
         /\ \A x \in Scope : state[x] # "unused" => state'[x] # "unused"
         /\ \A x \in Scope : state'[x] = "unused" => state[x] = "unused"
<1>1. \A x \in Scope : x # s => state'[x] = state[x] \/ (state[x] = "queued" /\ state'[x] = "opening")
  BY DEF Moves, Opens
<1>2. s \in Scope => state[s] \in Running /\ state'[s] \in Opened
  BY DEF Moves
<1> QED
  BY <1>1, <1>2 DEF Forward, Running, Opened

\* When scope s closes, what was nested nearest in it is so in what it is nested in.
LEMMA NestedStays ==
  ASSUME Always, NEW s \in Level, Moves(s), parent' = parent, inside' = inside
  PROVE  Nested'
<1>t. Tree(parent, inside) /\ Nested /\ parent \in [Scope -> Level] /\ inside \in [Level -> SUBSET Level]
  BY AlwaysIs
<1>f. /\ Forward
      /\ \A x \in Scope : x # s /\ ~Closed(x) => ~Closed(x)'
      /\ \A x \in Scope : Closed(x) => Closed(x)'
      /\ \A x \in Scope : state'[x] = "unused" => state[x] = "unused"
  BY MovesForward DEF Closed, Forward
<1>1. \A l \in Level : \A x \in inside'[l] : x \in Scope /\ x # l => state'[x] \in Opened
  BY <1>t, <1>f DEF Nested, Forward
<1>2. \A x \in Scope : state'[x] = "unused" => parent'[x] = Root
  BY <1>t, <1>f DEF Nested
<1>3. ASSUME NEW l \in Level PROVE \E m \in inside'[l] : IsNearest(m, l)'
  <2> DEFINE Still(x) == {n \in inside[x] : n = Root \/ ~Closed(n)}
             Left(x) == {n \in inside[x] : n = Root \/ ~Closed(n)'}
  <2>1. \A m, x : IsNearest(m, x) <=> m \in Still(x) /\ Still(x) \subseteq inside[m]
    BY DEF IsNearest
  <2>2. \A m, x : IsNearest(m, x)' <=> m \in Left(x) /\ Left(x) \subseteq inside[m]
    BY DEF IsNearest
  <2>3. \A x \in Level : Left(x) \subseteq Still(x)
    BY <1>f, <1>t, LevelIs
  <2>4. \A x \in Level : \A n \in Still(x) : n # s \/ s = Root => n \in Left(x)
    BY <1>f, <1>t, LevelIs
  <2>5. PICK m \in inside[l] : IsNearest(m, l)
    BY <1>t DEF Nested
  <2>6. m \in Still(l) /\ Still(l) \subseteq inside[m] /\ m \in Level
    BY <2>1, <2>5, <1>t
  <2>7. CASE m \in Left(l)
    BY <2>2, <2>3, <2>5, <2>6, <2>7
  <2>8. CASE m \notin Left(l)
    <3>1. m = s /\ s # Root /\ s \in Scope
      BY <2>4, <2>6, <2>8, LevelIs
    <3> DEFINE p == parent[s]
    <3>2. p \in Level /\ inside[s] = {s} \union inside[p] /\ s \notin inside[p]
      BY <3>1, <1>t DEF Tree
    <3> HIDE DEF p
    <3>3. PICK m2 \in inside[p] : IsNearest(m2, p)
      BY <3>2, <1>t DEF Nested
    <3>4. m2 \in Still(p) /\ Still(p) \subseteq inside[m2]
      BY <2>1, <3>3
    <3>5. m2 # s /\ m2 \in Left(p)
      BY <2>4, <3>2, <3>3, <3>4
    <3>6. inside[s] \subseteq inside[l]
      BY <2>5, <3>1, <1>t DEF Tree
    <3>7. m2 \in inside[l] /\ m2 \in Left(l)
      BY <3>2, <3>3, <3>5, <3>6
    <3>8. Left(l) \subseteq Still(p)
      <4> SUFFICES ASSUME NEW n \in Left(l) PROVE n \in Still(p)
        OBVIOUS
      <4>1. n \in Still(l) /\ n \in inside[s]
        BY <2>3, <2>6, <3>1
      <4>2. n # s
        BY <2>8, <3>1
      <4> QED
        BY <3>2, <4>1, <4>2
    <3>9. IsNearest(m2, l)'
      BY <2>2, <3>4, <3>7, <3>8
    <3> QED
      BY <3>7, <3>9
  <2> QED
    BY <2>7, <2>8
<1> QED
  BY <1>1, <1>2, <1>3 DEF Nested

LEMMA GuardsStay ==
  ASSUME Always, NEW s \in Level, Moves(s), guarded \subseteq guarded', guarded' \subseteq guarded \union {s},
         guarded' \subseteq Scope,
         s \in Scope /\ KindOf[s] = "role" /\ state'[s] \in {"open", "ending"} => s \in guarded'
  PROVE  WindowsGuarded' /\ GuardedOpened'
<1>1. \A x \in Scope : x # s => state'[x] = state[x] \/ (state[x] = "queued" /\ state'[x] = "opening")
  BY DEF Moves, Opens
<1>2. WindowsGuarded'
  BY <1>1, AlwaysIs DEF WindowsGuarded
<1>3. Forward
  BY MovesForward
<1>4. s \in Scope => state'[s] \in Opened
  BY DEF Moves
<1>5. guarded \subseteq Scope /\ GuardedOpened
  BY AlwaysIs DEF TurnsTypeOK
<1>6. GuardedOpened'
  BY <1>3, <1>4, <1>5 DEF GuardedOpened, Forward
<1> QED
  BY <1>2, <1>6

LEMMA TypeNext ==
  ASSUME ChainsHold', Tree(parent', inside'), opener' \in [Scope -> Level], guarded' \subseteq Scope,
         log' \in Seq([by : Level, at : Level, role : Roles]),
         marks' \in Seq([by : Scope, len : Nat, role : Roles]),
         failing' \in BOOLEAN, role' \in Roles, prev' \in [Scope -> Roles],
         accepted' \in [Level -> Nat], sent' \in 0 .. MaxWrites, strayed' \in BOOLEAN
  PROVE  TurnsTypeOK'
<1>1. ChainTypes(Now)'
  BY DEF ChainsHold, Chains
<1>2. state' \in [Scope -> States] /\ queue' \in Queues /\ wire' \in Seq(WItem)
  BY <1>1 DEF ChainTypes, Now
<1>3. inside' \in [Level -> SUBSET Level] /\ parent' \in [Scope -> Level]
  BY DEF Tree
<1> QED
  BY <1>2, <1>3 DEF TurnsTypeOK, States, Queues, QItem, WItem

LEMMA OrderStays ==
  ASSUME Always, log' = log, marks' = marks
  PROVE  MarksInOrder'
BY AlwaysIs DEF MarksInOrder

\* All that holds always holds after a step in which scope s goes on.
LEMMA AlwaysNext ==
  ASSUME Always, NEW s \in Level, Moves(s), ChainsHold', TurnsTypeOK',
         parent' = parent, inside' = inside,
         guarded \subseteq guarded', guarded' \subseteq guarded \union {s}, MarksInOrder',
         s \in Scope /\ KindOf[s] = "role" /\ state'[s] \in {"open", "ending"} => s \in guarded'
  PROVE  Always'
<1>1. Nested'
  BY NestedStays
<1>2. guarded' \subseteq Scope
  BY DEF TurnsTypeOK
<1>3. WindowsGuarded' /\ GuardedOpened'
  BY <1>2, GuardsStay
<1>4. Tree(parent, inside)'
  BY AlwaysIs
<1> QED
  BY <1>1, <1>3, <1>4 DEF Always, ChainsHold

-----------------------------------------------------------------------------
(* The log and the savepoints, as long as nothing strayed.                   *)

LEMMA LogTyped ==
  ASSUME TurnsTypeOK
  PROVE  /\ log \in Seq([by : Level, at : Level, role : Roles])
         /\ Len(log) \in Nat /\ DOMAIN log = 1 .. Len(log)
         /\ \A n \in DOMAIN log : log[n].by \in Level /\ log[n].at \in Level /\ log[n].role \in Roles
         /\ marks \in Seq([by : Scope, len : Nat, role : Roles])
         /\ Len(marks) \in Nat /\ DOMAIN marks = 1 .. Len(marks)
         /\ \A k \in DOMAIN marks : marks[k].by \in Scope /\ marks[k].len \in Nat /\ marks[k].role \in Roles
         /\ guarded \subseteq Scope
<1>1. /\ log \in Seq([by : Level, at : Level, role : Roles])
      /\ marks \in Seq([by : Scope, len : Nat, role : Roles])
      /\ guarded \subseteq Scope
  BY DEF TurnsTypeOK
<1>2. /\ Len(log) \in Nat /\ DOMAIN log = 1 .. Len(log)
      /\ \A n \in 1 .. Len(log) : log[n] \in [by : Level, at : Level, role : Roles]
  BY <1>1, ListIs
<1>3. /\ Len(marks) \in Nat /\ DOMAIN marks = 1 .. Len(marks)
      /\ \A k \in 1 .. Len(marks) : marks[k] \in [by : Scope, len : Nat, role : Roles]
  BY <1>1, ListIs
<1>4. \A n \in DOMAIN log : log[n].by \in Level /\ log[n].at \in Level /\ log[n].role \in Roles
  BY <1>2
<1>5. \A k \in DOMAIN marks : marks[k].by \in Scope /\ marks[k].len \in Nat /\ marks[k].role \in Roles
  BY <1>3
<1> QED
  BY <1>1, <1>2, <1>3, <1>4, <1>5

\* Where the levels of what Postgres has are nested.
LEMMA LevelsOfLog ==
  ASSUME Always, LogInv
  PROVE  /\ \A n \in DOMAIN log :
              /\ log[n].by \in Level /\ (log[n].by = Root \/ state[log[n].by] \in Opened)
              /\ log[n].at \in Level /\ (log[n].at = Root \/ state[log[n].at] \in Opened)
              /\ log[n].at \in inside[log[n].by] /\ inside[log[n].at] \subseteq inside[log[n].by]
         /\ \A k \in DOMAIN marks :
              /\ marks[k].by \in Scope /\ marks[k].by \in Level /\ state[marks[k].by] \in Opened
              /\ marks[k].by \in guarded /\ KindOf[marks[k].by] = "savepoint"
<1>1. /\ \A n \in DOMAIN log : log[n].by \in Level /\ log[n].at \in Level
      /\ \A k \in DOMAIN marks : marks[k].by \in Scope
  BY AlwaysIs, LogTyped
<1>2. ASSUME NEW n \in DOMAIN log
      PROVE  /\ log[n].by = Root \/ state[log[n].by] \in Opened
             /\ log[n].at = Root \/ state[log[n].at] \in Opened
             /\ log[n].at \in inside[log[n].by] /\ inside[log[n].at] \subseteq inside[log[n].by]
  <2>1. log[n].at \in inside[log[n].by] /\ (log[n].by = Root \/ state[log[n].by] \in Opened)
    BY <1>2 DEF LogInv, LogOfOpened
  <2>2. log[n].by \in Level /\ log[n].at \in Level
    BY <1>1
  <2>3. inside[log[n].at] \subseteq inside[log[n].by]
    BY <2>1, <2>2, AlwaysIs DEF Tree
  <2>4. log[n].at = log[n].by \/ log[n].at = Root \/ state[log[n].at] \in Opened
    BY <2>1, <2>2, AlwaysIs, LevelIs DEF Nested
  <2> QED
    BY <2>1, <2>3, <2>4
<1>3. ASSUME NEW k \in DOMAIN marks
      PROVE  state[marks[k].by] \in Opened /\ marks[k].by \in guarded /\ KindOf[marks[k].by] = "savepoint"
  <2>1. marks[k].by \in guarded /\ KindOf[marks[k].by] = "savepoint"
    BY DEF LogInv, MarksOfBlocks
  <2> QED
    BY <2>1, AlwaysIs DEF GuardedOpened
<1> QED
  BY <1>1, <1>2, <1>3, LevelIs

\* A step moves no level in the tree, but for a scope that was not used yet.
Rooted == \A l \in Level : inside'[l] = inside[l] \/ (l \in Scope /\ state[l] = "unused")

LEMMA OpenedRooted ==
  ASSUME Rooted, NEW l \in Level, l = Root \/ state[l] \in Opened
  PROVE  inside'[l] = inside[l] /\ (InRoleWindow(l)' <=> InRoleWindow(l))
<1>1. inside'[l] = inside[l]
  BY LevelIs DEF Rooted, Opened
<1> QED
  BY <1>1 DEF InRoleWindow

\* What leaves the log, the savepoints and the blocks they are of as they are leaves
\* them as they should be.
LEMMA LogStays ==
  ASSUME Always, Always', LogInv, Forward, Rooted,
         log' = log, marks' = marks, accepted' = accepted, guarded \subseteq guarded',
         \A x \in guarded' : x \in guarded \/ KindOf[x] = "role",
         \A x \in guarded : KindOf[x] = "savepoint" /\ ~Closed(x) => ~Closed(x)'
  PROVE  LogInv'
<1>l. /\ \A n \in DOMAIN log :
           /\ log[n].by \in Level /\ (log[n].by = Root \/ state[log[n].by] \in Opened)
           /\ log[n].at \in Level /\ (log[n].at = Root \/ state[log[n].at] \in Opened)
           /\ log[n].at \in inside[log[n].by] /\ inside[log[n].at] \subseteq inside[log[n].by]
      /\ \A k \in DOMAIN marks :
           /\ marks[k].by \in Scope /\ marks[k].by \in Level /\ state[marks[k].by] \in Opened
           /\ marks[k].by \in guarded /\ KindOf[marks[k].by] = "savepoint"
  BY LevelsOfLog
<1>i. /\ \A n \in DOMAIN log : inside'[log[n].by] = inside[log[n].by] /\ inside'[log[n].at] = inside[log[n].at]
      /\ \A k \in DOMAIN marks : inside'[marks[k].by] = inside[marks[k].by]
  BY <1>l, OpenedRooted
<1>f. \A x \in Scope : state[x] \in Opened => state'[x] \in Opened
  BY DEF Forward
<1>g. guarded \subseteq Scope /\ guarded' \subseteq Scope
  BY AlwaysIs, LogTyped DEF Always, TurnsTypeOK
<1>c. \A x \in guarded : KindOf[x] = "savepoint" /\ ~Closed(x)' => ~Closed(x)
  BY <1>g DEF Closed, Forward
<1>1. MarksOfBlocks'
  BY DEF LogInv, MarksOfBlocks
<1>2. LogOfOpened'
  BY <1>l, <1>i, <1>f, LevelIs DEF LogInv, LogOfOpened
<1>3. OpenMarked'
  <2> SUFFICES ASSUME NEW s \in guarded', KindOf[s] = "savepoint", ~Closed(s)' PROVE Marked(s)'
    BY DEF OpenMarked
  <2>1. s \in guarded
    OBVIOUS
  <2>2. Marked(s)
    BY <2>1, <1>c DEF LogInv, OpenMarked
  <2> QED
    BY <2>2 DEF Marked
<1>4. AfterMark'
  <2> SUFFICES ASSUME NEW k \in DOMAIN marks, ~Closed(marks[k].by)'
               PROVE  /\ \A n \in DOMAIN log : n > marks[k].len => marks[k].by \in inside'[log[n].by]
                      /\ \A j \in DOMAIN marks : j > k => marks[k].by \in inside'[marks[j].by]
    BY DEF AfterMark
  <2>1. ~Closed(marks[k].by)
    BY <1>l, <1>c
  <2> QED
    BY <2>1, <1>i DEF LogInv, AfterMark
<1>5. BeforeMark'
  BY <1>i DEF LogInv, BeforeMark
<1>6. Failed'
  <2> SUFFICES ASSUME NEW s \in guarded', KindOf[s] = "savepoint", state'[s] = "failed"
               PROVE  \A n \in DOMAIN log : s \notin inside'[log[n].at]
    BY DEF Failed
  <2>1. s \in guarded /\ s \in Scope
    BY <1>g
  <2>2. state[s] = "failed"
    <3>1. Closed(s)'
      BY DEF Closed
    <3>2. Closed(s)
      BY <2>1, <3>1
    <3> QED
      BY <2>1, <3>2 DEF Closed, Forward
  <2> QED
    BY <2>1, <2>2, <1>i DEF LogInv, Failed
<1>7. Kept'
  <2> SUFFICES ASSUME NEW l \in Level,
                      \A s \in inside'[l] \ {Root} : KindOf[s] = "savepoint" => state'[s] # "failed"
               PROVE  accepted[l] = Cardinality(WritesOf(l)')
    BY DEF Kept
  <2>1. WritesOf(l)' = WritesOf(l)
    BY DEF WritesOf
  <2>2. ASSUME NEW s \in inside[l] \ {Root} PROVE KindOf[s] = "savepoint" => state[s] # "failed"
    <3>1. s \in Scope
      BY AlwaysIs, LevelIs
    <3>2. CASE inside'[l] = inside[l]
      BY <2>2, <3>1, <3>2 DEF Forward
    <3>3. CASE l \in Scope /\ state[l] = "unused"
      <4>1. inside[l] = {l, Root}
        <5>1. parent[l] = Root
          BY <3>3, AlwaysIs DEF Nested
        <5> QED
          BY <3>3, <5>1, AlwaysIs DEF Tree
      <4>2. s = l
        BY <2>2, <4>1
      <4> QED
        BY <3>3, <4>2
    <3> QED
      BY <3>2, <3>3 DEF Rooted
  <2> QED
    BY <2>1, <2>2 DEF LogInv, Kept
<1> QED
  BY <1>1, <1>2, <1>3, <1>4, <1>5, <1>6, <1>7 DEF LogInv

\* The same of the roles.
LEMMA RolesKept ==
  ASSUME Always, LogInv, RoleInv, Rooted, log' = log, marks' = marks
  PROVE  MarkRole' /\ WriteRole'
<1>1. MarkRole'
  <2> SUFFICES ASSUME NEW k \in DOMAIN marks
               PROVE  marks[k].role = "engine" <=> InRoleWindow(marks[k].by)'
    BY DEF MarkRole, InRoleWindow
  <2>1. InRoleWindow(marks[k].by)' <=> InRoleWindow(marks[k].by)
    <3>1. marks[k].by \in Level /\ state[marks[k].by] \in Opened
      BY LevelsOfLog
    <3>2. inside'[marks[k].by] = inside[marks[k].by]
      BY <3>1, OpenedRooted
    <3> QED
      BY <3>2 DEF InRoleWindow
  <2> QED
    BY <2>1 DEF RoleInv, MarkRole
<1>2. WriteRole'
  <2> SUFFICES ASSUME NEW n \in DOMAIN log
               PROVE  /\ log[n].role = "engine" => InRoleWindow(log[n].by)'
                      /\ log[n].role = "request" => ~InRoleWindow(log[n].at)'
    BY DEF WriteRole, InRoleWindow
  <2>1. inside'[log[n].by] = inside[log[n].by] /\ inside'[log[n].at] = inside[log[n].at]
    BY LevelsOfLog, OpenedRooted
  <2>2. /\ InRoleWindow(log[n].by)' <=> InRoleWindow(log[n].by)
        /\ InRoleWindow(log[n].at)' <=> InRoleWindow(log[n].at)
    BY <2>1 DEF InRoleWindow
  <2> QED
    BY <2>2 DEF RoleInv, WriteRole
<1> QED
  BY <1>1, <1>2

LEMMA RoleStays ==
  ASSUME Always, LogInv, RoleInv, Rooted, log' = log, marks' = marks, RoleNow',
         \A x \in Windows' : x \in Windows /\ prev'[x] = prev[x] /\ parent'[x] = parent[x]
  PROVE  RoleInv'
<1>1. MarkRole' /\ WriteRole'
  BY RolesKept
<1>2. PrevRole'
  <2> SUFFICES ASSUME NEW x \in Windows'
               PROVE  prev'[x] = "engine" <=> InRoleWindow(parent[x])'
    BY DEF PrevRole, InRoleWindow
  <2>1. x \in Windows /\ x \in Scope /\ x \in Level
    BY AlwaysIs, LogTyped, LevelIs DEF Windows
  <2>2. /\ parent[x] \in Level /\ parent[x] \in inside[x]
        /\ parent[x] = Root \/ state[parent[x]] \in Opened
    BY <2>1, AlwaysIs, LevelIs DEF Tree, Nested
  <2>3. inside'[parent[x]] = inside[parent[x]]
    BY <2>2, OpenedRooted
  <2>4. InRoleWindow(parent[x])' <=> InRoleWindow(parent[x])
    <3>1. parent'[x] = parent[x]
      OBVIOUS
    <3> QED
      BY <2>3, <3>1 DEF InRoleWindow
  <2>5. prev'[x] = prev[x]
    OBVIOUS
  <2> QED
    BY <2>1, <2>4, <2>5 DEF RoleInv, PrevRole
<1> QED
  BY <1>1, <1>2 DEF RoleInv

\* A step that leaves what Postgres has as it is.
LEMMA QuietKeeps ==
  ASSUME TurnsInv, Always', NEW s \in Level, Moves(s),
         log' = log, marks' = marks, accepted' = accepted, inside' = inside, parent' = parent,
         prev' = prev, role' = role, guarded' = guarded, ~failing' => ~failing,
         s \in guarded => state'[s] \in Running,
         ~strayed' => ~strayed, ~strayed' /\ LineHolds => LineHolds'
  PROVE  TurnsInv'
<1> SUFFICES ASSUME ~strayed' PROVE Straight'
  BY DEF TurnsInv
<1>1. Always /\ LineHolds /\ LogInv /\ RoleInv
  BY DEF TurnsInv, Straight
<1>2. Rooted /\ Forward
  BY MovesForward DEF Rooted
<1>3. \A x \in guarded : x \in Scope /\ (x # s => state'[x] = state[x])
  <2>1. \A x \in guarded : x \in Scope /\ state[x] \in Opened
    BY <1>1, AlwaysIs, LogTyped DEF GuardedOpened
  <2> QED
    BY <2>1 DEF Moves, Opens, Opened
<1>4. LogInv'
  <2>1. \A x \in guarded : KindOf[x] = "savepoint" /\ ~Closed(x) => ~Closed(x)'
    BY <1>3 DEF Closed, Running
  <2> QED
    BY <1>1, <1>2, <2>1, LogStays
<1>5. Windows' = Windows
  <2>1. \A x \in guarded : state'[x] \in Running <=> state[x] \in Running
    BY <1>3 DEF Moves
  <2> QED
    BY <2>1 DEF Windows
<1>6. RoleNow'
  BY <1>1, <1>5 DEF RoleInv, RoleNow
<1>7. RoleInv'
  BY <1>1, <1>2, <1>5, <1>6, RoleStays
<1> QED
  BY <1>1, <1>4, <1>7 DEF Straight

-----------------------------------------------------------------------------
(* The invariant, action by action: first those that leave what Postgres has *)
(* as it is.                                                                 *)

\* The part of the type that is no part of the chains.
LEMMA RestTyped ==
  ASSUME TurnsTypeOK
  PROVE  /\ opener \in [Scope -> Level] /\ guarded \subseteq Scope
         /\ log \in Seq([by : Level, at : Level, role : Roles])
         /\ marks \in Seq([by : Scope, len : Nat, role : Roles])
         /\ failing \in BOOLEAN /\ role \in Roles /\ prev \in [Scope -> Roles]
         /\ accepted \in [Level -> Nat] /\ sent \in 0 .. MaxWrites /\ strayed \in BOOLEAN
BY DEF TurnsTypeOK

LEMMA RunKeeps ==
  ASSUME TurnsInv, NEW l \in Level, Run(l)
  PROVE  TurnsInv'
<1>a. Always /\ TurnsTypeOK
  BY AlwaysIs DEF TurnsInv
<1>1. /\ ChainsHold' /\ Opens(state, state', {})
      /\ ~strayed' => ~strayed
      /\ ~strayed' /\ LineHolds => LineHolds'
  BY <1>a, RunMoves
<1>2. /\ sent < MaxWrites /\ sent' = sent + 1 /\ strayed' \in BOOLEAN
      /\ parent' = parent /\ inside' = inside /\ opener' = opener /\ guarded' = guarded
      /\ log' = log /\ marks' = marks /\ failing' = failing /\ role' = role
      /\ prev' = prev /\ accepted' = accepted
  BY DEF Run, pgVars, Stray
<1>3. Moves(Root) /\ Root \in Level /\ Root \notin Scope
  BY <1>1, NobodyMoves, LevelIs
<1>4. TurnsTypeOK'
  <2>1. sent' \in 0 .. MaxWrites
    BY <1>2, <1>a, RestTyped, TurnsAssumption
  <2>2. Tree(parent', inside')
    BY <1>a, <1>2, AlwaysIs
  <2> QED
    BY <1>1, <1>2, <1>a, <2>1, <2>2, RestTyped, TypeNext
<1>o. MarksInOrder'
  BY <1>2, <1>a, OrderStays
<1>5. Always'
  BY <1>1, <1>2, <1>3, <1>4, <1>a, <1>o, AlwaysNext
<1>6. Root \notin guarded
  BY <1>3, <1>a, RestTyped
<1> QED
  BY <1>1, <1>2, <1>3, <1>5, <1>6, QuietKeeps

\* A scope that goes on, when all but the chains stays as it is.
LEMMA GoesOnKeeps ==
  ASSUME TurnsInv, NEW s \in Level, Moves(s), ChainsHold',
         parent' = parent, inside' = inside, opener' = opener, guarded' = guarded,
         log' = log, marks' = marks, role' = role, prev' = prev, accepted' = accepted,
         sent' = sent, failing' \in BOOLEAN, ~failing' => ~failing, strayed' \in BOOLEAN,
         s \in guarded => state'[s] \in Running,
         s \in Scope /\ KindOf[s] = "role" /\ state'[s] \in {"open", "ending"} => s \in guarded,
         ~strayed' => ~strayed, ~strayed' /\ LineHolds => LineHolds'
  PROVE  TurnsInv'
<1>a. Always /\ TurnsTypeOK /\ Tree(parent, inside)
  BY AlwaysIs DEF TurnsInv
<1>1. TurnsTypeOK'
  BY <1>a, RestTyped, TypeNext
<1>2. Always'
  BY <1>1, <1>a, OrderStays, AlwaysNext
<1> QED
  BY <1>2, QuietKeeps

LEMMA EndBodyKeeps ==
  ASSUME TurnsInv, NEW s \in Scope, EndBody(s)
  PROVE  TurnsInv'
<1>a. Always
  BY DEF TurnsInv
<1>r. strayed \in BOOLEAN /\ failing \in BOOLEAN
  BY <1>a, AlwaysIs, RestTyped
<1>s. s \in Level
  BY LevelIs
<1>1. ASSUME NEW op \in EndOps, state[s] = "open", s \in guarded, KindOf[s] = "role" <=> op = "restore",
             Enqueue(s, Item(op, s), [state EXCEPT ![s] = "ending"]),
             UNCHANGED <<parent, inside, opener, guarded, pgVars, sent, strayed>>
      PROVE  TurnsInv'
  <2>1. /\ parent' = parent /\ inside' = inside /\ opener' = opener /\ guarded' = guarded
        /\ log' = log /\ marks' = marks /\ failing' = failing /\ role' = role
        /\ prev' = prev /\ accepted' = accepted /\ sent' = sent /\ strayed' = strayed
    BY <1>1 DEF pgVars
  <2>2. /\ ChainsHold' /\ Opens(state, state', {s}) /\ state'[s] = "ending"
        /\ LineHolds => LineHolds'
    BY <1>1, <1>a, <2>1, EndMoves
  <2>3. Moves(s) /\ state'[s] \in Running
    BY <1>1, <2>2 DEF Moves, Running, Opened
  <2> QED
    BY <1>1, <1>r, <1>s, <2>1, <2>2, <2>3, GoesOnKeeps
<1>2. ASSUME NEW ok \in BOOLEAN, SavepointBody(s, ok), s \in guarded PROVE TurnsInv'
  <2> DEFINE op == IF ok THEN "release" ELSE "rollback"
  <2>1. op \in EndOps /\ op # "restore"
    BY DEF EndOps
  <2>2. /\ state[s] = "open" /\ KindOf[s] # "role"
        /\ Enqueue(s, Item(op, s), [state EXCEPT ![s] = "ending"])
        /\ UNCHANGED <<parent, inside, opener, guarded, pgVars, sent, strayed>>
    BY <1>2 DEF SavepointBody
  <2> HIDE DEF op
  <2> QED
    BY <1>1, <1>2, <2>1, <2>2
<1>3. ASSUME NEW ok \in BOOLEAN, SavepointBody(s, ok), s \notin guarded PROVE TurnsInv'
  <2>1. /\ parent' = parent /\ inside' = inside /\ opener' = opener /\ guarded' = guarded
        /\ log' = log /\ marks' = marks /\ failing' = failing /\ role' = role
        /\ prev' = prev /\ accepted' = accepted /\ sent' = sent /\ KindOf[s] # "role"
        /\ strayed' \in BOOLEAN
    BY <1>3 DEF SavepointBody, pgVars
  <2>2. /\ ChainsHold' /\ Opens(state, state', {s})
        /\ state[s] = "open" /\ state'[s] \in {"released", "failed"}
        /\ ~strayed' => ~strayed
        /\ ~strayed' /\ LineHolds => LineHolds'
    BY <1>3, <1>a, UnguardedMoves
  <2>3. Moves(s)
    BY <2>2 DEF Moves, Running, Opened
  <2> QED
    BY <1>3, <1>r, <1>s, <2>1, <2>2, <2>3, GoesOnKeeps
<1>4. ASSUME RoleBody(s) PROVE TurnsInv'
  <2>1. "restore" \in EndOps
    BY DEF EndOps
  <2>2. /\ state[s] = "open" /\ KindOf[s] = "role"
        /\ Enqueue(s, Item("restore", s), [state EXCEPT ![s] = "ending"])
        /\ UNCHANGED <<parent, inside, opener, guarded, pgVars, sent, strayed>>
    BY <1>4 DEF RoleBody
  <2>3. s \in guarded
    BY <2>2, <1>a, AlwaysIs DEF WindowsGuarded
  <2> QED
    BY <1>1, <2>1, <2>2, <2>3
<1> QED
  BY <1>2, <1>3, <1>4 DEF EndBody

LEMMA ExclusiveKeeps ==
  ASSUME TurnsInv, NEW l \in Level, NEW s \in Scope, Exclusive(l, s)
  PROVE  TurnsInv'
<1>a. Always /\ TurnsTypeOK /\ Tree(parent, inside) /\ Nested
  BY AlwaysIs DEF TurnsInv
<1>s. s \in Level /\ s # Root
  BY LevelIs
<1>1. /\ ChainsHold' /\ Tree(parent', inside')
      /\ Opens(state, state', {s}) /\ state[s] = "unused" /\ state'[s] \in {"queued", "opening"}
      /\ \A x \in Level : x # s => inside'[x] = inside[x]
      /\ \A x \in Scope : x # s => parent'[x] = parent[x]
      /\ ~strayed' => ~strayed
      /\ ~strayed' /\ LineHolds => LineHolds'
  BY <1>a, ExclusiveMoves
<1>2. /\ opener' = [opener EXCEPT ![s] = l] /\ guarded' = guarded
      /\ log' = log /\ marks' = marks /\ failing' = failing /\ role' = role
      /\ prev' = prev /\ accepted' = accepted /\ sent' = sent /\ strayed' \in BOOLEAN
  BY DEF Exclusive, Nest, pgVars, Stray
<1>3. \A x \in Scope : x # s => state'[x] = state[x] \/ (state[x] = "queued" /\ state'[x] = "opening")
  BY <1>1 DEF Opens
<1>4. TurnsTypeOK'
  <2>1. opener' \in [Scope -> Level]
    BY <1>2, <1>a, RestTyped
  <2> QED
    BY <1>1, <1>2, <1>a, <2>1, RestTyped, TypeNext
<1>o. \A x \in Level : x # s => s \notin inside[x]
  BY <1>1, <1>a, NobodyInside DEF Opened
<1>5. Nested'
  <2>1. inside'[s] = {s} \union inside[parent'[s]] /\ parent'[s] \in Level /\ parent'[s] # s
    <3>1. inside'[s] = {s} \union inside'[parent'[s]] /\ parent'[s] \in Level /\ s \notin inside'[parent'[s]]
      BY <1>1 DEF Tree
    <3>2. parent'[s] # s
      BY <1>1, <1>s, <3>1 DEF Tree
    <3> QED
      BY <1>1, <3>1, <3>2
  <2>2. \A x \in Scope : state[x] \in Opened => state'[x] \in Opened
    BY <1>1, <1>3 DEF Opened
  <2>3. ASSUME NEW x \in Level PROVE \A m \in inside'[x] : m \in Scope /\ m # x => state'[m] \in Opened
    <3>1. CASE x # s
      BY <1>1, <1>a, <2>2, <3>1 DEF Nested
    <3>2. CASE x = s
      <4> DEFINE p == parent'[s]
      <4>1. state[p] \in Opened \/ p = Root
        <5>1. p = Nearest(l) /\ l \in Sending
          BY <1>a, AlwaysIs DEF Exclusive, Nest
        <5>2. p = Root \/ state[p] \in {"open", "ending"}
          BY <5>1, <1>a, NearestOpen
        <5> QED
          BY <5>2 DEF Opened
      <4>2. \A m \in inside[p] : m \in Scope => state'[m] \in Opened
        BY <4>1, <2>1, <2>2, <1>a, LevelIs DEF Nested
      <4> QED
        BY <2>1, <3>2, <4>2
    <3> QED
      BY <3>1, <3>2
  <2>4. \A x \in Scope : state'[x] = "unused" => parent'[x] = Root
    BY <1>1, <1>3, <1>a DEF Nested
  <2>5. \A m \in Level : m # s => (Closed(m)' <=> Closed(m)) \/ m = Root
    BY <1>3, LevelIs DEF Closed
  <2>6. ~Closed(s)'
    BY <1>1 DEF Closed
  <2>7. ASSUME NEW x \in Level PROVE \E m \in inside'[x] : IsNearest(m, x)'
    <3>1. CASE x # s
      <4>1. PICK m \in inside[x] : IsNearest(m, x)
        BY <1>a DEF Nested
      <4>2. m \in Level /\ m # s /\ s \notin inside[x] /\ inside[x] \subseteq Level
        BY <1>o, <1>a, <3>1, <4>1, AlwaysIs
      <4>3. inside'[x] = inside[x] /\ inside'[m] = inside[m]
        BY <1>1, <3>1, <4>2
      <4>4. {n \in inside'[x] : n = Root \/ ~Closed(n)'} = {n \in inside[x] : n = Root \/ ~Closed(n)}
        BY <4>2, <4>3, <2>5
      <4>5. IsNearest(m, x)'
        BY <4>1, <4>3, <4>4 DEF IsNearest
      <4> QED
        BY <4>1, <4>3, <4>5
    <3>2. CASE x = s
      <4>1. s \in inside'[s]
        BY <2>1
      <4>2. IsNearest(s, s)'
        BY <4>1, <2>6 DEF IsNearest
      <4> QED
        BY <3>2, <4>1, <4>2
    <3> QED
      BY <3>1, <3>2
  <2> QED
    BY <2>3, <2>4, <2>7 DEF Nested
<1>6. WindowsGuarded' /\ GuardedOpened'
  <2>1. WindowsGuarded'
    BY <1>1, <1>2, <1>3, <1>a, AlwaysIs DEF WindowsGuarded
  <2>2. \A x \in Scope : state[x] \in Opened => state'[x] \in Opened
    BY <1>1, <1>3 DEF Opened
  <2>3. GuardedOpened'
    BY <1>2, <2>2, <1>a, AlwaysIs, RestTyped DEF GuardedOpened
  <2> QED
    BY <2>1, <2>3
<1>7. Always'
  <2>1. MarksInOrder'
    BY <1>2, <1>a, OrderStays
  <2> QED
    BY <1>1, <1>4, <1>5, <1>6, <2>1 DEF Always
<1> SUFFICES ASSUME ~strayed' PROVE Straight'
  BY <1>7 DEF TurnsInv
<1>8. LineHolds /\ LogInv /\ RoleInv
  BY <1>1 DEF TurnsInv, Straight
<1>9. Rooted /\ Forward
  <2>1. Rooted
    BY <1>1 DEF Rooted
  <2>2. Forward
    BY <1>1, <1>3 DEF Forward, Opened
  <2> QED
    BY <2>1, <2>2
<1>10. s \notin guarded /\ \A x \in guarded : x \in Scope /\ x # s /\ state'[x] = state[x]
  <2>1. \A x \in guarded : x \in Scope /\ state[x] \in Opened
    BY <1>a, AlwaysIs, RestTyped DEF GuardedOpened
  <2> QED
    BY <2>1, <1>1, <1>3 DEF Opened
<1>11. LogInv'
  <2>1. \A x \in guarded : KindOf[x] = "savepoint" /\ ~Closed(x) => ~Closed(x)'
    BY <1>10 DEF Closed
  <2> QED
    BY <1>2, <1>7, <1>8, <1>9, <1>a, <2>1, LogStays
<1>12. Windows' = Windows
  BY <1>2, <1>10 DEF Windows
<1>13. RoleInv'
  <2>1. RoleNow'
    BY <1>2, <1>8, <1>12 DEF RoleInv, RoleNow
  <2>2. \A x \in Windows' : x \in Windows /\ prev'[x] = prev[x] /\ parent'[x] = parent[x]
    <3>1. \A x \in Windows : x \in guarded
      BY DEF Windows
    <3> QED
      BY <1>1, <1>2, <1>10, <1>12, <3>1
  <2> QED
    BY <1>2, <1>8, <1>9, <1>a, <2>1, <2>2, RoleStays
<1> QED
  BY <1>1, <1>8, <1>11, <1>13 DEF Straight

\* A refused write, SAVEPOINT or RELEASE, and a role window that cannot start.
LEMMA ExecOpens ==
  ASSUME Always, NEW s, ExecutesOwn(s), Exec.op \in {"save", "set"},
         Goes(s, [state EXCEPT ![s] = "open"]),
         parent' = parent, inside' = inside, guarded \subseteq guarded'
  PROVE  /\ s \in Scope /\ s \in Level /\ s \notin guarded /\ Exec.op = FirstOp(s) /\ Exec.at = s
         /\ state[s] = "opening" /\ state'[s] = "open" /\ Moves(s)
         /\ ChainsHold' /\ (LineHolds => LineHolds')
<1>1. /\ s \in Scope /\ state[s] = "opening" /\ state'[s] = "open" /\ Exec.op = FirstOp(s)
      /\ ChainsHold' /\ Opens(state, state', {s})
      /\ LineHolds => LineHolds'
  BY OpenMoves
<1>2. Moves(s)
  BY <1>1 DEF Moves, Running, Opened
<1>3. s \notin guarded
  BY <1>1, AlwaysIs DEF GuardedOpened, Opened
<1>4. Exec.at = s
  BY ExecIs DEF ExecutesOwn
<1> QED
  BY <1>1, <1>2, <1>3, <1>4, LevelIs

LEMMA ExecCloses ==
  ASSUME Always, NEW s, NEW as \in {"released", "failed"}, ExecutesOwn(s),
         Exec.op \in EndOps \union {"set"}, CloseScope(s, as),
         parent' = parent, inside' = inside, guarded' = guarded
  PROVE  /\ s \in Scope /\ s \in Level /\ Exec.at = s
         /\ state[s] = IF Exec.op = "set" THEN "opening" ELSE "ending"
         /\ state'[s] = as /\ Moves(s)
         /\ Exec.op \in EndOps => s \in guarded /\ (KindOf[s] = "role" <=> Exec.op = "restore")
         /\ Exec.op = "set" => s \notin guarded
         /\ ChainsHold' /\ (LineHolds => LineHolds')
<1>1. /\ ChainsHold' /\ (LineHolds => LineHolds')
      /\ s \in Scope /\ state'[s] = as /\ Opens(state, state', {s})
      /\ state[s] = IF Exec.op = "set" THEN "opening" ELSE "ending"
  BY AlwaysIs, CloseScopeKeeps
<1>2. Moves(s)
  BY <1>1 DEF Moves, Running, Opened
<1>3. Exec.op = "set" => s \notin guarded
  BY <1>1, AlwaysIs DEF GuardedOpened, Opened
<1>4. Exec.at = s /\ (Exec.op \in EndOps => s \in guarded /\ (KindOf[s] = "role" <=> Exec.op = "restore"))
  BY ExecIs DEF ExecutesOwn
<1> QED
  BY <1>1, <1>2, <1>3, <1>4, LevelIs

LEMMA WriteFails ==
  ASSUME TurnsInv, ExecWrite(FALSE)
  PROVE  TurnsInv'
<1>a. Always /\ TurnsTypeOK /\ strayed \in BOOLEAN
  BY AlwaysIs, RestTyped DEF TurnsInv
<1>1. /\ failing' = TRUE /\ log' = log /\ accepted' = accepted /\ marks' = marks
      /\ parent' = parent /\ inside' = inside /\ opener' = opener /\ guarded' = guarded
      /\ role' = role /\ prev' = prev /\ sent' = sent /\ strayed' = strayed
  BY DEF ExecWrite
<1>2. ChainsHold' /\ Opens(state, state', {}) /\ (LineHolds => LineHolds')
  BY <1>a, WriteMoves
<1>3. Moves(Root) /\ Root \in Level /\ Root \notin Scope /\ Root \notin guarded
  BY <1>2, <1>a, NobodyMoves, LevelIs, RestTyped
<1> QED
  BY <1>1, <1>2, <1>3, <1>a, GoesOnKeeps

LEMMA SaveRefused ==
  ASSUME TurnsInv, ExecSave, failing
  PROVE  TurnsInv'
<1> DEFINE s == Exec.by
<1>a. Always /\ TurnsTypeOK /\ strayed \in BOOLEAN /\ failing \in BOOLEAN
  BY AlwaysIs, RestTyped DEF TurnsInv
<1>1. /\ wire # <<>> /\ Exec.op = "save" /\ Goes(Exec.at, [state EXCEPT ![s] = "open"])
      /\ failing' = failing /\ log' = log /\ accepted' = accepted /\ marks' = marks
      /\ parent' = parent /\ inside' = inside /\ opener' = opener /\ guarded' = guarded
      /\ role' = role /\ prev' = prev /\ sent' = sent /\ strayed' = strayed
  BY DEF ExecSave
<1>2. ExecutesOwn(s) /\ Goes(s, [state EXCEPT ![s] = "open"])
  BY <1>1, <1>a, ExecIs DEF ExecutesOwn
<1> HIDE DEF s
<1>3. /\ s \in Scope /\ s \in Level /\ s \notin guarded /\ Exec.op = FirstOp(s)
      /\ Moves(s) /\ ChainsHold' /\ (LineHolds => LineHolds')
  BY <1>1, <1>2, <1>a, ExecOpens
<1>4. KindOf[s] # "role"
  BY <1>1, <1>3 DEF FirstOp
<1> QED
  BY <1>1, <1>3, <1>4, <1>a, GoesOnKeeps

LEMMA ReleaseRefused ==
  ASSUME TurnsInv, ExecRelease, failing \/ ~Marked(Exec.by)
  PROVE  TurnsInv'
<1> DEFINE s == Exec.by
<1>a. Always /\ TurnsTypeOK /\ strayed \in BOOLEAN /\ failing \in BOOLEAN
  BY AlwaysIs, RestTyped DEF TurnsInv
<1>1. /\ wire # <<>> /\ Exec.op = "release"
      /\ Becomes(Start([wire |-> Tail(wire), state |-> state,
                        queue |-> Behind(Without(queue, s), s, Item("rollback", s))], s))
      /\ failing' = TRUE /\ log' = log /\ accepted' = accepted /\ marks' = marks
      /\ parent' = parent /\ inside' = inside /\ opener' = opener /\ guarded' = guarded
      /\ role' = role /\ prev' = prev /\ sent' = sent /\ strayed' = strayed
  BY DEF ExecRelease
<1>2. ExecutesOwn(s)
  BY <1>1 DEF ExecutesOwn
<1> HIDE DEF s
<1>3. ChainsHold' /\ Opens(state, state', {}) /\ (LineHolds => LineHolds')
  BY <1>1, <1>2, <1>a, RetryMoves
<1>4. Moves(Root) /\ Root \in Level /\ Root \notin Scope /\ Root \notin guarded
  BY <1>3, <1>a, NobodyMoves, LevelIs, RestTyped
<1> QED
  BY <1>1, <1>3, <1>4, <1>a, GoesOnKeeps

LEMMA SetRoleRefused ==
  ASSUME TurnsInv, ExecSetRole, failing
  PROVE  TurnsInv'
<1> DEFINE s == Exec.by
<1>a. Always /\ TurnsTypeOK /\ strayed \in BOOLEAN /\ failing \in BOOLEAN
  BY AlwaysIs, RestTyped DEF TurnsInv
<1>1. /\ wire # <<>> /\ Exec.op = "set" /\ CloseScope(s, "failed")
      /\ failing' = failing /\ log' = log /\ accepted' = accepted /\ marks' = marks
      /\ parent' = parent /\ inside' = inside /\ opener' = opener /\ guarded' = guarded
      /\ role' = role /\ prev' = prev /\ sent' = sent /\ strayed' = strayed
  BY DEF ExecSetRole
<1>2. ExecutesOwn(s) /\ Exec.op \in EndOps \union {"set"}
  BY <1>1 DEF ExecutesOwn
<1> HIDE DEF s
<1>3. /\ s \in Scope /\ s \in Level /\ s \notin guarded
      /\ state'[s] = "failed" /\ Moves(s)
      /\ ChainsHold' /\ (LineHolds => LineHolds')
  BY <1>1, <1>2, <1>a, ExecCloses
<1> QED
  BY <1>1, <1>3, <1>a, GoesOnKeeps

-----------------------------------------------------------------------------
(* Those that change what Postgres has, as long as nothing strayed.          *)

LEMMA OpenGoing ==
  ASSUME Always, NEW x \in guarded, ~Closed(x)
  PROVE  x \in Scope /\ x \in Going(state) /\ state[x] \in {"open", "ending"}
<1>1. x \in Scope /\ state[x] \in Opened
  BY AlwaysIs, RestTyped DEF GuardedOpened
<1> QED
  BY <1>1 DEF Closed, Opened, Going, Running

\* The role windows around the innermost level are those under way.
LEMMA WindowsAround ==
  ASSUME Always, NEW k \in Level, k = Root \/ state[k] # "opening", k \in Going(state) \union {Root},
         Going(state) \subseteq inside[k], inside[k] \subseteq Going(state) \union {Root}
  PROVE  InRoleWindow(k) <=> Windows # {}
<1>1. ASSUME NEW x \in inside[k] \ {Root}, KindOf[x] = "role" PROVE x \in Windows
  <2>1. x \in Scope /\ state[x] \in Running
    BY <1>1 DEF Going
  <2>2. state[x] \in Opened
    <3>1. CASE x # k
      BY <2>1, <3>1, AlwaysIs DEF Nested
    <3>2. CASE x = k
      BY <2>1, <3>2, LevelIs DEF Running, Opened
    <3> QED
      BY <3>1, <3>2
  <2>3. x \in guarded
    BY <1>1, <2>1, <2>2, AlwaysIs DEF WindowsGuarded, Running, Opened
  <2> QED
    BY <1>1, <2>1, <2>3 DEF Windows
<1>2. ASSUME NEW x \in Windows PROVE x \in inside[k] \ {Root} /\ KindOf[x] = "role"
  <2>1. x \in Scope /\ x \in Going(state) /\ KindOf[x] = "role"
    BY AlwaysIs, RestTyped DEF Windows, Going
  <2> QED
    BY <2>1, LevelIs
<1> QED
  BY <1>1, <1>2 DEF InRoleWindow

\* Those around the innermost scope are the others under way.
LEMMA WindowsOutside ==
  ASSUME Always, NEW s \in Scope, s \in Going(state),
         Going(state) \subseteq inside[s], inside[s] \subseteq Going(state) \union {Root}
  PROVE  /\ InRoleWindow(parent[s]) <=> Windows \ {s} # {}
         /\ KindOf[s] # "role" => (InRoleWindow(s) <=> Windows # {})
<1>t. inside[s] = {s} \union inside[parent[s]] /\ s \notin inside[parent[s]]
  BY AlwaysIs DEF Tree
<1>1. ASSUME NEW x \in inside[s] \ {Root}, x # s, KindOf[x] = "role" PROVE x \in Windows
  <2>1. x \in Scope /\ state[x] \in Running
    BY <1>1 DEF Going
  <2>2. state[x] \in Opened
    BY <1>1, <2>1, AlwaysIs, LevelIs DEF Nested
  <2>3. x \in guarded
    BY <1>1, <2>1, <2>2, AlwaysIs DEF WindowsGuarded, Running, Opened
  <2> QED
    BY <1>1, <2>1, <2>3 DEF Windows
<1>2. ASSUME NEW x \in Windows PROVE x \in inside[s] \ {Root} /\ KindOf[x] = "role"
  <2>1. x \in Scope /\ x \in Going(state) /\ KindOf[x] = "role"
    BY AlwaysIs, RestTyped DEF Windows, Going
  <2> QED
    BY <2>1, LevelIs
<1>3. InRoleWindow(parent[s]) <=> Windows \ {s} # {}
  BY <1>t, <1>1, <1>2 DEF InRoleWindow
<1>4. ASSUME KindOf[s] # "role" PROVE InRoleWindow(s) <=> Windows # {}
  BY <1>4, <1>1, <1>2 DEF InRoleWindow
<1> QED
  BY <1>3, <1>4

\* An accepted write is one more of its code.
LEMMA WritesGrow ==
  ASSUME TurnsTypeOK, NEW w \in [by : Level, at : Level, role : Roles], NEW L, L = Append(log, w)
  PROVE  /\ L \in Seq([by : Level, at : Level, role : Roles])
         /\ DOMAIN log = 1 .. Len(log) /\ DOMAIN L = 1 .. Len(log) + 1 /\ Len(log) \in Nat
         /\ Len(L) = Len(log) + 1
         /\ \A n \in DOMAIN log : n \in DOMAIN L /\ L[n] = log[n]
         /\ L[Len(log) + 1] = w
         /\ \A n \in DOMAIN L : n \in DOMAIN log \/ n = Len(log) + 1
<1>1. log \in Seq([by : Level, at : Level, role : Roles]) /\ Len(log) \in Nat /\ DOMAIN log = 1 .. Len(log)
  BY LogTyped
<1>2. /\ L \in Seq([by : Level, at : Level, role : Roles])
      /\ Len(L) = Len(log) + 1
      /\ \A n \in 1 .. Len(log) : L[n] = log[n]
      /\ L[Len(log) + 1] = w
  BY <1>1, AppendIs
<1>3. DOMAIN L = 1 .. Len(log) + 1
  BY <1>2, ListIs
<1> QED
  BY <1>1, <1>2, <1>3

LEMMA WritesCounted ==
  ASSUME TurnsTypeOK, NEW w \in [by : Level, at : Level, role : Roles], log' = Append(log, w),
         NEW l \in Level
  PROVE  /\ w.by # l => WritesOf(l)' = WritesOf(l)
         /\ w.by = l => Cardinality(WritesOf(l)') = Cardinality(WritesOf(l)) + 1
<1> DEFINE L == log'
           S == {n \in DOMAIN log : log[n].by = l}
           M == {n \in DOMAIN L : L[n].by = l}
           x == Len(log) + 1
<1>0. L = Append(log, w)
  OBVIOUS
<1>s. WritesOf(l) = S /\ WritesOf(l)' = M
  BY DEF WritesOf
<1> HIDE DEF L
<1>1. /\ DOMAIN log = 1 .. Len(log) /\ DOMAIN L = 1 .. x /\ Len(log) \in Nat
      /\ \A n \in DOMAIN log : n \in DOMAIN L /\ L[n] = log[n]
      /\ L[x] = w
      /\ \A n \in DOMAIN L : n \in DOMAIN log \/ n = x
  BY <1>0, WritesGrow
<1>2. x \notin DOMAIN log /\ x \in DOMAIN L
  BY <1>1
<1> HIDE DEF x
<1>3. ASSUME w.by # l PROVE M = S
  BY <1>1, <1>2, <1>3
<1>4. ASSUME w.by = l PROVE Cardinality(M) = Cardinality(S) + 1
  <2>1. M = S \union {x} /\ x \notin S
    BY <1>1, <1>2, <1>4
  <2>2. IsFiniteSet(S)
    <3>1. IsFiniteSet(1 .. Len(log))
      BY <1>1, FS_Interval
    <3>2. S \subseteq 1 .. Len(log)
      BY <1>1
    <3> QED
      BY <3>1, <3>2, FS_Subset
  <2> HIDE DEF S, M
  <2> QED
    BY <2>1, <2>2, FS_AddElement
<1> HIDE DEF S, M
<1> QED
  BY <1>s, <1>3, <1>4

\* A write Postgres accepts is of code inside every block that is open, and of none
\* that failed.
LEMMA WriteLogged ==
  ASSUME Always, Straight, ExecWrite(TRUE), Moves(Root), LineHolds'
  PROVE  Straight'
<1> DEFINE k == Exec.at
           b == Exec.by
           w == [by |-> b, at |-> k, role |-> role]
           L == log'
           N == Len(log)
<1>1. /\ wire # <<>> /\ Exec.op = "write" /\ ~failing /\ L = Append(log, w) /\ failing' = failing
      /\ accepted' = [accepted EXCEPT ![b] = @ + 1] /\ marks' = marks
      /\ parent' = parent /\ inside' = inside /\ guarded' = guarded
      /\ role' = role /\ prev' = prev
  BY DEF ExecWrite
<1>t. TurnsTypeOK /\ LogInv /\ RoleInv /\ LineHolds
  BY AlwaysIs DEF Straight
<1>2. /\ k \in Level /\ b \in Level /\ k \in inside[b] /\ inside[k] \subseteq inside[b]
      /\ b = Root \/ state[b] \in Opened
      /\ k = Root \/ state[k] # "opening"
  <2>1. /\ k \in Level /\ b \in Level /\ k \in inside[b]
        /\ b = Root \/ state[b] \in Opened
        /\ k = Root \/ state[k] # "opening"
    BY <1>1, ExecIs
  <2>2. inside[k] \subseteq inside[b]
    BY <2>1, AlwaysIs DEF Tree
  <2> QED
    BY <2>1, <2>2
<1>3. /\ k \in Going(state) \union {Root} /\ Going(state) \subseteq inside[k]
      /\ inside[k] \subseteq Going(state) \union {Root}
  BY <1>1, <1>t, ExecInnermost
<1>w. w \in [by : Level, at : Level, role : Roles] /\ w.by = b /\ w.at = k /\ w.role = role
  BY <1>2, <1>t, RestTyped
<1> HIDE DEF k, b, w, L, N
<1>4. /\ DOMAIN log = 1 .. N /\ DOMAIN L = 1 .. N + 1 /\ N \in Nat /\ Len(L) = N + 1
      /\ \A n \in DOMAIN log : n \in DOMAIN L /\ L[n] = log[n]
      /\ L[N + 1] = w
      /\ \A n \in DOMAIN L : n \in DOMAIN log \/ n = N + 1
  BY <1>1, <1>w, <1>t, WritesGrow DEF N
<1>5. \A x \in guarded : x \in Scope /\ state'[x] = state[x] /\ (~Closed(x) => x \in inside[k])
  <2> SUFFICES ASSUME NEW x \in guarded
               PROVE  x \in Scope /\ state'[x] = state[x] /\ (~Closed(x) => x \in inside[k])
    OBVIOUS
  <2>1. x \in Scope /\ state[x] \in Opened
    BY AlwaysIs, RestTyped DEF GuardedOpened
  <2>2. state'[x] = state[x]
    BY <2>1, LevelIs DEF Moves, Opens, Opened
  <2>3. ~Closed(x) => x \in inside[k]
    BY <1>3, OpenGoing
  <2> QED
    BY <2>1, <2>2, <2>3
<1>f. Forward
  BY MovesForward, LevelIs
<1>m. /\ \A j \in DOMAIN marks : marks[j].by \in guarded /\ marks[j].len <= N /\ marks[j].len \in Nat
  BY <1>t, AlwaysIs, LogTyped DEF LogInv, MarksInOrder, MarksOfBlocks, N
<1>6. MarksOfBlocks'
  BY <1>1, <1>t DEF LogInv, MarksOfBlocks
<1>7. LogOfOpened'
  <2> SUFFICES ASSUME NEW n \in DOMAIN L
               PROVE  L[n].at \in inside[L[n].by] /\ (L[n].by = Root \/ state'[L[n].by] \in Opened)
    BY <1>1 DEF LogOfOpened, L
  <2>1. CASE n \in DOMAIN log
    <3>1. log[n].at \in inside[log[n].by] /\ (log[n].by = Root \/ state[log[n].by] \in Opened)
      BY <2>1, <1>t DEF LogInv, LogOfOpened
    <3>2. log[n].by \in Level
      BY <2>1, <1>t, LogTyped
    <3> QED
      BY <2>1, <3>1, <3>2, <1>4, <1>f, LevelIs DEF Forward
  <2>2. CASE n = N + 1
    BY <2>2, <1>2, <1>4, <1>w, <1>f, LevelIs DEF Forward
  <2> QED
    BY <2>1, <2>2, <1>4
<1>8. OpenMarked'
  <2> SUFFICES ASSUME NEW x \in guarded, KindOf[x] = "savepoint", ~Closed(x)' PROVE Marked(x)'
    BY <1>1 DEF OpenMarked
  <2>1. ~Closed(x)
    BY <1>5 DEF Closed
  <2> QED
    BY <1>1, <1>t, <2>1 DEF LogInv, OpenMarked, Marked
<1>9. AfterMark'
  <2> SUFFICES ASSUME NEW j \in DOMAIN marks, ~Closed(marks[j].by)'
               PROVE  /\ \A n \in DOMAIN L : n > marks[j].len => marks[j].by \in inside[L[n].by]
                      /\ \A i \in DOMAIN marks : i > j => marks[j].by \in inside[marks[i].by]
    BY <1>1 DEF AfterMark, L
  <2>1. ~Closed(marks[j].by) /\ marks[j].by \in inside[b]
    <3>1. marks[j].by \in guarded
      BY <1>m
    <3>2. /\ state'[marks[j].by] = state[marks[j].by]
          /\ ~Closed(marks[j].by) => marks[j].by \in inside[k]
      BY <3>1, <1>5
    <3>3. ~Closed(marks[j].by)
      BY <1>1, <3>2 DEF Closed
    <3> QED
      BY <3>2, <3>3, <1>2
  <2>2. /\ \A n \in DOMAIN log : n > marks[j].len => marks[j].by \in inside[log[n].by]
        /\ \A i \in DOMAIN marks : i > j => marks[j].by \in inside[marks[i].by]
    BY <2>1, <1>t DEF LogInv, AfterMark
  <2> QED
    BY <1>4, <1>w, <2>1, <2>2
<1>10. BeforeMark'
  <2> SUFFICES ASSUME NEW j \in DOMAIN marks, NEW n \in DOMAIN L, n <= marks[j].len
               PROVE  marks[j].by \notin inside[L[n].by]
    BY <1>1 DEF BeforeMark, L
  <2>1. n \in DOMAIN log
    BY <1>4, <1>m
  <2> QED
    BY <1>4, <1>t, <2>1 DEF LogInv, BeforeMark
<1>11. Failed'
  <2> SUFFICES ASSUME NEW x \in guarded, KindOf[x] = "savepoint", state'[x] = "failed", NEW n \in DOMAIN L
               PROVE  x \notin inside[L[n].at]
    BY <1>1 DEF Failed, L
  <2>1. x \in Scope /\ state[x] = "failed"
    BY <1>5
  <2>2. CASE n \in DOMAIN log
    BY <2>1, <2>2, <1>4, <1>t DEF LogInv, Failed
  <2>3. CASE n = N + 1
    <3>1. x \notin inside[k]
      BY <2>1, <1>3, LevelIs DEF Going, Running
    <3> QED
      BY <2>3, <3>1, <1>4, <1>w
  <2> QED
    BY <2>2, <2>3, <1>4
<1>12. Kept'
  <2> SUFFICES ASSUME NEW l \in Level,
                      \A s \in inside[l] \ {Root} : KindOf[s] = "savepoint" => state'[s] # "failed"
               PROVE  accepted'[l] = Cardinality(WritesOf(l)')
    BY <1>1 DEF Kept
  <2>1. \A s \in inside[l] \ {Root} : KindOf[s] = "savepoint" => state[s] # "failed"
    <3>1. \A s \in inside[l] \ {Root} : s \in Scope
      BY AlwaysIs, LevelIs
    <3> QED
      BY <3>1, <1>f DEF Forward
  <2>2. accepted[l] = Cardinality(WritesOf(l))
    BY <2>1, <1>t DEF LogInv, Kept
  <2>3. /\ b # l => WritesOf(l)' = WritesOf(l)
        /\ b = l => Cardinality(WritesOf(l)') = Cardinality(WritesOf(l)) + 1
    BY <1>1, <1>w, <1>t, WritesCounted DEF L
  <2>4. accepted \in [Level -> Nat]
    BY <1>t, RestTyped
  <2>5. accepted'[l] = IF b = l THEN accepted[l] + 1 ELSE accepted[l]
    BY <1>1, <1>2, <2>4
  <2> QED
    BY <2>2, <2>3, <2>5
<1>13. InRoleWindow(k) <=> Windows # {}
  BY <1>2, <1>3, WindowsAround
<1>14. Windows' = Windows
  BY <1>1, <1>5 DEF Windows
<1>15. RoleNow' /\ PrevRole'
  BY <1>1, <1>14, <1>t DEF RoleInv, RoleNow, PrevRole, InRoleWindow
<1>16. MarkRole'
  BY <1>1, <1>t DEF RoleInv, MarkRole, InRoleWindow
<1>17. WriteRole'
  <2> SUFFICES ASSUME NEW n \in DOMAIN L
               PROVE  /\ L[n].role = "engine" => InRoleWindow(L[n].by)
                      /\ L[n].role = "request" => ~InRoleWindow(L[n].at)
    BY <1>1 DEF WriteRole, InRoleWindow, L
  <2>1. CASE n \in DOMAIN log
    BY <2>1, <1>4, <1>t DEF RoleInv, WriteRole
  <2>2. CASE n = N + 1
    <3>1. role = "engine" <=> InRoleWindow(k)
      BY <1>1, <1>13, <1>t DEF RoleInv, RoleNow
    <3>2. InRoleWindow(k) => InRoleWindow(b)
      BY <1>2 DEF InRoleWindow
    <3> QED
      BY <2>2, <3>1, <3>2, <1>4, <1>w
  <2> QED
    BY <2>1, <2>2, <1>4
<1> QED
  BY <1>6, <1>7, <1>8, <1>9, <1>10, <1>11, <1>12, <1>15, <1>16, <1>17 DEF Straight, LogInv, RoleInv

\* SAVEPOINT: nothing came after it yet, and nothing in the log is of code inside.
LEMMA MarkSet ==
  ASSUME Always, Straight, ExecSave, ~failing, NEW s \in Scope, s = Exec.by, Moves(s),
         state[s] = "opening", state'[s] = "open", KindOf[s] = "savepoint", LineHolds', GuardedOpened'
  PROVE  Straight'
<1> DEFINE m == [by |-> s, len |-> Len(log), role |-> role]
           M == marks'
           N == Len(marks)
<1>1. /\ wire # <<>> /\ Exec.op = "save" /\ M = Append(marks, m) /\ guarded' = guarded \union {s}
      /\ failing' = failing /\ log' = log /\ accepted' = accepted
      /\ parent' = parent /\ inside' = inside
      /\ role' = role /\ prev' = prev
  BY DEF ExecSave
<1>t. TurnsTypeOK /\ LogInv /\ RoleInv /\ LineHolds
  BY AlwaysIs DEF Straight
<1>s. s \in Level /\ s # Root /\ Exec.at = s
  BY <1>1, ExecIs, LevelIs
<1>2. /\ s \in Going(state) /\ Going(state) \subseteq inside[s]
      /\ inside[s] \subseteq Going(state) \union {Root}
  BY <1>1, <1>s, <1>t, ExecInnermost
<1>m. m \in [by : Scope, len : Nat, role : Roles] /\ m.by = s /\ m.len = Len(log) /\ m.role = role
  BY <1>t, RestTyped, LogTyped
<1> HIDE DEF m, M, N
<1>4. /\ DOMAIN marks = 1 .. N /\ DOMAIN M = 1 .. N + 1 /\ N \in Nat
      /\ \A j \in DOMAIN marks : j \in DOMAIN M /\ M[j] = marks[j] /\ j < N + 1
      /\ M[N + 1] = m
      /\ \A j \in DOMAIN M : j \in DOMAIN marks \/ j = N + 1
  <2>1. marks \in Seq([by : Scope, len : Nat, role : Roles]) /\ N \in Nat /\ DOMAIN marks = 1 .. N
    BY <1>t, LogTyped DEF N
  <2>2. /\ M \in Seq([by : Scope, len : Nat, role : Roles])
        /\ Len(M) = N + 1
        /\ \A n \in 1 .. N : M[n] = marks[n]
        /\ M[N + 1] = m
    BY <2>1, <1>1, <1>m, AppendIs DEF N
  <2>3. DOMAIN M = 1 .. N + 1
    BY <2>2, ListIs
  <2> QED
    BY <2>1, <2>2, <2>3
<1>5. /\ s \notin guarded
      /\ \A x \in guarded : x \in Scope /\ x # s /\ state'[x] = state[x] /\ (~Closed(x) => x \in inside[s])
  <2> SUFFICES ASSUME NEW x \in guarded
               PROVE  x \in Scope /\ x # s /\ state'[x] = state[x] /\ (~Closed(x) => x \in inside[s])
    OBVIOUS
  <2>1. x \in Scope /\ state[x] \in Opened
    BY AlwaysIs, RestTyped DEF GuardedOpened
  <2>2. x # s /\ state'[x] = state[x]
    BY <2>1 DEF Moves, Opens, Opened
  <2>3. ~Closed(x) => x \in inside[s]
    BY <1>2, OpenGoing
  <2> QED
    BY <2>1, <2>2, <2>3
<1>f. Forward
  BY <1>s, MovesForward
<1>l. \A n \in DOMAIN log : log[n].by \in Level /\ s \notin inside[log[n].by]
  <2> SUFFICES ASSUME NEW n \in DOMAIN log PROVE log[n].by \in Level /\ s \notin inside[log[n].by]
    OBVIOUS
  <2>1. log[n].by \in Level /\ (log[n].by = Root \/ state[log[n].by] \in Opened)
    BY <1>t, LevelsOfLog
  <2>2. log[n].by # s
    BY <2>1, <1>s DEF Opened
  <2>3. state[s] \notin Opened
    BY DEF Opened
  <2> QED
    BY <2>1, <2>2, <2>3, NobodyInside
<1>n. Len(log) \in Nat /\ DOMAIN log = 1 .. Len(log)
  BY <1>t, LogTyped
<1>k. \A j \in DOMAIN marks : marks[j].by \in guarded /\ marks[j].by # s /\ marks[j].len <= Len(log)
                              /\ KindOf[marks[j].by] = "savepoint"
  BY <1>t, <1>5, AlwaysIs DEF LogInv, MarksInOrder, MarksOfBlocks
<1>6. MarksOfBlocks'
  <2>3. ASSUME NEW j \in DOMAIN M, NEW i \in DOMAIN M, M[i].by = M[j].by PROVE i = j
    <3>1. CASE i \in DOMAIN marks /\ j \in DOMAIN marks
      BY <2>3, <3>1, <1>4, <1>t DEF LogInv, MarksOfBlocks
    <3>2. CASE i \in DOMAIN marks /\ j = N + 1
      BY <2>3, <3>2, <1>4, <1>k, <1>m
    <3>3. CASE i = N + 1 /\ j \in DOMAIN marks
      BY <2>3, <3>3, <1>4, <1>k, <1>m
    <3> QED
      BY <3>1, <3>2, <3>3, <1>4
  <2>4. \A j \in DOMAIN M : M[j].by \in guarded' /\ KindOf[M[j].by] = "savepoint"
    BY <1>1, <1>4, <1>k, <1>m
  <2> QED
    BY <1>1, <2>3, <2>4 DEF MarksOfBlocks, M
<1>7. LogOfOpened'
  <2>1. \A n \in DOMAIN log : log[n].by = Root \/ state'[log[n].by] \in Opened
    <3>1. \A n \in DOMAIN log : log[n].by \in Level /\ (log[n].by = Root \/ state[log[n].by] \in Opened)
      BY <1>t, LevelsOfLog
    <3> QED
      BY <3>1, <1>f, LevelIs DEF Forward
  <2> QED
    BY <1>1, <1>t, <2>1 DEF LogInv, LogOfOpened
<1>8. OpenMarked'
  <2> SUFFICES ASSUME NEW x \in guarded', KindOf[x] = "savepoint", ~Closed(x)'
               PROVE  \E j \in DOMAIN M : M[j].by = x
    BY DEF OpenMarked, Marked, M
  <2>1. CASE x = s
    BY <2>1, <1>4, <1>m
  <2>2. CASE x \in guarded
    <3>1. ~Closed(x)
      BY <2>2, <1>5 DEF Closed
    <3>2. \E j \in DOMAIN marks : marks[j].by = x
      BY <2>2, <3>1, <1>t DEF LogInv, OpenMarked, Marked
    <3> QED
      BY <3>2, <1>4
  <2> QED
    BY <1>1, <2>1, <2>2
<1>9. AfterMark'
  <2> SUFFICES ASSUME NEW j \in DOMAIN M, state'[M[j].by] \notin {"released", "failed"}
               PROVE  /\ \A n \in DOMAIN log : n > M[j].len => M[j].by \in inside[log[n].by]
                      /\ \A i \in DOMAIN M : i > j => M[j].by \in inside[M[i].by]
    BY <1>1 DEF AfterMark, M, Closed
  <2>1. CASE j = N + 1
    <3>1. M[j].len = Len(log)
      BY <2>1, <1>4, <1>m
    <3>2. \A n \in DOMAIN log : ~(n > Len(log))
      BY <1>n
    <3>3. \A i \in DOMAIN M : ~(i > j)
      BY <2>1, <1>4
    <3> QED
      BY <3>1, <3>2, <3>3
  <2>2. CASE j \in DOMAIN marks
    <3>1. M[j] = marks[j] /\ marks[j].by \in guarded
      BY <2>2, <1>4, <1>k
    <3>2. state'[marks[j].by] = state[marks[j].by] /\ (~Closed(marks[j].by) => marks[j].by \in inside[s])
      BY <3>1, <1>5
    <3>3. ~Closed(marks[j].by)
      BY <3>1, <3>2 DEF Closed
    <3>4. /\ \A n \in DOMAIN log : n > marks[j].len => marks[j].by \in inside[log[n].by]
          /\ \A i \in DOMAIN marks : i > j => marks[j].by \in inside[marks[i].by]
      BY <2>2, <3>3, <1>t DEF LogInv, AfterMark
    <3>5. ASSUME NEW i \in DOMAIN M, i > j PROVE marks[j].by \in inside[M[i].by]
      <4>1. CASE i \in DOMAIN marks
        BY <3>4, <3>5, <4>1, <1>4
      <4>2. CASE i = N + 1
        BY <3>2, <3>3, <4>2, <1>4, <1>m
      <4> QED
        BY <4>1, <4>2, <1>4
    <3> QED
      BY <3>1, <3>4, <3>5
  <2> QED
    BY <2>1, <2>2, <1>4
<1>10. BeforeMark'
  <2> SUFFICES ASSUME NEW j \in DOMAIN M, NEW n \in DOMAIN log, n <= M[j].len
               PROVE  M[j].by \notin inside[log[n].by]
    BY <1>1 DEF BeforeMark, M
  <2>1. CASE j = N + 1
    BY <2>1, <1>4, <1>m, <1>l
  <2>2. CASE j \in DOMAIN marks
    BY <2>2, <1>4, <1>t DEF LogInv, BeforeMark
  <2> QED
    BY <2>1, <2>2, <1>4
<1>11. Failed'
  <2> SUFFICES ASSUME NEW x \in guarded', KindOf[x] = "savepoint", state'[x] = "failed", NEW n \in DOMAIN log
               PROVE  x \notin inside[log[n].at]
    BY <1>1 DEF Failed
  <2>1. x \in guarded /\ state[x] = "failed"
    BY <1>1, <1>5
  <2> QED
    BY <2>1, <1>t DEF LogInv, Failed
<1>12. Kept'
  <2> SUFFICES ASSUME NEW l \in Level,
                      \A x \in inside[l] \ {Root} : KindOf[x] = "savepoint" => state'[x] # "failed"
               PROVE  accepted[l] = Cardinality(WritesOf(l))
    BY <1>1 DEF Kept, WritesOf
  <2>1. \A x \in inside[l] \ {Root} : KindOf[x] = "savepoint" => state[x] # "failed"
    <3>1. \A x \in inside[l] \ {Root} : x \in Scope
      BY AlwaysIs, LevelIs
    <3> QED
      BY <3>1, <1>f DEF Forward
  <2> QED
    BY <2>1, <1>t DEF LogInv, Kept
<1>13. InRoleWindow(s) <=> Windows # {}
  BY <1>2, WindowsOutside
<1>14. Windows' = Windows
  BY <1>1, <1>5 DEF Windows
<1>15. RoleNow' /\ PrevRole'
  BY <1>1, <1>14, <1>t DEF RoleInv, RoleNow, PrevRole, InRoleWindow
<1>16. MarkRole'
  <2> SUFFICES ASSUME NEW j \in DOMAIN M PROVE M[j].role = "engine" <=> InRoleWindow(M[j].by)
    BY <1>1 DEF MarkRole, InRoleWindow, M
  <2>1. CASE j \in DOMAIN marks
    BY <2>1, <1>4, <1>t DEF RoleInv, MarkRole
  <2>2. CASE j = N + 1
    <3>1. role = "engine" <=> InRoleWindow(s)
      BY <1>13, <1>t DEF RoleInv, RoleNow
    <3> QED
      BY <2>2, <3>1, <1>4, <1>m
  <2> QED
    BY <2>1, <2>2, <1>4
<1>17. WriteRole'
  BY <1>1, <1>t DEF RoleInv, WriteRole, InRoleWindow
<1> QED
  BY <1>6, <1>7, <1>8, <1>9, <1>10, <1>11, <1>12, <1>15, <1>16, <1>17 DEF Straight, LogInv, RoleInv

LEMMA MarkOfIs ==
  ASSUME NEW s, Marked(s)
  PROVE  MarkOf(s) \in DOMAIN marks /\ marks[MarkOf(s)].by = s
<1>1. \E n \in DOMAIN marks : marks[n].by = s
  BY DEF Marked
<1> QED
  BY <1>1 DEF MarkOf

LEMMA CutIs ==
  ASSUME NEW T, NEW x \in Seq(T), NEW n \in 0 .. Len(x), NEW y, y = SubSeq(x, 1, n)
  PROVE  /\ y \in Seq(T) /\ Len(y) = n /\ DOMAIN y = 1 .. n
         /\ \A i \in 1 .. n : y[i] = x[i] /\ i \in DOMAIN x
<1>1. Len(x) \in Nat /\ DOMAIN x = 1 .. Len(x)
  BY ListIs
<1>2. 1 \in 1 .. Len(x) + 1 /\ n \in 1 - 1 .. Len(x)
  BY <1>1
<1>3. /\ SubSeq(x, 1, n) \in Seq(T) /\ Len(SubSeq(x, 1, n)) = n - 1 + 1
      /\ \A i \in 1 .. n - 1 + 1 : SubSeq(x, 1, n)[i] = x[1 + i - 1]
  BY <1>2, SubSeqProperties
<1>4. n - 1 + 1 = n /\ \A i \in 1 .. n : 1 + i - 1 = i /\ i \in 1 .. Len(x)
  BY <1>1
<1>5. y \in Seq(T) /\ Len(y) = n /\ \A i \in 1 .. n : y[i] = x[i]
  BY <1>3, <1>4
<1>6. DOMAIN y = 1 .. n
  BY <1>5, ListIs
<1> QED
  BY <1>1, <1>4, <1>5, <1>6

\* y is the first n elements of x.
Prefix(y, x, n) ==
  /\ DOMAIN y = 1 .. n /\ Len(y) = n
  /\ \A i \in 1 .. n : i \in DOMAIN x /\ y[i] = x[i]

LEMMA PrefixIs ==
  ASSUME NEW T, NEW x \in Seq(T), NEW n \in Nat, NEW y, Prefix(y, x, n)
  PROVE  /\ Len(y) = n
         /\ \A i \in DOMAIN y : i \in DOMAIN x /\ y[i] = x[i] /\ i \in Nat /\ i <= n
         /\ \A i \in DOMAIN x : i \in Nat /\ i <= Len(x) /\ (i <= n => i \in DOMAIN y)
         /\ Len(x) \in Nat
<1>1. Len(x) \in Nat /\ DOMAIN x = 1 .. Len(x)
  BY ListIs
<1> QED
  BY <1>1 DEF Prefix

\* The block that ends is the innermost one: its savepoint is the last, and nothing
\* after it is of code outside.  With it go the savepoint, or what came after it.
LEMMA CutKeeps ==
  ASSUME Always, LogInv, NEW s \in guarded, KindOf[s] = "savepoint", state[s] = "ending",
         state'[s] \in {"released", "failed"}, Moves(s), Going(state) \subseteq inside[s],
         NEW m \in DOMAIN marks, marks[m].by = s, NEW c \in Nat, m <= c + 1, c <= m,
         NEW p \in Nat, p <= Len(log), marks[m].len <= p,
         state'[s] = "released" => p = Len(log),
         state'[s] = "failed" => p = marks[m].len,
         Prefix(marks', marks, c), Prefix(log', log, p),
         inside' = inside, guarded' = guarded, accepted' = accepted
  PROVE  LogInv'
<1> DEFINE L == log'
           M == marks'
<1>d. /\ Len(L) = p
      /\ \A n \in DOMAIN L : n \in DOMAIN log /\ L[n] = log[n] /\ n \in Nat /\ n <= p
      /\ \A n \in DOMAIN log : n \in Nat /\ n <= Len(log) /\ (n <= p => n \in DOMAIN L)
      /\ Len(log) \in Nat
  <2>1. log \in Seq([by : Level, at : Level, role : Roles])
    BY AlwaysIs, LogTyped
  <2>2. Prefix(L, log, p)
    OBVIOUS
  <2> HIDE DEF L
  <2> QED
    BY <2>1, <2>2, PrefixIs
<1>e. /\ \A j \in DOMAIN M : j \in DOMAIN marks /\ M[j] = marks[j] /\ j \in Nat /\ j <= c
      /\ \A j \in DOMAIN marks : j \in Nat /\ (j <= c => j \in DOMAIN M)
  <2>1. marks \in Seq([by : Scope, len : Nat, role : Roles])
    BY AlwaysIs, LogTyped
  <2>2. Prefix(M, marks, c)
    OBVIOUS
  <2> HIDE DEF M
  <2> QED
    BY <2>1, <2>2, PrefixIs
<1>n. m \in Nat /\ m <= c + 1 /\ c <= m /\ c \in Nat
  BY <1>e
<1> HIDE DEF L, M
<1>g. s \in Scope /\ s \in Level /\ s # Root
  BY AlwaysIs, RestTyped, LevelIs
<1>5. /\ \A x \in guarded : x \in Scope
      /\ \A x \in guarded : x # s => state'[x] = state[x]
  <2>1. \A x \in guarded : x \in Scope /\ state[x] \in Opened
    BY AlwaysIs, RestTyped DEF GuardedOpened
  <2> QED
    BY <2>1 DEF Moves, Opens, Opened
<1>f. Forward
  BY <1>g, MovesForward
<1>o. ~Closed(s) /\ Closed(s)'
  BY DEF Closed
<1>m. \A j \in DOMAIN marks : marks[j].by \in guarded /\ marks[j].len \in Nat
  BY AlwaysIs, LogTyped DEF LogInv, MarksOfBlocks
<1>q. \A j \in DOMAIN M : j \in DOMAIN marks /\ M[j] = marks[j]
  BY <1>e
<1>r. /\ \A k, j \in DOMAIN marks : j <= k => marks[j].len <= marks[k].len
      /\ \A k, j \in DOMAIN marks : marks[k].by = marks[j].by => k = j
  BY AlwaysIs DEF LogInv, MarksInOrder, MarksOfBlocks
<1>1. MarksOfBlocks'
  <2>3. \A j, i \in DOMAIN M : M[j].by = M[i].by => j = i
    BY <1>q, <1>r
  <2>4. \A j \in DOMAIN M : M[j].by \in guarded' /\ KindOf[M[j].by] = "savepoint"
    BY <1>q DEF LogInv, MarksOfBlocks
  <2> QED
    BY <2>3, <2>4 DEF MarksOfBlocks, L, M
<1>2. LogOfOpened'
  <2> SUFFICES ASSUME NEW n \in DOMAIN L
               PROVE  L[n].at \in inside[L[n].by] /\ (L[n].by = Root \/ state'[L[n].by] \in Opened)
    BY DEF LogOfOpened, L
  <2>1. /\ log[n].at \in inside[log[n].by] /\ log[n].by \in Level
        /\ log[n].by = Root \/ state[log[n].by] \in Opened
    BY <1>d, LevelsOfLog
  <2> QED
    BY <2>1, <1>d, <1>f, LevelIs DEF Forward
<1>3. OpenMarked'
  <2> SUFFICES ASSUME NEW x \in guarded, KindOf[x] = "savepoint", ~Closed(x)'
               PROVE  \E j \in DOMAIN M : M[j].by = x
    BY DEF OpenMarked, Marked, M
  <2>1. x # s /\ ~Closed(x)
    BY <1>5, <1>o DEF Closed
  <2>2. PICK j \in DOMAIN marks : marks[j].by = x
    BY <2>1 DEF LogInv, OpenMarked, Marked
  <2>3. ~(j > m)
    <3> SUFFICES ASSUME j > m PROVE FALSE
      OBVIOUS
    <3>1. s \in inside[x]
      BY <2>2, <1>o DEF LogInv, AfterMark
    <3>2. x \in inside[s] /\ x \in Level
      BY <2>1, OpenGoing, LevelIs
    <3> QED
      BY <2>1, <3>1, <3>2, <1>g, AlwaysIs DEF Tree
  <2>4. j # m
    BY <2>1, <2>2
  <2>5. j \in Nat /\ j < m
    BY <2>3, <2>4, <1>e, <1>n
  <2>6. j <= c
    BY <2>5, <1>n
  <2>7. j \in DOMAIN M /\ M[j] = marks[j]
    BY <2>6, <1>e
  <2> QED
    BY <2>2, <2>7
<1>4. AfterMark'
  <2> SUFFICES ASSUME NEW j \in DOMAIN M, state'[M[j].by] \notin {"released", "failed"}
               PROVE  /\ \A n \in DOMAIN L : n > M[j].len => M[j].by \in inside[L[n].by]
                      /\ \A i \in DOMAIN M : i > j => M[j].by \in inside[M[i].by]
    BY DEF AfterMark, L, M, Closed
  <2>1. M[j] = marks[j] /\ j \in DOMAIN marks /\ marks[j].by \in guarded
    BY <1>q, <1>m
  <2>2. ~Closed(marks[j].by)
    BY <2>1, <1>5, <1>o DEF Closed
  <2>3. /\ \A n \in DOMAIN log : n > marks[j].len => marks[j].by \in inside[log[n].by]
        /\ \A i \in DOMAIN marks : i > j => marks[j].by \in inside[marks[i].by]
    BY <2>1, <2>2 DEF LogInv, AfterMark
  <2> QED
    BY <2>1, <2>3, <1>d, <1>q
<1>6. BeforeMark'
  <2> SUFFICES ASSUME NEW j \in DOMAIN M, NEW n \in DOMAIN L, n <= M[j].len
               PROVE  M[j].by \notin inside[L[n].by]
    BY DEF BeforeMark, L, M
  <2> QED
    BY <1>d, <1>q DEF LogInv, BeforeMark
<1>7. Failed'
  <2> SUFFICES ASSUME NEW x \in guarded, KindOf[x] = "savepoint", state'[x] = "failed", NEW n \in DOMAIN L
               PROVE  x \notin inside[L[n].at]
    BY DEF Failed, L
  <2>1. n \in DOMAIN log /\ L[n] = log[n] /\ n <= p
    BY <1>d
  <2>2. CASE x # s
    BY <2>1, <2>2, <1>5 DEF LogInv, Failed
  <2>3. CASE x = s
    <3>1. n <= marks[m].len
      BY <2>1, <2>3
    <3>2. s \notin inside[log[n].by]
      BY <2>1, <3>1 DEF LogInv, BeforeMark
    <3>3. inside[log[n].at] \subseteq inside[log[n].by]
      BY <2>1, LevelsOfLog
    <3> QED
      BY <2>1, <2>3, <3>2, <3>3
  <2> QED
    BY <2>2, <2>3
<1>8. Kept'
  <2> SUFFICES ASSUME NEW l \in Level,
                      \A x \in inside[l] \ {Root} : KindOf[x] = "savepoint" => state'[x] # "failed"
               PROVE  accepted[l] = Cardinality(WritesOf(l)')
    BY DEF Kept
  <2>1. \A x \in inside[l] \ {Root} : KindOf[x] = "savepoint" => state[x] # "failed"
    <3>1. \A x \in inside[l] \ {Root} : x \in Scope
      BY AlwaysIs, LevelIs
    <3> QED
      BY <3>1, <1>f DEF Forward
  <2>2. accepted[l] = Cardinality(WritesOf(l))
    BY <2>1 DEF LogInv, Kept
  <2>3. ASSUME NEW n \in DOMAIN log, log[n].by = l PROVE n \in DOMAIN L
    <3>1. CASE state'[s] = "released"
      <4>1. n <= p
        BY <3>1, <1>d
      <4> QED
        BY <4>1, <1>d
    <3>2. CASE state'[s] = "failed"
      <4>1. s \notin inside[l]
        BY <3>2, <1>g
      <4>2. ~(n > marks[m].len)
        BY <2>3, <4>1, <1>o DEF LogInv, AfterMark
      <4>3. n \in Nat /\ marks[m].len \in Nat /\ p = marks[m].len
        BY <3>2, <1>d, <1>m
      <4>4. n <= p
        BY <4>2, <4>3
      <4> QED
        BY <4>4, <1>d
    <3> QED
      BY <3>1, <3>2
  <2>4. {n \in DOMAIN L : L[n].by = l} = {n \in DOMAIN log : log[n].by = l}
    BY <2>3, <1>d
  <2>5. WritesOf(l)' = WritesOf(l)
    BY <2>4 DEF WritesOf, L
  <2> QED
    BY <2>2, <2>5
<1> QED
  BY <1>1, <1>2, <1>3, <1>4, <1>6, <1>7, <1>8 DEF LogInv

\* What is left of the log and the savepoints keeps its roles.
LEMMA CutRoles ==
  ASSUME RoleInv, inside' = inside,
         \A j \in DOMAIN marks' : j \in DOMAIN marks /\ marks'[j] = marks[j],
         \A n \in DOMAIN log' : n \in DOMAIN log /\ log'[n] = log[n]
  PROVE  MarkRole' /\ WriteRole'
<1> DEFINE L == log'
           M == marks'
<1>1. /\ \A j \in DOMAIN M : j \in DOMAIN marks /\ M[j] = marks[j]
      /\ \A n \in DOMAIN L : n \in DOMAIN log /\ L[n] = log[n]
  OBVIOUS
<1> HIDE DEF L, M
<1>2. \A j \in DOMAIN M : M[j].role = "engine" <=> InRoleWindow(M[j].by)
  BY <1>1 DEF RoleInv, MarkRole
<1>3. \A n \in DOMAIN L : /\ L[n].role = "engine" => InRoleWindow(L[n].by)
                          /\ L[n].role = "request" => ~InRoleWindow(L[n].at)
  BY <1>1 DEF RoleInv, WriteRole
<1> QED
  BY <1>2, <1>3 DEF MarkRole, WriteRole, InRoleWindow, L, M

LEMMA CutPrefix ==
  ASSUME NEW T, NEW x \in Seq(T), NEW n \in Nat, n <= Len(x), NEW y, y = SubSeq(x, 1, n)
  PROVE  y \in Seq(T) /\ Prefix(y, x, n)
<1>1. Len(x) \in Nat
  BY ListIs
<1>2. n \in 0 .. Len(x)
  BY <1>1
<1> QED
  BY <1>2, CutIs DEF Prefix

LEMMA WholePrefix ==
  ASSUME NEW T, NEW x \in Seq(T)
  PROVE  Prefix(x, x, Len(x))
BY ListIs DEF Prefix

\* RELEASE SAVEPOINT of the innermost block.
LEMMA MarkReleased ==
  ASSUME Always, Straight, NEW s \in Scope, s = Exec.by, ExecRelease, ~failing, Marked(s),
         Moves(s), state'[s] = "released", LineHolds'
  PROVE  Straight'
<1> DEFINE m == MarkOf(s)
<1>1. /\ wire # <<>> /\ Exec.op = "release" /\ marks' = SubSeq(marks, 1, m - 1)
      /\ failing' = failing /\ log' = log /\ accepted' = accepted /\ guarded' = guarded
      /\ parent' = parent /\ inside' = inside /\ role' = role /\ prev' = prev
  BY DEF ExecRelease
<1>t. TurnsTypeOK /\ LogInv /\ RoleInv /\ LineHolds
  BY AlwaysIs DEF Straight
<1>2. m \in DOMAIN marks /\ marks[m].by = s
  BY MarkOfIs
<1> HIDE DEF m
<1>s. /\ s \in guarded /\ KindOf[s] = "savepoint" /\ state[s] = "ending" /\ Exec.at = s
  <2>1. s \in guarded /\ state[s] = "ending" /\ Exec.at = s
    BY <1>1, ExecIs DEF EndOps
  <2>2. KindOf[s] = "savepoint"
    BY <1>2, <1>t DEF LogInv, MarksOfBlocks
  <2> QED
    BY <2>1, <2>2
<1>3. /\ s \in Going(state) /\ Going(state) \subseteq inside[s]
      /\ inside[s] \subseteq Going(state) \union {Root}
  BY <1>1, <1>s, <1>t, ExecInnermost, LevelIs
<1>4. /\ DOMAIN marks = 1 .. Len(marks) /\ Len(marks) \in Nat /\ Len(log) \in Nat
      /\ marks[m].len \in Nat /\ marks[m].len <= Len(log)
      /\ log \in Seq([by : Level, at : Level, role : Roles])
      /\ marks \in Seq([by : Scope, len : Nat, role : Roles])
  BY <1>2, <1>t, AlwaysIs, LogTyped DEF MarksInOrder
<1>5. m - 1 \in Nat /\ m <= m - 1 + 1 /\ m - 1 <= m /\ m - 1 <= Len(marks)
  BY <1>2, <1>4
<1> DEFINE c == m - 1
<1>6. Prefix(marks', marks, c)
  BY <1>1, <1>4, <1>5, CutPrefix
<1>7. Prefix(log', log, Len(log))
  BY <1>1, <1>4, WholePrefix
<1>8. c \in Nat /\ m <= c + 1 /\ c <= m
  BY <1>5
<1> HIDE DEF c
<1>9. LogInv'
  <2> DEFINE p == Len(log)
  <2>1. p \in Nat /\ p <= Len(log) /\ marks[m].len <= p /\ p = Len(log) /\ Prefix(log', log, p)
    BY <1>4, <1>7
  <2> HIDE DEF p
  <2> QED
    BY <1>1, <1>2, <1>3, <1>6, <1>8, <1>s, <1>t, <2>1, CutKeeps
<1>10. MarkRole' /\ WriteRole'
  <2>1. \A j \in DOMAIN marks' : j \in DOMAIN marks /\ marks'[j] = marks[j]
    BY <1>6 DEF Prefix
  <2> QED
    BY <1>1, <1>t, <2>1, CutRoles
<1>11. Windows' = Windows
  <2>1. \A x \in guarded : x # s => state'[x] = state[x]
    <3>1. \A x \in guarded : x \in Scope /\ state[x] \in Opened
      BY AlwaysIs, RestTyped DEF GuardedOpened
    <3> QED
      BY <3>1 DEF Moves, Opens, Opened
  <2> QED
    BY <1>1, <1>s, <2>1 DEF Windows
<1>12. RoleNow' /\ PrevRole'
  BY <1>1, <1>11, <1>t DEF RoleInv, RoleNow, PrevRole, InRoleWindow
<1> QED
  BY <1>9, <1>10, <1>12 DEF Straight, RoleInv

\* ROLLBACK TO SAVEPOINT of the innermost block, whose savepoint stands.
LEMMA MarkRolledBack ==
  ASSUME Always, Straight, NEW s \in Scope, s = Exec.by, ExecRollback,
         Moves(s), state'[s] = "failed", KindOf[s] = "savepoint", LineHolds'
  PROVE  Straight'
<1> DEFINE m == MarkOf(s)
           p == marks[m].len
<1>t. TurnsTypeOK /\ LogInv /\ RoleInv /\ LineHolds
  BY AlwaysIs DEF Straight
<1>0. wire # <<>> /\ Exec.op = "rollback"
  BY DEF ExecRollback
<1>s. s \in guarded /\ state[s] = "ending" /\ Exec.at = s
  BY <1>0, ExecIs DEF EndOps
<1>m. Marked(s)
  BY <1>s, <1>t DEF LogInv, OpenMarked, Closed
<1>1. /\ marks' = SubSeq(marks, 1, m) /\ log' = SubSeq(log, 1, p) /\ role' = marks[m].role
      /\ failing' = FALSE /\ accepted' = accepted /\ guarded' = guarded
      /\ parent' = parent /\ inside' = inside /\ prev' = prev
  BY <1>m DEF ExecRollback
<1>2. m \in DOMAIN marks /\ marks[m].by = s
  BY <1>m, MarkOfIs
<1> HIDE DEF m
<1>3. /\ s \in Going(state) /\ Going(state) \subseteq inside[s]
      /\ inside[s] \subseteq Going(state) \union {Root}
  BY <1>0, <1>s, <1>t, ExecInnermost, LevelIs
<1>4. /\ DOMAIN marks = 1 .. Len(marks) /\ Len(marks) \in Nat /\ Len(log) \in Nat
      /\ p \in Nat /\ p <= Len(log)
      /\ log \in Seq([by : Level, at : Level, role : Roles])
      /\ marks \in Seq([by : Scope, len : Nat, role : Roles])
  BY <1>2, <1>t, AlwaysIs, LogTyped DEF MarksInOrder
<1>5. m \in Nat /\ m <= m + 1 /\ m <= m /\ m <= Len(marks)
  BY <1>2, <1>4
<1>p. p = marks[m].len /\ marks[m].len <= p
  BY <1>4
<1> HIDE DEF p
<1>6. Prefix(marks', marks, m)
  BY <1>1, <1>4, <1>5, CutPrefix
<1>7. Prefix(log', log, p)
  BY <1>1, <1>4, CutPrefix
<1>9. LogInv'
  BY <1>1, <1>2, <1>3, <1>4, <1>5, <1>6, <1>7, <1>p, <1>s, <1>t, CutKeeps
<1>10. MarkRole' /\ WriteRole'
  <2>1. \A j \in DOMAIN marks' : j \in DOMAIN marks /\ marks'[j] = marks[j]
    BY <1>6 DEF Prefix
  <2>2. \A n \in DOMAIN log' : n \in DOMAIN log /\ log'[n] = log[n]
    BY <1>7 DEF Prefix
  <2> QED
    BY <1>1, <1>t, <2>1, <2>2, CutRoles
<1>11. Windows' = Windows
  <2>1. \A x \in guarded : x # s => state'[x] = state[x]
    <3>1. \A x \in guarded : x \in Scope /\ state[x] \in Opened
      BY AlwaysIs, RestTyped DEF GuardedOpened
    <3> QED
      BY <3>1 DEF Moves, Opens, Opened
  <2> QED
    BY <1>1, <1>s, <2>1 DEF Windows
<1>12. RoleNow'
  <2>1. InRoleWindow(s) <=> Windows # {}
    BY <1>3, WindowsOutside
  <2>2. marks[m].role = "engine" <=> InRoleWindow(s)
    BY <1>2, <1>t DEF RoleInv, MarkRole
  <2> QED
    BY <1>1, <1>11, <2>1, <2>2 DEF RoleNow
<1>13. PrevRole'
  BY <1>1, <1>11, <1>t DEF RoleInv, PrevRole, InRoleWindow
<1> QED
  BY <1>9, <1>10, <1>12, <1>13 DEF Straight, RoleInv

\* The role window's first statement: what it puts back is what is around it.
LEMMA WindowSet ==
  ASSUME Always, Always', Straight, ExecSetRole, ~failing, NEW s \in Scope, s = Exec.by, Moves(s),
         state[s] = "opening", state'[s] = "open", KindOf[s] = "role", LineHolds'
  PROVE  Straight'
<1>1. /\ wire # <<>> /\ Exec.op = "set" /\ prev' = [prev EXCEPT ![s] = role] /\ role' = "engine"
      /\ guarded' = guarded \union {s}
      /\ failing' = failing /\ log' = log /\ marks' = marks /\ accepted' = accepted
      /\ parent' = parent /\ inside' = inside
  BY DEF ExecSetRole
<1>t. TurnsTypeOK /\ LogInv /\ RoleInv /\ LineHolds
  BY AlwaysIs DEF Straight
<1>s. s \in Level /\ s # Root /\ Exec.at = s
  BY <1>1, ExecIs, LevelIs
<1>2. /\ s \in Going(state) /\ Going(state) \subseteq inside[s]
      /\ inside[s] \subseteq Going(state) \union {Root}
  BY <1>1, <1>s, <1>t, ExecInnermost
<1>3. /\ s \notin guarded
      /\ \A x \in guarded : x \in Scope /\ x # s /\ state'[x] = state[x]
  <2>1. \A x \in guarded : x \in Scope /\ state[x] \in Opened
    BY AlwaysIs, RestTyped DEF GuardedOpened
  <2> QED
    BY <2>1 DEF Moves, Opens, Opened
<1>4. Rooted /\ Forward
  BY <1>1, <1>s, MovesForward DEF Rooted
<1>5. LogInv'
  <2>1. \A x \in guarded : KindOf[x] = "savepoint" /\ ~Closed(x) => ~Closed(x)'
    BY <1>3 DEF Closed
  <2>2. guarded \subseteq guarded' /\ \A x \in guarded' : x \in guarded \/ KindOf[x] = "role"
    BY <1>1
  <2> QED
    BY <1>1, <1>4, <1>t, <2>1, <2>2, LogStays
<1>6. MarkRole' /\ WriteRole'
  BY <1>1, <1>4, <1>t, RolesKept
<1>7. s \notin Windows /\ Windows' = Windows \union {s}
  <2>1. s \notin Windows
    BY <1>3 DEF Windows
  <2>2. \A x \in guarded : state'[x] = state[x]
    BY <1>3
  <2>3. state'[s] \in Running
    BY DEF Running
  <2> QED
    BY <1>1, <2>1, <2>2, <2>3 DEF Windows
<1>8. RoleNow'
  BY <1>1, <1>7 DEF RoleNow
<1>9. PrevRole'
  <2> SUFFICES ASSUME NEW x \in Windows \union {s}
               PROVE  prev'[x] = "engine" <=> InRoleWindow(parent[x])
    BY <1>1, <1>7 DEF PrevRole, InRoleWindow
  <2>0. prev \in [Scope -> Roles]
    BY <1>t, RestTyped
  <2>1. CASE x = s
    <3>1. prev'[s] = role
      BY <1>1, <2>0
    <3>2. InRoleWindow(parent[s]) <=> Windows \ {s} # {}
      BY <1>2, WindowsOutside
    <3>3. Windows \ {s} = Windows
      BY <1>7
    <3>4. role = "engine" <=> Windows # {}
      BY <1>t DEF RoleInv, RoleNow
    <3> QED
      BY <2>1, <3>1, <3>2, <3>3, <3>4
  <2>2. CASE x # s
    <3>1. x \in Windows /\ x \in Scope
      BY <2>2, <1>3 DEF Windows
    <3>2. prev'[x] = prev[x]
      BY <2>2, <3>1, <2>0, <1>1
    <3> QED
      BY <3>1, <3>2, <1>t DEF RoleInv, PrevRole
  <2> QED
    BY <2>1, <2>2
<1> QED
  BY <1>5, <1>6, <1>8, <1>9 DEF Straight, RoleInv

\* The role window's last statement.
LEMMA WindowRestored ==
  ASSUME Always, Always', Straight, ExecRestoreRole, NEW s \in Scope, s = Exec.by, Moves(s),
         state'[s] \in {"released", "failed"}, LineHolds'
  PROVE  Straight'
<1>1. /\ wire # <<>> /\ Exec.op = "restore" /\ role' = (IF failing THEN role ELSE prev[s])
      /\ guarded' = guarded
      /\ failing' = failing /\ log' = log /\ marks' = marks /\ accepted' = accepted
      /\ parent' = parent /\ inside' = inside /\ prev' = prev
  BY DEF ExecRestoreRole
<1>t. TurnsTypeOK /\ LogInv /\ RoleInv /\ LineHolds
  BY AlwaysIs DEF Straight
<1>s. /\ s \in Level /\ s # Root /\ Exec.at = s /\ s \in guarded /\ state[s] = "ending"
      /\ KindOf[s] = "role"
  BY <1>1, ExecIs, LevelIs DEF EndOps
<1>2. /\ s \in Going(state) /\ Going(state) \subseteq inside[s]
      /\ inside[s] \subseteq Going(state) \union {Root}
  BY <1>1, <1>s, <1>t, ExecInnermost
<1>3. \A x \in guarded : x \in Scope /\ (x # s => state'[x] = state[x])
  <2>1. \A x \in guarded : x \in Scope /\ state[x] \in Opened
    BY AlwaysIs, RestTyped DEF GuardedOpened
  <2> QED
    BY <2>1 DEF Moves, Opens, Opened
<1>4. Rooted /\ Forward
  BY <1>1, <1>s, MovesForward DEF Rooted
<1>5. LogInv'
  <2>1. \A x \in guarded : KindOf[x] = "savepoint" /\ ~Closed(x) => ~Closed(x)'
    BY <1>3, <1>s DEF Closed
  <2>2. guarded \subseteq guarded' /\ \A x \in guarded' : x \in guarded \/ KindOf[x] = "role"
    BY <1>1
  <2> QED
    BY <1>1, <1>4, <1>t, <2>1, <2>2, LogStays
<1>7. s \in Windows /\ Windows' = Windows \ {s}
  <2>1. s \in Windows
    BY <1>s DEF Windows, Running
  <2>2. state'[s] \notin Running
    BY DEF Running
  <2> QED
    BY <1>1, <1>3, <2>1, <2>2 DEF Windows
<1>8. RoleNow'
  <2>1. InRoleWindow(parent[s]) <=> Windows \ {s} # {}
    BY <1>2, WindowsOutside
  <2>2. prev[s] = "engine" <=> InRoleWindow(parent[s])
    BY <1>7, <1>t DEF RoleInv, PrevRole
  <2> QED
    BY <1>1, <1>7, <2>1, <2>2 DEF RoleNow
<1>9. RoleInv'
  <2>1. \A x \in Windows' : x \in Windows /\ prev'[x] = prev[x] /\ parent'[x] = parent[x]
    BY <1>1, <1>7
  <2> QED
    BY <1>1, <1>4, <1>8, <1>t, <2>1, RoleStays
<1> QED
  BY <1>5, <1>9 DEF Straight

-----------------------------------------------------------------------------
(* What Postgres executes keeps the invariant.                               *)

LEMMA OrderGrows ==
  ASSUME Always, NEW w \in [by : Level, at : Level, role : Roles], log' = Append(log, w),
         marks' = marks
  PROVE  MarksInOrder'
<1>1. Len(log') = Len(log) + 1 /\ Len(log) \in Nat
  BY AlwaysIs, WritesGrow
<1>2. \A k \in DOMAIN marks : marks[k].len \in Nat
  BY AlwaysIs, LogTyped
<1> QED
  BY <1>1, <1>2, AlwaysIs DEF MarksInOrder

LEMMA OrderMarked ==
  ASSUME Always, NEW s \in Scope,
         marks' = Append(marks, [by |-> s, len |-> Len(log), role |-> role]), log' = log
  PROVE  MarksInOrder'
<1> DEFINE m == [by |-> s, len |-> Len(log), role |-> role]
           M == Append(marks, m)
           N == Len(marks)
<1>1. m \in [by : Scope, len : Nat, role : Roles] /\ m.len = Len(log) /\ Len(log) \in Nat
  BY AlwaysIs, LogTyped, RestTyped
<1>2. marks \in Seq([by : Scope, len : Nat, role : Roles])
  BY AlwaysIs, RestTyped
<1> HIDE DEF m
<1>3. /\ M \in Seq([by : Scope, len : Nat, role : Roles]) /\ Len(M) = N + 1 /\ N \in Nat
      /\ \A n \in 1 .. N : M[n] = marks[n]
      /\ M[N + 1] = m
  BY <1>1, <1>2, AppendIs
<1>4. DOMAIN marks = 1 .. N
  BY AlwaysIs, LogTyped
<1>5. marks' = M
  BY DEF m
<1> HIDE DEF M, N
<1>6. DOMAIN M = 1 .. N + 1
  BY <1>3, ListIs
<1>7. /\ \A k \in 1 .. N : marks[k].len <= Len(log) /\ marks[k].len \in Nat
      /\ \A k, j \in 1 .. N : j <= k => marks[j].len <= marks[k].len
  BY <1>4, AlwaysIs, LogTyped DEF MarksInOrder
<1>8. \A k \in DOMAIN M : M[k].len <= Len(log) /\ (k = N + 1 => M[k].len = Len(log))
  BY <1>1, <1>3, <1>6, <1>7
<1>9. ASSUME NEW k \in DOMAIN M, NEW j \in DOMAIN M, j <= k PROVE M[j].len <= M[k].len
  <2>1. CASE k = N + 1
    BY <1>8, <2>1
  <2>2. CASE k # N + 1
    BY <1>3, <1>6, <1>7, <1>9, <2>2
  <2> QED
    BY <2>1, <2>2
<1> QED
  BY <1>5, <1>8, <1>9 DEF MarksInOrder

LEMMA OrderCut ==
  ASSUME Always, NEW m \in DOMAIN marks, NEW c \in Nat, c <= m, NEW p \in Nat, marks[m].len <= p,
         Prefix(marks', marks, c), Prefix(log', log, p)
  PROVE  MarksInOrder'
<1> DEFINE M == marks'
<1>1. Len(log') = p
  BY DEF Prefix
<1>2. marks \in Seq([by : Scope, len : Nat, role : Roles])
  BY AlwaysIs, RestTyped
<1>3. \A j \in DOMAIN M : j \in DOMAIN marks /\ M[j] = marks[j] /\ j \in Nat /\ j <= c
  <2>1. Prefix(M, marks, c)
    OBVIOUS
  <2> HIDE DEF M
  <2> QED
    BY <1>2, <2>1, PrefixIs
<1>4. m \in Nat /\ \A j \in DOMAIN marks : marks[j].len \in Nat
  BY AlwaysIs, LogTyped
<1>5. \A k, j \in DOMAIN marks : j <= k => marks[j].len <= marks[k].len
  BY AlwaysIs DEF MarksInOrder
<1> HIDE DEF M
<1>6. \A j \in DOMAIN M : M[j].len <= p
  BY <1>3, <1>4, <1>5
<1>7. \A k, j \in DOMAIN M : j <= k => M[j].len <= M[k].len
  BY <1>3, <1>5
<1> QED
  BY <1>1, <1>6, <1>7 DEF MarksInOrder, M

LEMMA WriteAccepted ==
  ASSUME TurnsInv, ExecWrite(TRUE)
  PROVE  TurnsInv'
<1>a. Always /\ TurnsTypeOK /\ strayed \in BOOLEAN
  BY AlwaysIs, RestTyped DEF TurnsInv
<1>1. /\ wire # <<>> /\ Exec.op = "write"
      /\ log' = Append(log, [by |-> Exec.by, at |-> Exec.at, role |-> role])
      /\ accepted' = [accepted EXCEPT ![Exec.by] = @ + 1]
      /\ failing' = failing /\ marks' = marks
      /\ parent' = parent /\ inside' = inside /\ opener' = opener /\ guarded' = guarded
      /\ role' = role /\ prev' = prev /\ sent' = sent /\ strayed' = strayed
  BY DEF ExecWrite
<1>2. ChainsHold' /\ Opens(state, state', {}) /\ (LineHolds => LineHolds')
  BY <1>a, WriteMoves
<1>3. Moves(Root) /\ Root \in Level /\ Root \notin Scope
  BY <1>2, NobodyMoves, LevelIs
<1>4. TurnsTypeOK'
  <2>1. accepted' \in [Level -> Nat]
    <3>1. Exec.by \in Level /\ accepted \in [Level -> Nat]
      BY <1>1, <1>a, ExecIs, RestTyped
    <3> QED
      BY <1>1, <3>1
  <2>2. log' \in Seq([by : Level, at : Level, role : Roles])
    <3>1. [by |-> Exec.by, at |-> Exec.at, role |-> role] \in [by : Level, at : Level, role : Roles]
      BY <1>1, <1>a, ExecIs, RestTyped
    <3>2. log \in Seq([by : Level, at : Level, role : Roles])
      BY <1>a, RestTyped
    <3> QED
      BY <1>1, <3>1, <3>2, AppendIs
  <2>3. Tree(parent', inside')
    BY <1>1, <1>a, AlwaysIs
  <2> QED
    BY <1>1, <1>2, <1>a, <2>1, <2>2, <2>3, RestTyped, TypeNext
<1>o. MarksInOrder'
  <2>1. [by |-> Exec.by, at |-> Exec.at, role |-> role] \in [by : Level, at : Level, role : Roles]
    BY <1>1, <1>a, ExecIs, RestTyped
  <2> QED
    BY <1>1, <1>a, <2>1, OrderGrows
<1>5. Always'
  BY <1>1, <1>2, <1>3, <1>4, <1>a, <1>o, AlwaysNext
<1>6. ASSUME ~strayed' PROVE Straight'
  <2>1. Straight /\ LineHolds'
    BY <1>1, <1>2, <1>6 DEF TurnsInv, Straight
  <2> QED
    BY <1>3, <1>a, <2>1, WriteLogged
<1> QED
  BY <1>5, <1>6 DEF TurnsInv

LEMMA SaveAccepted ==
  ASSUME TurnsInv, ExecSave, ~failing
  PROVE  TurnsInv'
<1> DEFINE s == Exec.by
<1>a. Always /\ TurnsTypeOK /\ strayed \in BOOLEAN
  BY AlwaysIs, RestTyped DEF TurnsInv
<1>1. /\ wire # <<>> /\ Exec.op = "save" /\ Goes(Exec.at, [state EXCEPT ![s] = "open"])
      /\ marks' = Append(marks, [by |-> s, len |-> Len(log), role |-> role])
      /\ guarded' = guarded \union {s}
      /\ failing' = failing /\ log' = log /\ accepted' = accepted
      /\ parent' = parent /\ inside' = inside /\ opener' = opener
      /\ role' = role /\ prev' = prev /\ sent' = sent /\ strayed' = strayed
  BY DEF ExecSave
<1>2. ExecutesOwn(s) /\ Goes(s, [state EXCEPT ![s] = "open"]) /\ s = Exec.by
  BY <1>1, <1>a, ExecIs DEF ExecutesOwn
<1> HIDE DEF s
<1>3. /\ s \in Scope /\ s \in Level /\ s \notin guarded /\ Exec.op = FirstOp(s)
      /\ state[s] = "opening" /\ state'[s] = "open"
      /\ Moves(s) /\ ChainsHold' /\ (LineHolds => LineHolds')
  BY <1>1, <1>2, <1>a, ExecOpens
<1>4. KindOf[s] = "savepoint"
  BY <1>1, <1>3 DEF FirstOp
<1>5. TurnsTypeOK'
  <2>1. marks' \in Seq([by : Scope, len : Nat, role : Roles])
    <3>1. [by |-> s, len |-> Len(log), role |-> role] \in [by : Scope, len : Nat, role : Roles]
      BY <1>3, <1>a, LogTyped, RestTyped
    <3>2. marks \in Seq([by : Scope, len : Nat, role : Roles])
      BY <1>a, RestTyped
    <3> QED
      BY <1>1, <3>1, <3>2, AppendIs
  <2>2. Tree(parent', inside') /\ guarded' \subseteq Scope
    BY <1>1, <1>3, <1>a, AlwaysIs, RestTyped
  <2> QED
    BY <1>1, <1>3, <1>a, <2>1, <2>2, RestTyped, TypeNext
<1>6. Always'
  <2>1. MarksInOrder'
    BY <1>1, <1>3, <1>a, OrderMarked
  <2> QED
    BY <1>1, <1>3, <1>4, <1>5, <1>a, <2>1, AlwaysNext
<1>7. ASSUME ~strayed' PROVE Straight'
  <2>1. Straight /\ LineHolds'
    BY <1>1, <1>3, <1>7 DEF TurnsInv, Straight
  <2>2. GuardedOpened'
    BY <1>6 DEF Always
  <2> QED
    BY <1>2, <1>3, <1>4, <1>a, <2>1, <2>2, MarkSet
<1> QED
  BY <1>6, <1>7 DEF TurnsInv

LEMMA SetRoleAccepted ==
  ASSUME TurnsInv, ExecSetRole, ~failing
  PROVE  TurnsInv'
<1> DEFINE s == Exec.by
<1>a. Always /\ TurnsTypeOK /\ strayed \in BOOLEAN
  BY AlwaysIs, RestTyped DEF TurnsInv
<1>1. /\ wire # <<>> /\ Exec.op = "set" /\ Goes(s, [state EXCEPT ![s] = "open"])
      /\ prev' = [prev EXCEPT ![s] = role] /\ role' = "engine"
      /\ guarded' = guarded \union {s} /\ marks' = marks
      /\ failing' = failing /\ log' = log /\ accepted' = accepted
      /\ parent' = parent /\ inside' = inside /\ opener' = opener
      /\ sent' = sent /\ strayed' = strayed
  BY DEF ExecSetRole
<1>2. ExecutesOwn(s) /\ s = Exec.by
  BY <1>1 DEF ExecutesOwn
<1> HIDE DEF s
<1>3. /\ s \in Scope /\ s \in Level /\ s \notin guarded /\ Exec.op = FirstOp(s)
      /\ state[s] = "opening" /\ state'[s] = "open"
      /\ Moves(s) /\ ChainsHold' /\ (LineHolds => LineHolds')
  BY <1>1, <1>2, <1>a, ExecOpens
<1>4. KindOf[s] = "role"
  BY <1>1, <1>3, TurnsAssumption DEF FirstOp
<1>5. TurnsTypeOK'
  <2>1. prev' \in [Scope -> Roles] /\ role' \in Roles
    BY <1>1, <1>3, <1>a, RestTyped DEF Roles
  <2>2. Tree(parent', inside') /\ guarded' \subseteq Scope
    BY <1>1, <1>3, <1>a, AlwaysIs, RestTyped
  <2> QED
    BY <1>1, <1>3, <1>a, <2>1, <2>2, RestTyped, TypeNext
<1>6. Always'
  <2>1. MarksInOrder'
    BY <1>1, <1>a, OrderStays
  <2> QED
    BY <1>1, <1>3, <1>4, <1>5, <1>a, <2>1, AlwaysNext
<1>7. ASSUME ~strayed' PROVE Straight'
  <2>1. Straight /\ LineHolds'
    BY <1>1, <1>3, <1>7 DEF TurnsInv, Straight
  <2> QED
    BY <1>2, <1>3, <1>4, <1>6, <1>a, <2>1, WindowSet
<1> QED
  BY <1>6, <1>7 DEF TurnsInv

LEMMA RestoreRoleKeeps ==
  ASSUME TurnsInv, ExecRestoreRole
  PROVE  TurnsInv'
<1> DEFINE s == Exec.by
           as == IF failing THEN "failed" ELSE "released"
<1>a. Always /\ TurnsTypeOK /\ strayed \in BOOLEAN
  BY AlwaysIs, RestTyped DEF TurnsInv
<1>1. /\ wire # <<>> /\ Exec.op = "restore" /\ CloseScope(s, as)
      /\ role' = (IF failing THEN role ELSE prev[s])
      /\ guarded' = guarded /\ marks' = marks
      /\ failing' = failing /\ log' = log /\ accepted' = accepted
      /\ parent' = parent /\ inside' = inside /\ opener' = opener /\ prev' = prev
      /\ sent' = sent /\ strayed' = strayed
  BY DEF ExecRestoreRole
<1>2. ExecutesOwn(s) /\ s = Exec.by /\ Exec.op \in EndOps \union {"set"} /\ as \in {"released", "failed"}
  BY <1>1 DEF ExecutesOwn, EndOps
<1> HIDE DEF s, as
<1>3. /\ s \in Scope /\ s \in Level /\ state'[s] = as
      /\ Moves(s) /\ ChainsHold' /\ (LineHolds => LineHolds')
  BY <1>1, <1>2, <1>a, ExecCloses
<1>5. TurnsTypeOK'
  <2>1. role' \in Roles
    BY <1>1, <1>3, <1>a, RestTyped
  <2>2. Tree(parent', inside')
    BY <1>1, <1>a, AlwaysIs
  <2> QED
    BY <1>1, <1>3, <1>a, <2>1, <2>2, RestTyped, TypeNext
<1>6. Always'
  <2>1. state'[s] \notin {"open", "ending"}
    BY <1>2, <1>3
  <2>2. MarksInOrder'
    BY <1>1, <1>a, OrderStays
  <2> QED
    BY <1>1, <1>3, <1>5, <1>a, <2>1, <2>2, AlwaysNext
<1>7. ASSUME ~strayed' PROVE Straight'
  <2>1. Straight /\ LineHolds'
    BY <1>1, <1>3, <1>7 DEF TurnsInv, Straight
  <2> QED
    BY <1>2, <1>3, <1>6, <1>a, <2>1, WindowRestored
<1> QED
  BY <1>6, <1>7 DEF TurnsInv

LEMMA ReleaseAccepted ==
  ASSUME TurnsInv, ExecRelease, ~failing, Marked(Exec.by)
  PROVE  TurnsInv'
<1> DEFINE s == Exec.by
<1>a. Always /\ TurnsTypeOK /\ strayed \in BOOLEAN
  BY AlwaysIs, RestTyped DEF TurnsInv
<1>1. /\ wire # <<>> /\ Exec.op = "release" /\ CloseScope(s, "released")
      /\ marks' = SubSeq(marks, 1, MarkOf(s) - 1)
      /\ role' = role /\ guarded' = guarded
      /\ failing' = failing /\ log' = log /\ accepted' = accepted
      /\ parent' = parent /\ inside' = inside /\ opener' = opener /\ prev' = prev
      /\ sent' = sent /\ strayed' = strayed
  BY DEF ExecRelease
<1>2. ExecutesOwn(s) /\ s = Exec.by /\ Exec.op \in EndOps \union {"set"} /\ Marked(s)
  BY <1>1 DEF ExecutesOwn, EndOps
<1> HIDE DEF s
<1>3. /\ s \in Scope /\ s \in Level /\ state'[s] = "released"
      /\ Moves(s) /\ ChainsHold' /\ (LineHolds => LineHolds')
  BY <1>1, <1>2, <1>a, ExecCloses
<1>5. TurnsTypeOK'
  <2>1. marks' \in Seq([by : Scope, len : Nat, role : Roles])
    <3>1. MarkOf(s) \in DOMAIN marks
      BY <1>2, MarkOfIs
    <3>2. /\ MarkOf(s) - 1 \in Nat /\ MarkOf(s) - 1 <= Len(marks)
          /\ marks \in Seq([by : Scope, len : Nat, role : Roles])
      BY <3>1, <1>a, LogTyped
    <3> QED
      BY <3>2, <1>1, CutPrefix
  <2>2. Tree(parent', inside')
    BY <1>1, <1>a, AlwaysIs
  <2> QED
    BY <1>1, <1>3, <1>a, <2>1, <2>2, RestTyped, TypeNext
<1>6. Always'
  <2>1. state'[s] \notin {"open", "ending"}
    BY <1>3
  <2>2. MarksInOrder'
    <3> DEFINE m == MarkOf(s)
               p == Len(log)
               c == m - 1
    <3>1. m \in DOMAIN marks
      BY <1>2, MarkOfIs
    <3>2. /\ c \in Nat /\ c <= m /\ c <= Len(marks) /\ p \in Nat /\ marks[m].len <= p
          /\ marks \in Seq([by : Scope, len : Nat, role : Roles])
          /\ log \in Seq([by : Level, at : Level, role : Roles])
      BY <3>1, <1>a, AlwaysIs, LogTyped DEF MarksInOrder
    <3>3. Prefix(marks', marks, c) /\ Prefix(log', log, p)
      <4>1. marks' = SubSeq(marks, 1, c)
        BY <1>1
      <4>2. Prefix(log, log, p)
        BY <3>2, WholePrefix
      <4> HIDE DEF c, p
      <4> QED
        BY <1>1, <3>2, <4>1, <4>2, CutPrefix
    <3> HIDE DEF m, p, c
    <3> QED
      BY <1>a, <3>1, <3>2, <3>3, OrderCut
  <2> QED
    BY <1>1, <1>3, <1>5, <1>a, <2>1, <2>2, AlwaysNext
<1>7. ASSUME ~strayed' PROVE Straight'
  <2>1. Straight /\ LineHolds'
    BY <1>1, <1>3, <1>7 DEF TurnsInv, Straight
  <2> QED
    BY <1>2, <1>3, <1>a, <2>1, MarkReleased
<1> QED
  BY <1>6, <1>7 DEF TurnsInv

LEMMA RollbackKeeps ==
  ASSUME TurnsInv, ExecRollback
  PROVE  TurnsInv'
<1> DEFINE s == Exec.by
<1>a. Always /\ TurnsTypeOK /\ strayed \in BOOLEAN
  BY AlwaysIs, RestTyped DEF TurnsInv
<1>1. /\ wire # <<>> /\ Exec.op = "rollback" /\ CloseScope(s, "failed")
      /\ \/ /\ Marked(s) /\ log' = SubSeq(log, 1, marks[MarkOf(s)].len)
            /\ marks' = SubSeq(marks, 1, MarkOf(s)) /\ role' = marks[MarkOf(s)].role
            /\ failing' = FALSE
         \/ failing' = TRUE /\ log' = log /\ marks' = marks /\ role' = role
      /\ guarded' = guarded /\ accepted' = accepted
      /\ parent' = parent /\ inside' = inside /\ opener' = opener /\ prev' = prev
      /\ sent' = sent /\ strayed' = strayed
  BY DEF ExecRollback
<1>2. ExecutesOwn(s) /\ s = Exec.by /\ Exec.op \in EndOps \union {"set"}
  BY <1>1 DEF ExecutesOwn, EndOps
<1> HIDE DEF s
<1>3. /\ s \in Scope /\ s \in Level /\ state'[s] = "failed"
      /\ Moves(s) /\ ChainsHold' /\ (LineHolds => LineHolds')
      /\ Exec.op \in EndOps => s \in guarded /\ (KindOf[s] = "role" <=> Exec.op = "restore")
  BY <1>1, <1>2, <1>a, ExecCloses
<1>4. KindOf[s] = "savepoint"
  <2>1. Exec.op \in EndOps /\ Exec.op # "restore"
    BY <1>1 DEF EndOps
  <2> QED
    BY <1>3, <2>1, TurnsAssumption
<1>5. \/ log' = log /\ marks' = marks /\ role' = role
      \/ \E m \in DOMAIN marks : \E p \in Nat :
           /\ m \in Nat /\ p = marks[m].len /\ role' = marks[m].role
           /\ Prefix(marks', marks, m) /\ marks' \in Seq([by : Scope, len : Nat, role : Roles])
           /\ Prefix(log', log, p) /\ log' \in Seq([by : Level, at : Level, role : Roles])
  <2> SUFFICES ASSUME Marked(s), log' = SubSeq(log, 1, marks[MarkOf(s)].len),
                      marks' = SubSeq(marks, 1, MarkOf(s)), role' = marks[MarkOf(s)].role
               PROVE  \E m \in DOMAIN marks : \E p \in Nat :
           /\ m \in Nat /\ p = marks[m].len /\ role' = marks[m].role
           /\ Prefix(marks', marks, m) /\ marks' \in Seq([by : Scope, len : Nat, role : Roles])
           /\ Prefix(log', log, p) /\ log' \in Seq([by : Level, at : Level, role : Roles])
    BY <1>1
  <2> DEFINE m == MarkOf(s)
             p == marks[m].len
  <2>1. m \in DOMAIN marks
    BY MarkOfIs
  <2>2. marks' = SubSeq(marks, 1, m) /\ log' = SubSeq(log, 1, p) /\ role' = marks[m].role
    OBVIOUS
  <2> HIDE DEF m
  <2>3. /\ m \in Nat /\ m <= Len(marks) /\ p \in Nat /\ p <= Len(log)
        /\ marks \in Seq([by : Scope, len : Nat, role : Roles])
        /\ log \in Seq([by : Level, at : Level, role : Roles])
    BY <2>1, <1>a, AlwaysIs, LogTyped DEF MarksInOrder
  <2>p. p = marks[m].len
    OBVIOUS
  <2> HIDE DEF p
  <2>4. Prefix(marks', marks, m) /\ marks' \in Seq([by : Scope, len : Nat, role : Roles])
    BY <2>2, <2>3, CutPrefix
  <2>5. Prefix(log', log, p) /\ log' \in Seq([by : Level, at : Level, role : Roles])
    BY <2>2, <2>3, CutPrefix
  <2> QED
    BY <2>1, <2>2, <2>3, <2>4, <2>5, <2>p
<1>o. MarksInOrder'
  <2>1. CASE log' = log /\ marks' = marks
    BY <1>a, <2>1, OrderStays
  <2>2. CASE \E m \in DOMAIN marks : \E p \in Nat :
               /\ m \in Nat /\ p = marks[m].len
               /\ Prefix(marks', marks, m) /\ Prefix(log', log, p)
    <3>1. PICK m \in DOMAIN marks, p \in Nat :
                 /\ m \in Nat /\ p = marks[m].len
                 /\ Prefix(marks', marks, m) /\ Prefix(log', log, p)
      BY <2>2
    <3>2. m \in Nat /\ m <= m /\ marks[m].len <= p
      BY <3>1
    <3> QED
      BY <1>a, <3>1, <3>2, OrderCut
  <2> QED
    BY <1>5, <2>1, <2>2
<1>6. Always'
  <2>1. state'[s] \notin {"open", "ending"}
    BY <1>3
  <2>2. /\ marks' \in Seq([by : Scope, len : Nat, role : Roles])
        /\ log' \in Seq([by : Level, at : Level, role : Roles])
        /\ role' \in Roles
    BY <1>5, <1>a, RestTyped, LogTyped
  <2>3. Tree(parent', inside') /\ failing' \in BOOLEAN
    BY <1>1, <1>a, AlwaysIs, RestTyped
  <2>4. TurnsTypeOK'
    BY <1>1, <1>3, <1>a, <2>2, <2>3, RestTyped, TypeNext
  <2> QED
    BY <1>1, <1>3, <1>o, <1>a, <2>1, <2>4, AlwaysNext
<1>7. ASSUME ~strayed' PROVE Straight'
  <2>1. Straight /\ LineHolds'
    BY <1>1, <1>3, <1>7 DEF TurnsInv, Straight
  <2> QED
    BY <1>2, <1>3, <1>4, <1>a, <2>1, MarkRolledBack
<1> QED
  BY <1>6, <1>7 DEF TurnsInv

-----------------------------------------------------------------------------
(* The invariant holds at first and is kept by every step.                   *)

LEMMA NothingRuns ==
  ASSUME TurnsInit
  PROVE  /\ queue = [l \in Level |-> <<>>] /\ wire = <<>>
         /\ \A l \in Level : queue[l] = <<>> /\ DOMAIN queue[l] = {}
         /\ DOMAIN wire = {} /\ Len(wire) = 0
         /\ \A s \in Scope : state[s] = "unused" /\ state[s] \notin Running /\ state[s] \notin Opened
         /\ \A s \in Scope : state[s] # "opening" /\ parent[s] = Root
         /\ \A l \in Level : inside[l] = {l, Root}
         /\ UnderWay(Now) = {}
<1>1. /\ queue = [l \in Level |-> <<>>] /\ wire = <<>> /\ state = [s \in Scope |-> "unused"]
      /\ parent = [s \in Scope |-> Root] /\ inside = [l \in Level |-> {l, Root}]
  BY DEF TurnsInit
<1>2. \A s \in Scope : state[s] = "unused" /\ state[s] \notin Running /\ state[s] \notin Opened
  BY <1>1 DEF Running, Opened
<1>3. \A l \in Level : queue[l] = <<>> /\ DOMAIN queue[l] = {}
  BY <1>1
<1>4. UnderWay(Now) = {}
  BY <1>2, NowIs DEF UnderWay
<1> QED
  BY <1>1, <1>2, <1>3, <1>4

LEMMA TypeInit ==
  ASSUME TurnsInit
  PROVE  TurnsTypeOK
<1>1. /\ state \in [Scope -> {"unused", "queued"} \union Running \union Opened]
      /\ parent \in [Scope -> Level] /\ opener \in [Scope -> Level]
      /\ inside \in [Level -> SUBSET Level]
  BY LevelIs DEF TurnsInit
<1>2. /\ queue \in [Level -> Seq([op : Ops, by : Level])]
      /\ wire \in Seq([op : Ops, by : Level, at : Level])
  BY DEF TurnsInit
<1>3. /\ log \in Seq([by : Level, at : Level, role : Roles])
      /\ marks \in Seq([by : Scope, len : Nat, role : Roles])
  BY DEF TurnsInit
<1>4. /\ guarded \subseteq Scope /\ failing \in BOOLEAN /\ role \in Roles /\ prev \in [Scope -> Roles]
      /\ strayed \in BOOLEAN
  BY DEF TurnsInit, Roles
<1>5. accepted \in [Level -> Nat] /\ sent \in 0 .. MaxWrites
  BY TurnsAssumption DEF TurnsInit
<1> QED
  BY <1>1, <1>2, <1>3, <1>4, <1>5 DEF TurnsTypeOK

LEMMA ChainsInit ==
  ASSUME TurnsInit
  PROVE  ChainsHold /\ LineHolds
<1>1. ChainTypes(Now)
  BY TypeInit, NowIs DEF TurnsTypeOK, ChainTypes, States, Queues, QItem, WItem
<1>2. ScopeItems(Now, {}, parent) /\ QueuedOnce(Now) /\ EndedOnce(Now)
  BY NothingRuns, NowIs DEF ScopeItems, QueuedOnce, EndedOnce
<1>3. AtTheHead(Now, {}, parent) /\ FirstItems(Now)
  BY NothingRuns, NowIs DEF AtTheHead, FirstItems
<1>4. LastItems(Now, guarded) /\ WriteItems(Now, inside)
  BY NothingRuns, NowIs DEF LastItems, WriteItems
<1>5. NothingYet(Now, {}) /\ WireHeads(Now, {})
  BY NothingRuns, NowIs, LevelIs DEF NothingYet, WireHeads
<1>6. ChainsHold
  BY <1>1, <1>2, <1>3, <1>4, <1>5 DEF ChainsHold, Chains
<1>7. OneAtATime(Now, {}) /\ QueuesUnderWay(Now, {})
  BY NothingRuns, NowIs DEF OneAtATime, QueuesUnderWay
<1>8. InOneLine(Now, {}, inside)
  BY NothingRuns DEF InOneLine
<1>9. EndsTheQueue(Now)
  BY NothingRuns, NowIs DEF EndsTheQueue
<1> QED
  BY <1>6, <1>7, <1>8, <1>9 DEF LineHolds, Line

LEMMA NestedInit ==
  ASSUME TurnsInit
  PROVE  Tree(parent, inside) /\ Nested
<1>1. /\ \A s \in Scope : parent[s] = Root /\ state[s] = "unused"
      /\ \A l \in Level : inside[l] = {l, Root}
  BY NothingRuns
<1>2. Root \in Level /\ Root \notin Scope /\ Level = Scope \union {Root}
  BY LevelIs
<1>3. Tree(parent, inside)
  <2>1. inside \in [Level -> SUBSET Level] /\ parent \in [Scope -> Level]
    BY TypeInit DEF TurnsTypeOK
  <2>2. \A s \in Scope : inside[s] = {s} \union inside[parent[s]] /\ s \notin inside[parent[s]]
    BY <1>1, <1>2
  <2>3. \A l \in Level : \A m \in inside[l] : inside[m] \subseteq inside[l]
    BY <1>1, <1>2
  <2> QED
    BY <1>1, <1>2, <2>1, <2>2, <2>3 DEF Tree
<1>4. \A l \in Level : IsNearest(l, l)
  BY <1>1, <1>2 DEF IsNearest, Closed
<1>5. Nested
  BY <1>1, <1>2, <1>4 DEF Nested
<1> QED
  BY <1>3, <1>5

LEMMA InvInit ==
  ASSUME TurnsInit
  PROVE  TurnsInv
<1>1. /\ guarded = {} /\ log = <<>> /\ marks = <<>> /\ failing = FALSE /\ role = "request"
      /\ accepted = [l \in Level |-> 0]
  BY DEF TurnsInit
<1>2. DOMAIN log = {} /\ DOMAIN marks = {}
  BY <1>1
<1>3. \A s \in Scope : state[s] = "unused"
  BY NothingRuns
<1>4. WindowsGuarded /\ GuardedOpened /\ MarksInOrder
  BY <1>1, <1>2, <1>3 DEF WindowsGuarded, GuardedOpened, MarksInOrder
<1>5. Always
  BY <1>4, TypeInit, ChainsInit, NestedInit DEF Always
<1>6. MarksOfBlocks /\ LogOfOpened /\ OpenMarked /\ AfterMark /\ BeforeMark /\ Failed
  BY <1>1, <1>2 DEF MarksOfBlocks, LogOfOpened, OpenMarked, AfterMark, BeforeMark, Failed
<1>7. Kept
  <2>1. \A l \in Level : accepted[l] = 0 /\ WritesOf(l) = {}
    BY <1>1, <1>2 DEF WritesOf
  <2>2. Cardinality({}) = 0
    BY FS_EmptySet
  <2> QED
    BY <2>1, <2>2 DEF Kept
<1>8. RoleInv
  <2>1. Windows = {}
    BY <1>1 DEF Windows
  <2> QED
    BY <1>1, <1>2, <2>1 DEF RoleInv, RoleNow, PrevRole, MarkRole, WriteRole
<1> QED
  BY <1>5, <1>6, <1>7, <1>8, ChainsInit DEF TurnsInv, Straight, LogInv

LEMMA InvStutter ==
  ASSUME TurnsInv, UNCHANGED turnsVars
  PROVE  TurnsInv'
<1>1. /\ state' = state /\ parent' = parent /\ inside' = inside /\ opener' = opener
      /\ guarded' = guarded /\ queue' = queue /\ wire' = wire /\ log' = log /\ marks' = marks
      /\ failing' = failing /\ role' = role /\ prev' = prev /\ accepted' = accepted
      /\ sent' = sent /\ strayed' = strayed
  BY DEF turnsVars
<1>a. Always /\ TurnsTypeOK
  BY AlwaysIs DEF TurnsInv
<1>2. Now' = Now
  BY <1>1 DEF Now
<1>3. ChainsHold' /\ (LineHolds => LineHolds')
  BY <1>1, <1>2, <1>a, AlwaysIs DEF ChainsHold, LineHolds
<1>4. Moves(Root) /\ Root \in Level /\ Root \notin guarded
  BY <1>1, <1>a, NobodyMoves, LevelIs, RestTyped DEF Opens
<1> QED
  BY <1>1, <1>3, <1>4, <1>a, LevelIs, RestTyped, GoesOnKeeps

LEMMA ExecuteKeeps ==
  ASSUME TurnsInv, Execute
  PROVE  TurnsInv'
<1>1. ASSUME NEW ok \in BOOLEAN, ExecWrite(ok) PROVE TurnsInv'
  <2>1. CASE ok = TRUE
    BY <1>1, <2>1, WriteAccepted
  <2>2. CASE ok = FALSE
    BY <1>1, <2>2, WriteFails
  <2> QED
    BY <2>1, <2>2
<1>2. ASSUME ExecSave PROVE TurnsInv'
  BY <1>2, SaveRefused, SaveAccepted
<1>3. ASSUME ExecRelease PROVE TurnsInv'
  BY <1>3, ReleaseRefused, ReleaseAccepted
<1>4. ASSUME ExecRollback PROVE TurnsInv'
  BY <1>4, RollbackKeeps
<1>5. ASSUME ExecSetRole PROVE TurnsInv'
  BY <1>5, SetRoleRefused, SetRoleAccepted
<1>6. ASSUME ExecRestoreRole PROVE TurnsInv'
  BY <1>6, RestoreRoleKeeps
<1> QED
  BY <1>1, <1>2, <1>3, <1>4, <1>5, <1>6 DEF Execute

LEMMA InvNext ==
  ASSUME TurnsInv, [TurnsNext]_turnsVars
  PROVE  TurnsInv'
<1>1. ASSUME NEW l \in Level, Run(l) PROVE TurnsInv'
  BY <1>1, RunKeeps
<1>2. ASSUME NEW l \in Level, NEW s \in Scope, Exclusive(l, s) PROVE TurnsInv'
  BY <1>2, ExclusiveKeeps
<1>3. ASSUME NEW s \in Scope, EndBody(s) PROVE TurnsInv'
  BY <1>3, EndBodyKeeps
<1>4. ASSUME Execute PROVE TurnsInv'
  BY <1>4, ExecuteKeeps
<1>5. ASSUME UNCHANGED turnsVars PROVE TurnsInv'
  BY <1>5, InvStutter
<1> QED
  BY <1>1, <1>2, <1>3, <1>4, <1>5 DEF TurnsNext, AllDone

LEMMA TurnsInvariant == TurnsSpec => []TurnsInv
<1>1. TurnsInit => TurnsInv
  BY InvInit
<1>2. TurnsInv /\ [TurnsNext]_turnsVars => TurnsInv'
  BY InvNext
<1> QED
  BY <1>1, <1>2, PTL DEF TurnsSpec

-----------------------------------------------------------------------------

LEMMA InvMeansAlone ==
  ASSUME TurnsInv
  PROVE  ScopeAlone
<1> SUFFICES ASSUME ~strayed, NEW s \in guarded, KindOf[s] = "savepoint", ~Closed(s)
             PROVE  /\ Marked(s)
                    /\ \A n \in DOMAIN log : n > marks[MarkOf(s)].len => s \in inside[log[n].by]
                    /\ \A n \in DOMAIN marks : n > MarkOf(s) => s \in inside[marks[n].by]
  BY DEF ScopeAlone
<1>1. OpenMarked /\ AfterMark
  BY DEF TurnsInv, Straight, LogInv
<1>2. Marked(s)
  BY <1>1 DEF OpenMarked
<1>3. MarkOf(s) \in DOMAIN marks /\ marks[MarkOf(s)].by = s
  BY <1>2, MarkOfIs
<1> QED
  BY <1>1, <1>2, <1>3 DEF AfterMark

LEMMA InvMeansAtomic ==
  ASSUME TurnsInv
  PROVE  BlocksAreAtomic
<1>1. CASE strayed
  BY <1>1 DEF BlocksAreAtomic, FailedLeavesNothing, SuccessKept
<1>2. CASE ~strayed
  BY <1>2 DEF BlocksAreAtomic, FailedLeavesNothing, SuccessKept, TurnsInv, Straight, LogInv, Failed, Kept
<1> QED
  BY <1>1, <1>2

LEMMA InvMeansRoles ==
  ASSUME TurnsInv
  PROVE  RoleOfItsLevel
BY DEF RoleOfItsLevel, TurnsInv, Straight, RoleInv, WriteRole

\* TurnsTypeOK always holds, however many scopes the request opens and however its
\* branches interleave, those left behind included: no chain runs dry of what it is
\* about to take off, and a role window only ever puts back a role it read
\* (Turns.#queue in db/trx-sequencer.ts, asEngineRole in lib/role-window.ts).
THEOREM TurnsTypeCorrect == TurnsSpec => []TurnsTypeOK
<1>1. TurnsInv => TurnsTypeOK
  BY AlwaysIs DEF TurnsInv
<1> QED
  BY <1>1, TurnsInvariant, PTL

\* ScopeAlone always holds: while a savepoint block is open its savepoint stands, and
\* every write and savepoint set after it is of code inside the block (Turns.exclusive
\* and Turns.run, which queue at the nearest open level, with withSavepoint).
THEOREM ScopesStayAlone == TurnsSpec => []ScopeAlone
<1>1. TurnsInv => ScopeAlone
  BY InvMeansAlone
<1> QED
  BY <1>1, TurnsInvariant, PTL

\* BlocksAreAtomic always holds: a block that failed leaves none of the writes made
\* inside it, and an accepted write is undone only by a block around its own code
\* (withSavepoint's ROLLBACK TO and RELEASE in lib/savepoint.ts).
THEOREM BlocksStayAtomic == TurnsSpec => []BlocksAreAtomic
<1>1. TurnsInv => BlocksAreAtomic
  BY InvMeansAtomic
<1> QED
  BY <1>1, TurnsInvariant, PTL

\* RoleOfItsLevel always holds: a write runs as the engine only when its own code
\* opened the window, and always when it runs inside one, also after a ROLLBACK TO
\* put the role of the savepoint back (asEngineRole in lib/role-window.ts).
THEOREM RolesStayOfTheirLevel == TurnsSpec => []RoleOfItsLevel
<1>1. TurnsInv => RoleOfItsLevel
  BY InvMeansRoles
<1> QED
  BY <1>1, TurnsInvariant, PTL

=============================================================================
