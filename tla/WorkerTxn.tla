------------------------------ MODULE WorkerTxn ------------------------------
(***************************************************************************)
(* The database transaction of one request a worker extension serves       *)
(* (lib/worker-extension-host.ts, RequestTxn).  The route's extension and  *)
(* a service of another extension that it calls send statements and        *)
(* db.transaction() scopes over the bridge; the host runs them one at a    *)
(* time on one connection, each as its extension's role, a scope alone and *)
(* as a savepoint, and ends the transaction once: when the route answers,  *)
(* when it throws, times out or its worker dies, or on the transaction's   *)
(* own timer.  The transaction is the request's own, opened on the first   *)
(* statement, or the tenant transaction of the request, joined: there the  *)
(* worker's role is put on for a window and taken off again before any     *)
(* statement of the inline code that shares it.                            *)
(***************************************************************************)
EXTENDS Integers, Sequences, FiniteSets, SequencesExt

CONSTANTS
  None,
  MaxOps,     \* bound: statements and savepoint operations sent
  MaxDepth,   \* bound: savepoints of one scope
  MaxFaults   \* bound: statements, backends and role changes that fail

Worker == {"route", "service"}     \* invocations, and the extensions they are of
Actor == Worker \cup {"inline"}
Op == {"write", "scope", "begin", "release", "rollback", "abandon"}

\* What runs on the connection: base is what an abandoned scope goes back to.
Job == [inv : Actor, op : Op, base : 0..MaxOps, step : {"prepare", "perform"}]

ASSUME ConstantsAssumption ==
  /\ MaxOps \in Nat /\ MaxDepth \in Nat \ {0} /\ MaxFaults \in Nat
  /\ None \notin Actor /\ None \notin Op /\ None \notin Job

VARIABLES
  joined,     \* the request's tenant transaction is joined
  request,    \* "serving", "replied" (its end is awaited) or "answered"
  commit,     \* the route answered without throwing
  answer,     \* "none", "ok", "not_committed" or "error"
  service,    \* the invocation of the service: "idle", "on", "leaving" or "off"
  within,     \* within[x]: the scope x was called in, 0 outside of any
  pending,    \* pending[x]: an operation of x, accepted, its turn to come, or None
  job,        \* the Job on the connection, or None
  conn,       \* "none", "held" or "released"
  ext,        \* txn.ext: the extension whose role is set, as the host knows, or None
  window,     \* txn.window: the invocation whose settings are on, or None
  savepoints, \* txn.savepoints: the extensions of the open savepoints
  scopes,     \* txn.scopes: [inv, depth, base], innermost last
  over,       \* txn.over is set
  closing,    \* txn.closing: "none", "commit", "rollback", then "true" or "false"
  timer,      \* the transaction's timer runs
  db,         \* the server: [state, role, marks, writes]
  kept,       \* the writes that were committed
  believed,   \* history: per open savepoint, the writes the workers were told of
  spoiled,    \* history: a rollback was refused, or COMMIT met an aborted transaction
  unanswered, \* history: COMMIT worked and its answer was lost
  ops,
  faults

hostVars == <<conn, ext, window, savepoints, timer>>
endVars == <<over, closing, kept, unanswered>>
vars == <<joined, request, commit, answer, service, within, pending, job, conn, ext,
          window, savepoints, scopes, over, closing, timer, db, kept, believed,
          spoiled, unanswered, ops, faults>>

Cut(s, n) == SubSeq(s, 1, n)
Fails == faults < MaxFaults /\ faults' = faults + 1

\* x's open scope by its place, 0 when it has none; one invocation's scopes
\* take turns in the worker, and a nested one keeps the scope.
OwnScope(x) ==
  IF \E n \in 1..Len(scopes) : scopes[n].inv = x
  THEN CHOOSE n \in 1..Len(scopes) : scopes[n].inv = x ELSE 0

\* levelOf: where a statement of x takes its turn.
Level(x) == IF OwnScope(x) > 0 THEN OwnScope(x) ELSE within[x]

-----------------------------------------------------------------------------
Caller == [state |-> "open", role |-> "caller", marks |-> <<>>, writes |-> {}]

Init ==
  /\ joined \in BOOLEAN
  /\ request = "serving" /\ commit = FALSE /\ answer = "none"
  /\ service = "idle" /\ within = [x \in Actor |-> 0]
  /\ pending = [x \in Actor |-> None] /\ job = None
  /\ conn = IF joined THEN "held" ELSE "none"
  /\ ext = None /\ window = None /\ savepoints = <<>> /\ scopes = <<>>
  /\ over = FALSE /\ closing = "none" /\ timer = FALSE
  /\ db = IF joined THEN Caller ELSE [Caller EXCEPT !.state = "none"]
  /\ kept = {} /\ believed = <<{}>>
  /\ spoiled = FALSE /\ unanswered = FALSE
  /\ ops = 0 /\ faults = 0

-----------------------------------------------------------------------------
(* handleDbQuery: an operation is accepted while its invocation lasts, and *)
(* waits for its turn.  One that comes when the transaction is over is     *)
(* refused, which changes nothing.                                         *)

Alive(x) ==
  CASE x = "route" -> request = "serving"
    [] x = "service" -> service = "on"
    [] x = "inline" -> joined /\ request = "serving"

\* What x may send: its scope's operations inside of it, nothing else there.
Offers(x, op) ==
  CASE op = "write" -> TRUE
    [] op = "scope" -> x \in Worker /\ OwnScope(x) = 0
    [] op = "begin" -> OwnScope(x) > 0 /\ scopes[OwnScope(x)].depth < MaxDepth
    [] op \in {"release", "rollback"} -> OwnScope(x) > 0
    [] op = "abandon" -> FALSE

\* Inline code sends for the request itself, or in a call (a service, a query of
\* ctx) that a worker made: then at the worker's place.
InlineLevels == {0} \cup {Level(y) : y \in {z \in Worker : Alive(z)}}

Accept(x, op) ==
  /\ Alive(x) /\ ~over /\ pending[x] = None
  /\ job # None => job.inv # x
  /\ Offers(x, op)
  /\ ops < MaxOps /\ ops' = ops + 1
  /\ pending' = [pending EXCEPT ![x] = op]
  /\ IF x = "inline"
     THEN \E at \in InlineLevels : within' = [within EXCEPT ![x] = at]
     ELSE UNCHANGED within
  /\ UNCHANGED <<joined, request, commit, answer, service, job, hostVars, scopes,
                 endVars, db, believed, spoiled, faults>>

MyTurn(x) == job = None /\ Level(x) = Len(scopes)

\* Mutant: a statement in its turn does not look whether the transaction is over.
MayRunLate == TRUE

MayRun == ~over

\* Its turn comes; openScope enters the scope before its savepoint is taken.
Start(x) ==
  /\ pending[x] # None /\ MyTurn(x) /\ MayRun
  /\ pending' = [pending EXCEPT ![x] = None]
  /\ job' = [inv |-> x, op |-> pending[x], base |-> 0, step |-> "prepare"]
  /\ scopes' = IF pending[x] = "scope"
               THEN Append(scopes, [inv |-> x, depth |-> 1, base |-> Len(savepoints)])
               ELSE scopes
  /\ UNCHANGED <<joined, request, commit, answer, service, within, hostVars, endVars, db,
                 believed, spoiled, ops, faults>>

\* Its turn comes too late.
Refuse(x) ==
  /\ pending[x] # None /\ MyTurn(x) /\ ~MayRun
  /\ pending' = [pending EXCEPT ![x] = None]
  /\ UNCHANGED <<joined, request, commit, answer, service, within, job, hostVars, scopes,
                 endVars, db, believed, spoiled, ops, faults>>

-----------------------------------------------------------------------------
(* What is left of x's scope after one of its operations (requestSavepoint *)
(* and openScope); endRequestTxn may have closed it in between.            *)

\* Mutant: the scope is looked at before it is counted down.
ShallowerLate(n) ==
  IF scopes[n].depth = 0 THEN Cut(scopes, n - 1)
  ELSE [scopes EXCEPT ![n].depth = @ - 1]

Shallower(n) ==
  IF scopes[n].depth = 1 THEN Cut(scopes, n - 1)
  ELSE [scopes EXCEPT ![n].depth = @ - 1]

ScopesAfter(x, op, ok) ==
  LET n == OwnScope(x) IN
  IF n = 0 THEN scopes
  ELSE CASE op = "begin" /\ ok -> [scopes EXCEPT ![n].depth = @ + 1]
         [] op = "release" /\ ok -> Shallower(n)
         [] op = "rollback" -> Shallower(n)
         [] op = "scope" /\ ~ok -> Cut(scopes, n - 1)
         [] op = "abandon" -> Cut(scopes, n - 1)
         [] OTHER -> scopes

\* The job ends; a service whose scope was abandoned has left.  What was
\* called in a scope that closed is where the scope was.
EndJob(ok) ==
  /\ job' = None
  /\ scopes' = ScopesAfter(job.inv, job.op, ok)
  /\ within' = [x \in Actor |->
                  IF within[x] > Len(scopes') THEN Len(scopes') ELSE within[x]]
  /\ service' = IF job.op = "abandon" THEN "off" ELSE service
  /\ spoiled' = (spoiled \/ (job.op \in {"rollback", "abandon"} /\ ~ok))
  /\ UNCHANGED <<joined, request, commit, answer, pending, endVars, ops>>

Ready ==
  /\ job' = [job EXCEPT !.step = "perform"]
  /\ UNCHANGED <<joined, request, commit, answer, service, within, pending, scopes,
                 endVars, believed, spoiled, ops>>

Preparing == job # None /\ job.step = "prepare"
Performing == job # None /\ job.step = "perform"

-----------------------------------------------------------------------------
(* onConnection of the request's own transaction.                          *)

\* openWorkerTxn.
Open ==
  /\ Preparing /\ ~joined /\ conn = "none"
  /\ conn' = "held" /\ ext' = job.inv /\ timer' = TRUE
  /\ db' = [db EXCEPT !.state = "open", !.role = job.inv]
  /\ Ready
  /\ UNCHANGED <<window, savepoints, faults>>

\* It is rolled back and released; the next statement tries again.
OpenFails ==
  /\ Preparing /\ ~joined /\ conn = "none"
  /\ Fails
  /\ EndJob(FALSE)
  /\ UNCHANGED <<hostVars, db, believed>>

AsBefore ==
  /\ Preparing /\ ~joined /\ conn # "none" /\ ext = job.inv
  /\ Ready
  /\ UNCHANGED <<hostVars, db, faults>>

Switching == Preparing /\ ~joined /\ conn # "none" /\ ext # job.inv

\* setWorkerRole, switching.
Switch ==
  /\ Switching /\ db.state = "open"
  /\ ext' = job.inv
  /\ db' = [db EXCEPT !.role = job.inv]
  /\ Ready
  /\ UNCHANGED <<conn, window, savepoints, timer, faults>>

\* Mutant: what a failed switch leaves is taken for the old role.
ForgetNothing == UNCHANGED ext

\* The host forgets the role before it changes it.
Forget == ext' = None

\* An aborted or dead transaction refuses the change of role, also the one that a
\* scope's rollback would have begun with: spoiled then.
SwitchRefused ==
  /\ Switching /\ db.state # "open"
  /\ Forget
  /\ EndJob(FALSE)
  /\ UNCHANGED <<conn, window, savepoints, timer, db, believed, faults>>

\* One of its statements fails, or no role can be set and the login's is left.
SwitchFails ==
  /\ Switching /\ db.state = "open"
  /\ Fails
  /\ Forget
  /\ \E left \in {[db EXCEPT !.state = "aborted"], [db EXCEPT !.role = "login"]} : db' = left
  /\ EndJob(FALSE)
  /\ UNCHANGED <<conn, window, savepoints, timer, believed>>

-----------------------------------------------------------------------------
(* The joined transaction: joinedStatement and releaseWindow.              *)

\* The caller's settings are put back: in vain on an aborted transaction,
\* whose rollback does it.
RestoredRole == IF window # None /\ db.state = "open" THEN "caller" ELSE db.role

\* An operation that opens no window: savepoints release it as they run, and
\* so does a statement of the inline code before it is sent (beforeSend).
PassJoined ==
  /\ Preparing /\ joined
  /\ job.inv = "inline" \/ job.op # "write"
  /\ window' = None
  /\ db' = [db EXCEPT !.role = RestoredRole]
  /\ Ready
  /\ UNCHANGED <<conn, ext, savepoints, timer, faults>>

Windowed == Preparing /\ joined /\ job.inv # "inline" /\ job.op = "write"

\* The window is open for the same invocation still.
SameWindow == window = job.inv

KeepWindow ==
  /\ Windowed /\ SameWindow
  /\ Ready
  /\ UNCHANGED <<hostVars, db, faults>>

OpenWindow ==
  /\ Windowed /\ ~SameWindow /\ db.state = "open"
  /\ window' = job.inv
  /\ db' = [db EXCEPT !.role = job.inv]
  /\ Ready
  /\ UNCHANGED <<conn, ext, savepoints, timer, faults>>

\* The caller's settings cannot be read, or the worker's not be put on.  What
\* was put on is taken off, unless the transaction is aborted.
WindowFails ==
  /\ Windowed /\ ~SameWindow
  /\ window' = None
  /\ \/ db.state # "open" /\ db' = db /\ UNCHANGED faults
     \/ /\ db.state = "open" /\ Fails
        /\ \E left \in {[db EXCEPT !.state = "aborted"], [db EXCEPT !.role = "caller"]} :
             db' = left
  /\ EndJob(FALSE)
  /\ UNCHANGED <<conn, ext, savepoints, timer, believed>>

-----------------------------------------------------------------------------
(* The statement itself.                                                   *)

Told == UNION {believed[n] : n \in DOMAIN believed}
NewWrite == CHOOSE n \in 1..MaxOps : /\ n \notin db.writes \cup Told
                                     /\ \A m \in 1..n - 1 : m \in db.writes \cup Told

Write ==
  /\ Performing /\ job.op = "write" /\ db.state = "open"
  /\ db' = [db EXCEPT !.writes = @ \cup {NewWrite}]
  /\ believed' = [believed EXCEPT ![Len(believed)] = @ \cup {NewWrite}]
  /\ EndJob(TRUE)
  /\ UNCHANGED <<hostVars, faults>>

\* A statement that fails aborts the transaction, or its backend is gone.
Breaks == \E s \in {"aborted", "dead"} : db' = [db EXCEPT !.state = s]

Statement == {"write", "scope", "begin"}

\* Mutant: a savepoint is put on the list before it is taken.
StatementFailsPushed ==
  /\ Performing /\ job.op \in Statement
  /\ \/ db.state # "open" /\ db' = db /\ UNCHANGED faults
     \/ db.state = "open" /\ Fails /\ Breaks
  /\ window' = None
  /\ savepoints' = IF job.op = "write" THEN savepoints ELSE Append(savepoints, job.inv)
  /\ EndJob(FALSE)
  /\ UNCHANGED <<conn, ext, timer, believed>>

StatementFails ==
  /\ Performing /\ job.op \in Statement
  /\ \/ db.state # "open" /\ db' = db /\ UNCHANGED faults
     \/ db.state = "open" /\ Fails /\ Breaks
  /\ window' = None
  /\ EndJob(FALSE)
  /\ UNCHANGED <<conn, ext, savepoints, timer, believed>>

Savepoint ==
  /\ Performing /\ job.op \in {"scope", "begin"} /\ db.state = "open"
  /\ db' = [db EXCEPT !.marks = Append(@, [role |-> db.role, writes |-> db.writes])]
  /\ savepoints' = Append(savepoints, job.inv)
  /\ believed' = Append(believed, {})
  /\ EndJob(TRUE)
  /\ UNCHANGED <<conn, ext, window, timer, faults>>

Mine == savepoints # <<>> /\ Last(savepoints) = job.inv

Release ==
  /\ Performing /\ job.op = "release" /\ Mine /\ db.state = "open"
  /\ db' = [db EXCEPT !.marks = Cut(@, Len(savepoints) - 1)]
  /\ savepoints' = Cut(savepoints, Len(savepoints) - 1)
  /\ believed' = [Cut(believed, Len(believed) - 1) EXCEPT
                    ![Len(believed) - 1] = @ \cup Last(believed)]
  /\ EndJob(TRUE)
  /\ UNCHANGED <<conn, ext, window, timer, faults>>

\* ROLLBACK TO SAVEPOINT and RELEASE, of the savepoint at depth n + 1.  The
\* server takes back the role that was set since, too.
RollbackTo(n) ==
  /\ db' = [state |-> "open", role |-> db.marks[n + 1].role,
            marks |-> Cut(db.marks, n), writes |-> db.marks[n + 1].writes]
  /\ savepoints' = Cut(savepoints, n)
  /\ believed' = Cut(believed, n + 1)

Rollback ==
  /\ Performing /\ job.op = "rollback" /\ Mine /\ db.state # "dead"
  /\ Forget
  /\ RollbackTo(Len(savepoints) - 1)
  /\ EndJob(TRUE)
  /\ UNCHANGED <<conn, window, timer, faults>>

\* RELEASE or ROLLBACK fails: not the innermost savepoint's extension, or the
\* server refuses it.
SavepointFails ==
  /\ Performing /\ job.op \in {"release", "rollback"}
  /\ \/ ~Mine /\ UNCHANGED <<ext, db, faults>>
     \/ /\ Mine /\ ext' = IF job.op = "rollback" THEN None ELSE ext
        /\ \/ /\ db.state = "dead" \/ (job.op = "release" /\ db.state = "aborted")
              /\ UNCHANGED <<db, faults>>
           \/ db.state # "dead" /\ Fails /\ Breaks
  /\ EndJob(FALSE)
  /\ UNCHANGED <<conn, window, savepoints, timer, believed>>

\* abandonScopes: everything since the scope began is undone.
Abandon ==
  /\ Performing /\ job.op = "abandon" /\ db.state # "dead"
  /\ Forget
  /\ RollbackTo(job.base)
  /\ EndJob(TRUE)
  /\ UNCHANGED <<conn, window, timer, faults>>

AbandonFails ==
  /\ Performing /\ job.op = "abandon"
  /\ \/ db.state = "dead" /\ UNCHANGED <<db, faults>>
     \/ db.state # "dead" /\ Fails /\ Breaks
  /\ Forget
  /\ EndJob(FALSE)
  /\ UNCHANGED <<conn, window, savepoints, timer, believed>>

-----------------------------------------------------------------------------
(* invokeWorkerService.  Once the transaction is over its scopes are       *)
(* closed, and what becomes of the service changes nothing of it.          *)

Call ==
  /\ request = "serving" /\ ~over /\ service = "idle"
  /\ service' = "on" /\ within' = [within EXCEPT !["service"] = Level("route")]
  /\ UNCHANGED <<joined, request, commit, answer, pending, job, hostVars, scopes, endVars,
                 db, believed, spoiled, ops, faults>>

\* It returned, threw or timed out, with or without its statements awaited.
\* An operation whose turn has come starts before its reply is read.
ServiceReturns ==
  /\ service = "on" /\ ~over
  /\ pending["service"] # None => ~MyTurn("service")
  /\ service' = IF OwnScope("service") > 0 THEN "leaving" ELSE "off"
  /\ UNCHANGED <<joined, request, commit, answer, within, pending, job, hostVars, scopes,
                 endVars, db, believed, spoiled, ops, faults>>

\* The rollback of its scope takes its turn, after what the scope has sent.
StartAbandon ==
  /\ service = "leaving" /\ ~over /\ OwnScope("service") > 0
  /\ pending["service"] = None /\ MyTurn("service")
  /\ job' = [inv |-> "service", op |-> "abandon",
             base |-> scopes[OwnScope("service")].base, step |-> "prepare"]
  /\ UNCHANGED <<joined, request, commit, answer, service, within, pending, hostVars,
                 scopes, endVars, db, believed, spoiled, ops, faults>>

\* The scope has ended by itself.
NothingToAbandon ==
  /\ service = "leaving" /\ ~over /\ OwnScope("service") = 0
  /\ job # None => job.op # "abandon"
  /\ service' = "off"
  /\ UNCHANGED <<joined, request, commit, answer, within, pending, job, hostVars, scopes,
                 endVars, db, believed, spoiled, ops, faults>>

-----------------------------------------------------------------------------
(* The end of the request.                                                 *)

\* endRequestTxn, which counts once.
EndTxn(c) ==
  IF closing # "none" THEN UNCHANGED <<over, closing, timer, scopes, within>>
  ELSE /\ over' = TRUE /\ timer' = FALSE
       /\ scopes' = <<>> /\ within' = [x \in Actor |-> 0]
       /\ closing' = IF c THEN "commit" ELSE "rollback"

\* The route answers (c), or throws, is refused, times out or its worker dies.
Reply(c) ==
  /\ request = "serving"
  /\ request' = "replied" /\ commit' = c
  /\ EndTxn(c)
  /\ UNCHANGED <<joined, answer, service, pending, job, conn, ext, window, savepoints, db,
                 kept, believed, spoiled, unanswered, ops, faults>>

TimerFires ==
  /\ timer /\ closing = "none"
  /\ EndTxn(FALSE)
  /\ UNCHANGED <<joined, request, commit, answer, service, pending, job, conn, ext, window,
                 savepoints, db, kept, believed, spoiled, unanswered, ops, faults>>

\* The tail at the time of the end is done.
Settled == job = None

\* Mutant: a COMMIT that throws skips the release.
GivenBackAfterCommit == IF conn = "held" /\ db.state # "dead" THEN "released" ELSE conn

GivenBack == IF conn = "held" THEN "released" ELSE conn

\* endWorkerTxn, and for a joined transaction what tenantMiddleware does with
\* it.  COMMIT of an aborted transaction rolls back and reports no error.
Close ==
  /\ closing \in {"commit", "rollback"} /\ Settled
  /\ conn' = GivenBack
  /\ \/ /\ conn = "held" /\ closing = "commit" /\ db.state = "open"
        /\ kept' = db.writes
        /\ closing' = "true" /\ UNCHANGED <<spoiled, unanswered, faults>>
     \/ /\ conn = "held" /\ closing = "commit" /\ db.state = "open" /\ Fails
        /\ \E w \in {{}, db.writes} : kept' = w /\ unanswered' = (w # {})
        /\ closing' = "false" /\ UNCHANGED spoiled
     \/ /\ conn = "held" /\ closing = "commit" /\ db.state = "aborted"
        /\ spoiled' = TRUE
        /\ closing' = "true" /\ UNCHANGED <<kept, unanswered, faults>>
     \/ /\ conn = "held" /\ (closing = "rollback" \/ db.state = "dead")
        /\ closing' = "false" /\ UNCHANGED <<kept, spoiled, unanswered, faults>>
     \/ /\ conn = "none"
        /\ closing' = IF closing = "commit" THEN "true" ELSE "false"
        /\ UNCHANGED <<kept, spoiled, unanswered, faults>>
  /\ UNCHANGED <<joined, request, commit, answer, service, within, pending, job, ext, window,
                 savepoints, scopes, over, timer, db, believed, ops>>

\* Mutant: the answer does not wait to hear that the commit worked.
GivenAnyhow == IF commit THEN "ok" ELSE "error"

Given == IF ~commit THEN "error" ELSE IF closing = "true" THEN "ok" ELSE "not_committed"

Answer ==
  /\ request = "replied" /\ closing \in {"true", "false"}
  /\ request' = "answered"
  /\ answer' = Given
  /\ UNCHANGED <<joined, commit, service, within, pending, job, hostVars, scopes, endVars, db,
                 believed, spoiled, ops, faults>>

-----------------------------------------------------------------------------
Prepare ==
  \/ Open \/ OpenFails \/ AsBefore \/ Switch \/ SwitchRefused \/ SwitchFails
  \/ PassJoined \/ KeepWindow \/ OpenWindow \/ WindowFails

Perform ==
  \/ Write \/ Savepoint \/ Release \/ Rollback \/ Abandon
  \/ StatementFails \/ SavepointFails \/ AbandonFails

Next ==
  \/ \E x \in Actor : Start(x) \/ Refuse(x) \/ \E op \in Op : Accept(x, op)
  \/ Prepare \/ Perform
  \/ Call \/ ServiceReturns \/ StartAbandon \/ NothingToAbandon
  \/ \E c \in BOOLEAN : Reply(c)
  \/ TimerFires \/ Close \/ Answer

\* Statements end (statement_timeout), the 30 s timers fire, promises settle.
Fairness ==
  /\ WF_vars(Prepare) /\ WF_vars(Perform)
  /\ WF_vars(Reply(FALSE)) /\ WF_vars(TimerFires) /\ WF_vars(Close) /\ WF_vars(Answer)

Spec == Init /\ [][Next]_vars
FairSpec == Spec /\ Fairness

-----------------------------------------------------------------------------
Roles == Worker \cup {"caller", "login"}

TypeOK ==
  /\ joined \in BOOLEAN /\ commit \in BOOLEAN /\ over \in BOOLEAN /\ timer \in BOOLEAN
  /\ request \in {"serving", "replied", "answered"}
  /\ answer \in {"none", "ok", "not_committed", "error"}
  /\ service \in {"idle", "on", "leaving", "off"}
  /\ Len(scopes) <= 2 /\ within \in [Actor -> 0..Len(scopes)]
  /\ \A x \in Actor : pending[x] # None => pending[x] \in Op
  /\ job # None => job \in Job
  /\ conn \in {"none", "held", "released"}
  /\ ext \in Worker \cup {None} /\ window \in Worker \cup {None}
  /\ closing \in {"none", "commit", "rollback", "true", "false"}
  /\ db.state \in {"none", "open", "aborted", "dead"} /\ db.role \in Roles
  /\ \A n \in DOMAIN scopes : scopes[n].depth \in 1..MaxDepth
  /\ ops \in 0..MaxOps /\ faults \in 0..MaxFaults

(***************************************************************************)
(* A statement runs as its own extension's role, and inline code as its    *)
(* caller: whatever the switches, windows, savepoints and failures before  *)
(* it, which move the server's role without telling the host               *)
(* (setWorkerRole, joinedStatement, savepointOp).                          *)
(***************************************************************************)
RunsAsItself ==
  Performing /\ job.op = "write" /\ db.state = "open" =>
    db.role = IF job.inv = "inline" THEN "caller" ELSE job.inv

(***************************************************************************)
(* The route's answer tells what became of its writes.  "ok": exactly the  *)
(* writes its workers were told of and did not undo are kept, unless the   *)
(* transaction was aborted when COMMIT came or a scope could not be rolled *)
(* back.  Any other answer: nothing is kept, unless COMMIT worked and its  *)
(* answer was lost (mountProxyRoutes, endRequestTxn).                      *)
(***************************************************************************)
AnswerTells ==
  /\ answer = "ok" /\ ~spoiled => kept = Told
  /\ answer \in {"error", "not_committed"} /\ ~unanswered => kept = {}

(***************************************************************************)
(* The host names a savepoint by its depth, so its list of open savepoints *)
(* is as long as the server's at any time, and the innermost ones belong   *)
(* to the scope that is open, unless an earlier one could not be rolled    *)
(* back: no extension ends a savepoint it did not take (savepointOp,       *)
(* abandonScopes).                                                         *)
(***************************************************************************)
SavepointsMatch ==
  /\ Len(savepoints) = Len(db.marks)
  /\ \A n \in DOMAIN scopes :
       LET s == scopes[n]
           opening == job # None /\ job.inv = s.inv /\ job.op = "scope" IN
       spoiled \/ opening \/ \A d \in s.base + 1..s.base + s.depth :
                    d \in DOMAIN savepoints /\ savepoints[d] = s.inv

(***************************************************************************)
(* Nothing is sent on the connection once the transaction gave it back     *)
(* (onConnection, endRequestTxn).                                          *)
(***************************************************************************)
NothingAfterEnd == job # None => conn # "released"

(***************************************************************************)
(* Every request is answered and its connection given back, whatever the   *)
(* workers do, fail to do, or leave open (endRequestTxn and its timers).   *)
(***************************************************************************)
RequestEnds == <>[](request = "answered" /\ conn # "held")
=============================================================================
