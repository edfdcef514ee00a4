---------------------------- MODULE TrxSequencer ----------------------------
(***************************************************************************)
(* The statements of one transaction, in an order that leaves              *)
(* multi-statement scopes whole: Turns (db/trx-sequencer.ts) with the two  *)
(* scopes the engine runs on it, savepoint blocks (lib/savepoint.ts) and   *)
(* role windows (lib/role-window.ts).                                      *)
(*                                                                         *)
(* A level is the transaction itself (Root) or one scope.  The code that   *)
(* runs in a level is not modelled: its concurrent branches may send a     *)
(* statement or open a nested scope at any moment, and the scope's own     *)
(* body may end at any moment.  A statement's completion resumes the next  *)
(* one of its level before anything else happens, as the promise chain     *)
(* does, and statements go down the one connection in the order sent.      *)
(***************************************************************************)
EXTENDS Integers, Sequences, FiniteSets

CONSTANTS
  Scope,      \* scopes that may be opened
  Root,       \* the transaction's own level
  KindOf,     \* KindOf[s]: "savepoint" or "role"
  MaxWrites   \* bound: statements sent by the code in the levels

ASSUME TurnsAssumption ==
  /\ Root \notin Scope
  /\ KindOf \in [Scope -> {"savepoint", "role"}]
  /\ MaxWrites \in Nat

Level == Scope \union {Root}

VARIABLES
  state,     \* state[s]: where scope s is
  parent,    \* parent[s]: the level scope s was queued at
  inside,    \* inside[l]: level l and those it is nested in
  opener,    \* opener[s]: the level whose code opened it, and may await it
  guarded,   \* scopes whose SAVEPOINT or role change took effect
  queue,     \* queue[l]: the level's promise chain; its head is under way
  wire,      \* statements sent on the connection, in order
  log,       \* the writes Postgres keeps, in order
  marks,     \* its savepoints: by whom, how long the log was, and the role
  failing,   \* the transaction refuses statements until a rollback
  role,      \* "request" or "engine": the role statements run under
  prev,      \* prev[s]: the role window s puts back
  accepted,  \* history: accepted[l]: writes the code in level l had accepted
  sent,      \* statements sent so far
  strayed    \* history: something was queued at a level that was ending

pgVars == <<log, marks, failing, role, prev, accepted>>
turnsVars == <<state, parent, inside, opener, guarded, queue, wire, log, marks, failing, role,
               prev, accepted, sent, strayed>>

Closed(s) == state[s] \in {"released", "failed"}

\* The scopes under way, and those whose code ran.
Running == {"opening", "open", "ending"}
Opened == {"open", "ending", "released", "failed"}

\* Level m is the innermost of those l is nested in that is the root or still open.
IsNearest(m, l) ==
  LET still == {n \in inside[l] : n = Root \/ ~Closed(n)}
  IN  m \in still /\ still \subseteq inside[m]

\* Where the code in level l queues (Turns.#level).
Nearest(l) == CHOOSE m \in inside[l] : IsNearest(m, l)

Item(op, by) == [op |-> op, by |-> by]
OnWire(op, by, at) == [op |-> op, by |-> by, at |-> at]

FirstOp(s) == IF KindOf[s] = "savepoint" THEN "save" ELSE "set"

-----------------------------------------------------------------------------
(* The promise chains (Turns.#queue).  What they change is handed on as a    *)
(* record c of the wire, the queues and the scopes' states.                  *)

Becomes(c) == wire' = c.wire /\ queue' = c.queue /\ state' = c.state

\* Queue q with item i behind the others of level l, and without l's head.
Behind(q, l, i) == [q EXCEPT ![l] = Append(@, i)]
Without(q, l) == [q EXCEPT ![l] = Tail(@)]

\* The scope at the head of a queue starts: its body sends its first statement
\* at the scope's own level.
OpenScope(c, s) ==
  [wire  |-> Append(c.wire, OnWire(FirstOp(s), s, s)),
   queue |-> [c.queue EXCEPT ![s] = <<Item(FirstOp(s), s)>>],
   state |-> [c.state EXCEPT ![s] = "opening"]]

SendItem(c, i, l) ==
  [wire |-> Append(c.wire, OnWire(i.op, i.by, l)), queue |-> c.queue, state |-> c.state]

\* The head of level l's queue, where there is one, starts.
Start(c, l) ==
  IF c.queue[l] = <<>> THEN c
  ELSE IF Head(c.queue[l]).op = "scope" THEN OpenScope(c, Head(c.queue[l]).by)
  ELSE SendItem(c, Head(c.queue[l]), l)

\* #queue: behind the level's tail; at once when nothing is before it.
Enqueued(l, i, st) ==
  LET c == [wire |-> wire, queue |-> Behind(queue, l, i), state |-> st]
  IN  IF queue[l] = <<>> THEN Start(c, l) ELSE c

Enqueue(l, i, st) == Becomes(Enqueued(l, i, st))

\* The levels in which a branch of the code may be running: one that is open, and
\* one whose body ended and left a branch behind (a rejected Promise.all does).
Sending == {l \in Level : l = Root \/ state[l] \in Opened}

\* A branch sends in a level whose RELEASE, ROLLBACK TO or role change is on its
\* way: closed is not set yet, so the level still takes it.
Stray(l) == strayed' = (strayed \/ (l # Root /\ state[l] = "ending"))

-----------------------------------------------------------------------------
TurnsInit ==
  /\ state = [s \in Scope |-> "unused"]
  /\ parent = [s \in Scope |-> Root]
  /\ inside = [l \in Level |-> {l, Root}]
  /\ opener = [s \in Scope |-> Root]
  /\ guarded = {}
  /\ queue = [l \in Level |-> <<>>]
  /\ wire = <<>>
  /\ log = <<>> /\ marks = <<>>
  /\ failing = FALSE
  /\ role = "request"
  /\ prev = [s \in Scope |-> "request"]
  /\ accepted = [l \in Level |-> 0]
  /\ sent = 0
  /\ strayed = FALSE

\* Mutant: a statement queues at its own level even after its scope closed.
RunAtClosed(l) ==
  /\ l \in Sending /\ sent < MaxWrites
  /\ sent' = sent + 1
  /\ Enqueue(l, Item("write", l), state)
  /\ Stray(l)
  /\ UNCHANGED <<parent, inside, opener, guarded, pgVars>>

\* Turns.run: a statement of the code in level l.
Run(l) ==
  /\ l \in Sending
  /\ sent < MaxWrites
  /\ sent' = sent + 1
  /\ Enqueue(Nearest(l), Item("write", l), state)
  /\ Stray(Nearest(l))
  /\ UNCHANGED <<parent, inside, opener, guarded, pgVars>>

\* Scope s will be queued at level at, opened by code in level l.
Nest(l, s, at) ==
  /\ l \in Sending
  /\ state[s] = "unused"
  /\ parent' = [parent EXCEPT ![s] = at]
  /\ inside' = [inside EXCEPT ![s] = {s} \union inside[at]]
  /\ opener' = [opener EXCEPT ![s] = l]
  /\ UNCHANGED <<guarded, pgVars, sent>>

\* Mutant: scopes do not queue, they start beside what runs.
ExclusiveBeside(l, s) ==
  /\ Nest(l, s, Nearest(l))
  /\ Becomes(Start([wire |-> wire, state |-> [state EXCEPT ![s] = "queued"],
                    queue |-> [queue EXCEPT ![Nearest(l)] = <<Item("scope", s)>> \o @]],
                   Nearest(l)))
  /\ Stray(Nearest(l))

\* Mutant: a nested scope queues at the root, behind the scope it runs in.
ExclusiveAtRoot(l, s) ==
  /\ Nest(l, s, Root)
  /\ Enqueue(Root, Item("scope", s), [state EXCEPT ![s] = "queued"])
  /\ UNCHANGED strayed

\* Turns.exclusive: code in level l opens scope s, withSavepoint or asEngineRole.
Exclusive(l, s) ==
  /\ Nest(l, s, Nearest(l))
  /\ Enqueue(Nearest(l), Item("scope", s), [state EXCEPT ![s] = "queued"])
  /\ Stray(Nearest(l))

\* Scope s settles as "released" or "failed": its level is closed, and it leaves
\* the chain it was queued in.
Settle(w, q, s, as) ==
  [wire |-> w, queue |-> Without(q, parent[s]), state |-> [state EXCEPT ![s] = as]]

\* The scope's own last statement is done: what is still queued in its level goes
\* on, and so does the chain it was queued in.
CloseScope(s, as) ==
  Becomes(Start(Start(Settle(Tail(wire), Without(queue, s), s, as), s), parent[s]))

\* The body of savepoint block s is done: RELEASE, or ROLLBACK TO when it threw;
\* an unguarded block sends neither.
SavepointBody(s, ok) ==
  /\ KindOf[s] = "savepoint" /\ state[s] = "open"
  /\ IF s \in guarded
     THEN /\ Enqueue(s, Item(IF ok THEN "release" ELSE "rollback", s),
                     [state EXCEPT ![s] = "ending"])
          /\ UNCHANGED strayed
     ELSE /\ strayed' = (strayed \/ queue[s] # <<>>)
          /\ Becomes(Start(Settle(wire, queue, s, IF ok THEN "released" ELSE "failed"),
                           parent[s]))
  /\ UNCHANGED <<parent, inside, opener, guarded, pgVars, sent>>

\* The body of role window s is done: the previous role is put back either way.
RoleBody(s) ==
  /\ KindOf[s] = "role" /\ state[s] = "open"
  /\ Enqueue(s, Item("restore", s), [state EXCEPT ![s] = "ending"])
  /\ UNCHANGED <<parent, inside, opener, guarded, pgVars, sent, strayed>>

-----------------------------------------------------------------------------
(* Postgres runs the statement at the head of the wire, and its promise      *)
(* settles.                                                                  *)

Exec == Head(wire)

\* The statement executed leaves the queue of level l, whose states are now st,
\* and the next one there goes.
Goes(l, st) ==
  Becomes(Start([wire |-> Tail(wire), queue |-> Without(queue, l), state |-> st], l))

Marked(s) == \E n \in DOMAIN marks : marks[n].by = s
MarkOf(s) == CHOOSE n \in DOMAIN marks : marks[n].by = s

ExecWrite(ok) ==
  /\ wire # <<>> /\ Exec.op = "write"
  /\ Goes(Exec.at, state)
  /\ IF ok
     THEN /\ ~failing
          /\ log' = Append(log, [by |-> Exec.by, at |-> Exec.at, role |-> role])
          /\ accepted' = [accepted EXCEPT ![Exec.by] = @ + 1]
          /\ UNCHANGED failing
     ELSE /\ failing' = TRUE
          /\ UNCHANGED <<log, accepted>>
  /\ UNCHANGED <<parent, inside, opener, guarded, marks, role, prev, sent, strayed>>

\* SAVEPOINT; a refusal leaves the block unguarded.
ExecSave ==
  /\ wire # <<>> /\ Exec.op = "save"
  /\ Goes(Exec.at, [state EXCEPT ![Exec.by] = "open"])
  /\ IF failing
     THEN UNCHANGED <<marks, guarded>>
     ELSE /\ marks' = Append(marks, [by |-> Exec.by, len |-> Len(log), role |-> role])
          /\ guarded' = guarded \union {Exec.by}
  /\ UNCHANGED <<parent, inside, opener, log, failing, role, prev, accepted, sent, strayed>>

\* RELEASE SAVEPOINT: it and the later ones go.  A refusal sends ROLLBACK TO.
ExecRelease ==
  LET s == Exec.by IN
  /\ wire # <<>> /\ Exec.op = "release"
  /\ IF failing \/ ~Marked(s)
     THEN /\ failing' = TRUE
          /\ Becomes(Start([wire |-> Tail(wire), state |-> state,
                            queue |-> Behind(Without(queue, s), s, Item("rollback", s))], s))
          /\ UNCHANGED marks
     ELSE /\ marks' = SubSeq(marks, 1, MarkOf(s) - 1)
          /\ CloseScope(s, "released")
          /\ UNCHANGED failing
  /\ UNCHANGED <<parent, inside, opener, guarded, log, role, prev, accepted, sent, strayed>>

\* ROLLBACK TO SAVEPOINT: undoes what came after the mark, the role included.
ExecRollback ==
  LET s == Exec.by IN
  /\ wire # <<>> /\ Exec.op = "rollback"
  /\ IF Marked(s)
     THEN /\ log' = SubSeq(log, 1, marks[MarkOf(s)].len)
          /\ marks' = SubSeq(marks, 1, MarkOf(s))
          /\ role' = marks[MarkOf(s)].role
          /\ failing' = FALSE
     ELSE failing' = TRUE /\ UNCHANGED <<log, marks, role>>
  /\ CloseScope(s, "failed")
  /\ UNCHANGED <<parent, inside, opener, guarded, prev, accepted, sent, strayed>>

\* The window's first statement reads the role and steps out of it; when it
\* fails the window ends there.
ExecSetRole ==
  LET s == Exec.by IN
  /\ wire # <<>> /\ Exec.op = "set"
  /\ IF failing
     THEN /\ CloseScope(s, "failed")
          /\ UNCHANGED <<role, prev, guarded>>
     ELSE /\ prev' = [prev EXCEPT ![s] = role]
          /\ role' = "engine"
          /\ guarded' = guarded \union {s}
          /\ Goes(s, [state EXCEPT ![s] = "open"])
  /\ UNCHANGED <<parent, inside, opener, log, marks, failing, accepted, sent, strayed>>

\* Mutant: the window leaves the engine's role on the connection.
RestoreNothing ==
  LET s == Exec.by IN
  /\ wire # <<>> /\ Exec.op = "restore"
  /\ CloseScope(s, IF failing THEN "failed" ELSE "released")
  /\ UNCHANGED <<parent, inside, opener, guarded, pgVars, sent, strayed>>

\* Mutant: the window puts back a role it never read.
RestoreUnread ==
  LET s == Exec.by IN
  /\ wire # <<>> /\ Exec.op = "restore"
  /\ role' = IF failing THEN role ELSE "undefined"
  /\ CloseScope(s, IF failing THEN "failed" ELSE "released")
  /\ UNCHANGED <<parent, inside, opener, guarded, log, marks, failing, prev, accepted, sent,
                 strayed>>

\* The previous role is put back; a refusal (sent once more, to the same refusal)
\* leaves it to the rollback around.
ExecRestoreRole ==
  LET s == Exec.by IN
  /\ wire # <<>> /\ Exec.op = "restore"
  /\ role' = IF failing THEN role ELSE prev[s]
  /\ CloseScope(s, IF failing THEN "failed" ELSE "released")
  /\ UNCHANGED <<parent, inside, opener, guarded, log, marks, failing, prev, accepted, sent,
                 strayed>>

Execute ==
  \/ \E ok \in BOOLEAN : ExecWrite(ok)
  \/ ExecSave \/ ExecRelease \/ ExecRollback \/ ExecSetRole \/ ExecRestoreRole

EndBody(s) == (\E ok \in BOOLEAN : SavepointBody(s, ok)) \/ RoleBody(s)

Quiet ==
  /\ wire = <<>>
  /\ \A l \in Level : queue[l] = <<>>

\* Nothing is left to run.
AllDone == Quiet /\ UNCHANGED turnsVars

TurnsNext ==
  \/ \E l \in Level : Run(l)
  \/ \E l \in Level, s \in Scope : Exclusive(l, s)
  \/ \E s \in Scope : EndBody(s)
  \/ Execute
  \/ AllDone

TurnsSpec == TurnsInit /\ [][TurnsNext]_turnsVars

\* What the code in scope s awaits is done: its statements and the scopes it opened.
AwaitsNothing(s) ==
  /\ \A l \in Level, n \in 1 .. MaxWrites :
       n \in DOMAIN queue[l] /\ queue[l][n].op = "write" => queue[l][n].by # s
  /\ \A x \in Scope : opener[x] = s => state[x] = "unused" \/ Closed(x)

\* The connection answers, and the code in a scope ends once nothing it awaits is
\* left.  It need not end before: a scope that waited for itself would stay.
TurnsFairness ==
  /\ WF_turnsVars(Execute)
  /\ \A s \in Scope : WF_turnsVars(AwaitsNothing(s) /\ EndBody(s))

FairTurns == TurnsSpec /\ TurnsFairness

-----------------------------------------------------------------------------
Ops == {"write", "save", "release", "rollback", "set", "restore", "scope"}
Roles == {"request", "engine"}

\* The type of the state: no queue runs dry of what it was about to take off, and
\* no role window puts back anything but a role.
TurnsTypeOK ==
  /\ state \in [Scope -> {"unused", "queued"} \union Running \union Opened]
  /\ parent \in [Scope -> Level] /\ opener \in [Scope -> Level]
  /\ inside \in [Level -> SUBSET Level]
  /\ guarded \subseteq Scope
  /\ queue \in [Level -> Seq([op : Ops, by : Level])]
  /\ wire \in Seq([op : Ops, by : Level, at : Level])
  /\ log \in Seq([by : Level, at : Level, role : Roles])
  /\ marks \in Seq([by : Scope, len : Nat, role : Roles])
  /\ failing \in BOOLEAN /\ role \in Roles
  /\ prev \in [Scope -> Roles]
  /\ accepted \in [Level -> Nat] /\ sent \in 0 .. MaxWrites
  /\ strayed \in BOOLEAN

\* A savepoint block runs alone on the transaction: while it is open, its
\* savepoint stands, and every write and savepoint after it is of code inside
\* the block.
\* (Here and below, as long as no branch left behind sent in a level that was
\* ending: what it sends there runs when the level is closed, beside the others.)
ScopeAlone ==
  strayed \/
  \A s \in guarded :
    KindOf[s] = "savepoint" /\ ~Closed(s) =>
      /\ Marked(s)
      /\ \A n \in DOMAIN log : n > marks[MarkOf(s)].len => s \in inside[log[n].by]
      /\ \A n \in DOMAIN marks : n > MarkOf(s) => s \in inside[marks[n].by]

\* A block that failed leaves nothing of what ran inside it.
FailedLeavesNothing ==
  strayed \/
  \A s \in guarded :
    KindOf[s] = "savepoint" /\ state[s] = "failed" =>
      \A n \in DOMAIN log : s \notin inside[log[n].at]

\* The places in the log of the writes of the code in level l.
WritesOf(l) == {n \in DOMAIN log : log[n].by = l}

\* A write Postgres accepted is undone only by the failure of a block its own code
\* runs in, never by a sibling's ("a failing block undid a sibling's write").
SuccessKept ==
  strayed \/
  \A l \in Level :
    (\A s \in inside[l] \ {Root} : KindOf[s] = "savepoint" => state[s] # "failed")
      => accepted[l] = Cardinality(WritesOf(l))

\* Savepoint blocks are atomic (lib/savepoint.ts): a block that failed leaves
\* nothing, and nothing but a failed block around it undoes an accepted write.
BlocksAreAtomic == FailedLeavesNothing /\ SuccessKept

InRoleWindow(l) == \E s \in inside[l] \ {Root} : KindOf[s] = "role"

\* A statement runs under the engine's login only when its own code opened the
\* window, and always when it runs inside one: a plain statement sent beside a
\* window keeps the request's role, so no row policy is passed by.
RoleOfItsLevel ==
  strayed \/
  \A n \in DOMAIN log :
    /\ log[n].role = "engine" => InRoleWindow(log[n].by)
    /\ log[n].role = "request" => ~InRoleWindow(log[n].at)

\* A scope never waits for itself, nor does what a branch left behind sent in an
\* ending level: everything queued runs in the end.
EverythingRuns == <>[]Quiet

=============================================================================
