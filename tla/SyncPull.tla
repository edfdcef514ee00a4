------------------------------ MODULE SyncPull ------------------------------
(***************************************************************************)
(* The pull of the offline sync: POST /api/sync/pull (routes/sync.ts), the *)
(* tombstones it reads (migration 032) and their purge                     *)
(* (lib/runtime/garbage-collector.ts), and the client that applies what it *)
(* is sent (packages/sdk/src/sync-manager.ts, local-store.ts).             *)
(*                                                                         *)
(* A row is dated at the START of the transaction that wrote it, and so is *)
(* the tombstone of a deleted one: a transaction that commits late commits *)
(* in the past.  A pull reads the oldest open transaction's start (the     *)
(* watermark), then the rows, then the tombstones, each statement with a   *)
(* snapshot of its own, and hands out a page of both in the order of       *)
(* (time, id) with a sealed cursor.  The client applies the page change by *)
(* change and then keeps the cursor; it may stop anywhere and pull again.  *)
(*                                                                         *)
(* One collection, one client, one pull at a time, and no edits of the     *)
(* client's own: every copy it holds is a synced one.  What a reader may   *)
(* see of a row (policies, columns, masking) is left out.                  *)
(***************************************************************************)
EXTENDS Integers, FiniteSets

CONSTANTS
  Row,         \* ids, ordered as their text is
  None,
  Unopened,    \* a sealed cursor that does not open
  Limit,       \* PULL_LIMIT_PER_COLLECTION
  Retention,   \* SYNC_TOMBSTONE_RETENTION_DAYS
  MaxTime,     \* bound: the clock
  MaxCommits,  \* bound: commits
  MaxFaults    \* bound: pulls cut short, sessions that hide, secrets rotated

Time == 0 .. MaxTime
Positions == Time \X Row              \* <<updated_at or deleted_at, id>>
Version == 0 .. MaxCommits
Cursor == [del : Time, pos : Positions]

ASSUME ConstantsAssumption ==
  /\ Row \subseteq Nat /\ IsFiniteSet(Row)
  /\ Limit \in Nat \ {0} /\ Retention \in Nat
  /\ MaxTime \in Nat \ {0} /\ MaxCommits \in Nat /\ MaxFaults \in Nat

ASSUME MarkersAssumption ==
  /\ None \notin Version \cup Positions \cup Cursor \cup [ver : Version, at : Time]
  /\ Unopened \notin Cursor \cup {None}

VARIABLES
  clock,      \* now
  rows,       \* rows[r]: [ver, at], what is committed, or None
  stones,     \* zv_sync_tombstones: positions <<deleted_at, row_id>>
  open,       \* the starts of the open transactions
  copy,       \* copy[r]: the version the client holds of r, or None
  cursor,     \* the client's saved cursor: [del, pos], Unopened, or None
  pull,       \* the pull under way
  backdated,  \* history: rows put by a transaction older than their tombstone
  purged,     \* history: rows whose tombstone went while a pull could want it
  commits,
  faults

serverVars == <<rows, stones, open, backdated, commits>>
clientVars == <<copy, cursor>>
vars == <<clock, rows, stones, open, copy, cursor, pull, backdated, purged,
          commits, faults>>

Fails == faults < MaxFaults /\ faults' = faults + 1

-----------------------------------------------------------------------------
(* Positions <<time, id>>: rows and tombstones on one keyset.              *)

Before(p, q) == p[1] < q[1] \/ (p[1] = q[1] /\ p[2] < q[2])

\* Does the keyset of cursor c (or of none) go on to position p?
After(c, p) == c = None \/ Before(c.pos, p)

\* F is what ORDER BY ... LIMIT n keeps of S.
IsFirst(F, n, S) ==
  /\ F \subseteq S
  /\ \A p \in F, q \in S : Before(q, p) => q \in F
  /\ IF F = S THEN Cardinality(F) <= n ELSE Cardinality(F) = n

IsLast(p, S) == p \in S /\ \A q \in S : ~Before(p, q)

Position(r) == <<rows[r].at, r>>

-----------------------------------------------------------------------------
(* The writers: any transaction on the collection, a sync push included.   *)
(* What it wrote is chosen when it commits: nobody saw it before, and the  *)
(* row locks make the writers of one row commit in the order they wrote.   *)

Begin ==
  /\ clock < MaxTime
  /\ open' = open \cup {clock}
  /\ UNCHANGED <<clock, rows, stones, clientVars, pull, backdated, purged, commits,
                 faults>>

\* A transaction started at s ends; others of that start may still be open.
Ends(s) == s \in open /\ open' \in {open, open \ {s}}

\* puts: rows inserted or updated, which the touch trigger dates alike; dels: rows
\* deleted, each of which leaves a tombstone; a row of both was deleted, then put.
Commit(s, puts, dels) ==
  /\ Ends(s) /\ commits < MaxCommits
  /\ commits' = commits + 1
  /\ rows' = [r \in Row |-> IF r \in puts THEN [ver |-> commits', at |-> s]
                            ELSE IF r \in dels THEN None ELSE rows[r]]
  /\ stones' = stones \cup {<<s, r>> : r \in dels}
  /\ backdated' = {r \in Row : IF r \in puts THEN \E x \in stones : x[2] = r /\ x[1] > s
                               ELSE r \in backdated /\ r \notin dels}
  /\ UNCHANGED <<clock, clientVars, pull, purged, faults>>

Rollback(s) ==
  /\ Ends(s)
  /\ UNCHANGED <<clock, rows, stones, clientVars, pull, backdated, purged, commits,
                 faults>>

Tick ==
  /\ clock < MaxTime
  /\ clock' = clock + 1
  /\ UNCHANGED <<serverVars, clientVars, pull, purged, faults>>

-----------------------------------------------------------------------------
(* The pull.  Each place of a pull has its own record.                     *)

Spoilt(c) == IF c = None THEN None ELSE Unopened

Idle == [at |-> "idle"]

Reading == pull.at \in {"begun", "marked", "read"}

\* The engine restarts with another secret: the request under way fails, and no
\* cursor sealed before opens again.
Rotate ==
  /\ Fails
  /\ cursor' = Spoilt(cursor)
  /\ pull' = CASE Reading -> Idle
               [] pull.at \in {"drop", "apply"} -> [pull EXCEPT !.next = Spoilt(@)]
               [] OTHER -> pull
  /\ UNCHANGED <<clock, serverVars, copy, purged>>

\* The nightly purge of tombstones past their retention.
Purge ==
  LET old == {s \in stones : s[1] < clock - Retention} IN
  /\ old # {}
  /\ stones' = stones \ old
  /\ purged' = purged \cup {s[2] : s \in {x \in old : Reading /\ x[1] >= pull.horizon}}
  /\ UNCHANGED <<clock, rows, open, clientVars, pull, backdated, commits, faults>>

\* pullChanges: a new pull first drops the copies of a collection without a
\* cursor.  The server opens the cursor, and reads the horizon on the clock of its
\* own transaction.
Ask ==
  /\ pull.at \in {"idle", "more"}
  /\ LET anew == pull.at = "idle" /\ cursor = None IN
     /\ copy' = IF anew THEN [r \in Row |-> None] ELSE copy
     /\ purged' = IF anew THEN {} ELSE purged
  /\ pull' = [at |-> "begun", horizon |-> clock - Retention,
              opened |-> IF cursor = Unopened THEN None ELSE cursor]
  /\ UNCHANGED <<clock, serverVars, cursor, faults>>

\* Mutant: transactions still open are forgotten.
IsNow(w) == w = clock

\* The oldest start of an open transaction, the statement's own time at most.
IsWatermark(w) ==
  /\ w \in open \cup {clock}
  /\ \A s \in open \cup {clock} : w <= s

\* The position the pull goes on from: a cursor whose deletes are complete only
\* from before the horizon is worth as little as none.
From == IF pull.opened # None /\ pull.opened.del >= pull.horizon THEN pull.opened ELSE None

MarkAt(w) ==
  /\ pull.at = "begun"
  /\ pull' = [at |-> "marked", horizon |-> pull.horizon, mark |-> w, from |-> From]
  /\ UNCHANGED <<clock, serverVars, clientVars, purged>>

Mark == \E w \in 0 .. clock : IsWatermark(w) /\ MarkAt(w) /\ UNCHANGED faults

\* A session this role may not inspect is inside a transaction: deliver nothing.
MarkBlind == MarkAt(0) /\ Fails

\* The rows of the page and one more, with what they hold now.
ReadRows ==
  /\ pull.at = "marked"
  /\ LET live == {Position(r) : r \in {x \in Row : rows[x] # None}}
         want == {p \in live : After(pull.from, p) /\ p[1] < pull.mark}
     IN \E F \in SUBSET want :
          /\ IsFirst(F, Limit + 1, want)
          /\ pull' = [at |-> "read", horizon |-> pull.horizon, mark |-> pull.mark,
                      from |-> pull.from,
                      held |-> [p \in F |-> rows[p[2]].ver]]
  /\ UNCHANGED <<clock, serverVars, clientVars, purged, faults>>

\* Mutant: a full page counts as caught up.
OwedNothing(full) == pull.mark

\* What the new cursor says of deletes: complete from the watermark, or, as long
\* as pages are to come or nothing could be delivered, from where they were.
Owed(full) ==
  IF full \/ pull.mark = 0
  THEN IF pull.from = None THEN pull.mark ELSE pull.from.del
  ELSE pull.mark

\* Mutant: the old position is preferred to the end of the page.
SealedBehind(end, del) ==
  IF pull.from # None THEN [pull.from EXCEPT !.del = del]
  ELSE IF end = None THEN None
  ELSE [del |-> del, pos |-> end]

\* The new cursor, at the end of the page; an empty page leaves the position.
Sealed(end, del) ==
  IF end # None THEN [del |-> del, pos |-> end]
  ELSE IF pull.from = None THEN None
  ELSE [pull.from EXCEPT !.del = del]

\* The tombstones, the page of both, and the answer.  A position that is a row's
\* and a tombstone's is the row's.
Answer ==
  /\ pull.at = "read"
  /\ LET want == IF pull.from = None THEN {}
                 ELSE {s \in stones : After(pull.from, s) /\ s[1] < pull.mark}
     IN \E S \in SUBSET want :
          /\ IsFirst(S, Limit + 1, want)
          /\ LET merged == DOMAIN pull.held \cup S
                 full == Cardinality(merged) > Limit
             IN \E page \in SUBSET merged :
                  /\ IsFirst(page, Limit, merged)
                  /\ \E end \in page \cup {None} :
                       /\ IF page = {} THEN end = None ELSE end # None /\ IsLast(end, page)
                       /\ pull' = [at |-> IF cursor # None /\ pull.from = None
                                          THEN "drop" ELSE "apply",
                                   todo |-> page,
                                   held |-> [p \in DOMAIN pull.held \cap page |-> pull.held[p]],
                                   next |-> Sealed(end, Owed(full)),
                                   more |-> full]
  /\ UNCHANGED <<clock, serverVars, clientVars, purged, faults>>

\* resync: the client drops its copies before it applies the page.
Drop ==
  /\ pull.at = "drop"
  /\ copy' = [r \in Row |-> None]
  /\ purged' = {}
  /\ pull' = [pull EXCEPT !.at = "apply"]
  /\ UNCHANGED <<clock, serverVars, cursor, faults>>

\* applyServerUpdate and applyServerDelete, in keyset order.
Apply(p) ==
  /\ pull.at = "apply"
  /\ p \in pull.todo /\ \A q \in pull.todo : ~Before(q, p)
  /\ copy' = [copy EXCEPT ![p[2]] = IF p \in DOMAIN pull.held THEN pull.held[p] ELSE None]
  /\ purged' = purged \ {p[2]}
  /\ pull' = [pull EXCEPT !.todo = @ \ {p}]
  /\ UNCHANGED <<clock, serverVars, cursor, faults>>

\* Mutant: the cursor is saved before the page is applied.
SaveEarly ==
  /\ pull.at = "apply"
  /\ cursor' = IF pull.next = None THEN cursor ELSE pull.next
  /\ pull' = IF pull.more THEN [at |-> "more"] ELSE Idle
  /\ UNCHANGED <<clock, serverVars, copy, purged, faults>>

\* The cursor is saved when the page is applied; hasMore asks for the next one.
Save ==
  /\ pull.at = "apply" /\ pull.todo = {}
  /\ cursor' = IF pull.next = None THEN cursor ELSE pull.next
  /\ pull' = IF pull.more THEN [at |-> "more"] ELSE Idle
  /\ UNCHANGED <<clock, serverVars, copy, purged, faults>>

\* The request fails or its answer is lost, or the client ends.
Stop ==
  /\ pull.at # "idle"
  /\ Fails
  /\ pull' = Idle
  /\ UNCHANGED <<clock, serverVars, clientVars, purged>>

-----------------------------------------------------------------------------
Init ==
  /\ clock = 1
  /\ rows = [r \in Row |-> [ver |-> 0, at |-> 0]]  \* they were there before
  /\ stones = {}
  /\ open = {}
  /\ copy = [r \in Row |-> None]
  /\ cursor = None
  /\ pull = Idle
  /\ backdated = {} /\ purged = {}
  /\ commits = 0 /\ faults = 0

Commits(s) == \E puts, dels \in SUBSET Row : puts \cup dels # {} /\ Commit(s, puts, dels)

PullStep ==
  \/ Ask \/ Mark \/ ReadRows \/ Answer \/ Drop \/ Save
  \/ \E p \in IF pull.at = "apply" THEN pull.todo ELSE {} : Apply(p)

Next ==
  \/ Begin \/ \E s \in open : Commits(s) \/ Rollback(s)
  \/ PullStep
  \/ Tick \/ Rotate \/ Purge \/ MarkBlind \/ Stop

Spec == Init /\ [][Next]_vars

\* Transactions end, the clock runs, and the application pulls again.
FairSpec ==
  /\ Spec
  /\ WF_vars(PullStep) /\ WF_vars(Tick)
  /\ WF_vars(\E s \in open : Rollback(s) /\ s \notin open')

-----------------------------------------------------------------------------
Opens == cursor \notin {None, Unopened}

\* Every variable has its type; a cursor is a position and the time deletes are
\* complete from, both never later than now (routes/sync.ts:953).
TypeOK ==
  /\ clock \in Time
  /\ rows \in [Row -> [ver : Version, at : Time] \cup {None}]
  /\ stones \subseteq Positions
  /\ open \subseteq Time
  /\ copy \in [Row -> Version \cup {None}]
  /\ cursor \in Cursor \cup {None, Unopened}
  /\ Opens => cursor.del <= clock /\ cursor.pos[1] < clock
  /\ pull.at \in {"idle", "more", "begun", "marked", "read", "drop", "apply"}
  /\ backdated \subseteq Row /\ purged \subseteq Row
  /\ commits \in 0 .. MaxCommits /\ faults \in 0 .. MaxFaults

\* A cursor is worth going on from.
Current == Opens /\ cursor.del >= clock - Retention

\* No transaction can still commit a row or a tombstone at or behind a position
\* the client was given (routes/sync.ts:128, migration 032: "cannot land behind a
\* position already handed out").
CursorIsFinal ==
  Opens => \A s \in open : cursor.pos[1] < s

\* As long as its cursor is worth going on from, the client holds the committed
\* version of every row behind it: pages, ties of one time, cut pulls and late
\* commits lose nothing.  The exception is a row put back by a transaction older
\* than the one that deleted it (routes/sync.ts:978).
RowsBehind ==
  Current =>
    \A r \in Row \ backdated :
      rows[r] # None /\ ~After(cursor, Position(r)) => copy[r] = rows[r].ver

\* As long as its cursor is worth going on from, the tombstone of every deleted
\* row the client still holds is there and ahead of the cursor.  The exception is
\* a tombstone purged under a pull that judged by an earlier clock
\* (routes/sync.ts:808).
DeletesBehind ==
  Current =>
    \A r \in Row \ purged :
      rows[r] = None /\ copy[r] # None => \E s \in stones : s[2] = r /\ After(cursor, s)

\* A client that keeps pulling ends with what the server holds, whatever was cut,
\* purged, expired or no longer opens (sync-manager.ts:419).
Converges ==
  <>[](\A r \in Row \ (backdated \cup purged) :
         copy[r] = IF rows[r] = None THEN None ELSE rows[r].ver)
=============================================================================
