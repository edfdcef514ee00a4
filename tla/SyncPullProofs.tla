--------------------------- MODULE SyncPullProofs ---------------------------
(***************************************************************************)
(* What the pull of SyncPull guarantees for every set of rows, page size,  *)
(* retention and bound: cursors are final, and the client holds every row  *)
(* behind its own.                                                         *)
(*                                                                         *)
(* The argument.  No open transaction is older than a watermark, so what   *)
(* lies below one never changes but by moving above it (Finals).  A read   *)
(* therefore still tells the truth about the rows below its watermark when *)
(* the page is cut (ReadOK), and the page about those up to its end when   *)
(* the client applies it (PageOK): a row behind the new cursor is in the   *)
(* page, or was behind the old one.                                        *)
(***************************************************************************)
EXTENDS SyncPull, TLAPS, FiniteSetTheorems

-----------------------------------------------------------------------------
(* The inductive invariant.                                                *)

Held == UNION {[F -> Version] : F \in SUBSET Positions}

\* The pull is one of its records.
PullOK ==
  \/ pull \in [at : {"idle", "more"}]
  \/ pull \in [at : {"begun"}, horizon : Int, opened : Cursor \cup {None}]
  \/ pull \in [at : {"marked"}, horizon : Int, mark : Time, from : Cursor \cup {None}]
  \/ pull \in [at : {"read"}, horizon : Int, mark : Time, from : Cursor \cup {None},
               held : Held]
  \/ pull \in [at : {"drop", "apply"}, todo : SUBSET Positions, held : Held,
               next : Cursor \cup {None, Unopened}, more : BOOLEAN]

\* No open transaction dates anything at or behind c.
Final(c) ==
  /\ c.del <= clock /\ c.pos[1] < clock
  /\ \A s \in open : c.del <= s /\ c.pos[1] < s

\* Everything handed out, or about to be, is final.
Finals ==
  /\ \A s \in open : s <= clock
  /\ Opens => Final(cursor)
  /\ pull.at = "begun" /\ pull.opened # None => Final(pull.opened)
  /\ pull.at \in {"marked", "read"} =>
       /\ pull.mark <= clock /\ \A s \in open : pull.mark <= s
       /\ pull.from # None => Final(pull.from)
  /\ pull.at \in {"drop", "apply"} /\ pull.next \notin {None, Unopened} => Final(pull.next)

\* A row that is there came after its tombstones, unless it is backdated.
Ordered ==
  \A r \in Row \ backdated : rows[r] # None =>
    \A x \in stones : x[2] = r => x[1] <= rows[r].at

\* The client holds every row at or behind c.
Good(c) ==
  \A r \in Row \ backdated :
    rows[r] # None /\ ~Before(c.pos, Position(r)) => copy[r] = rows[r].ver

\* A tombstone of r is ahead of c, and not older than c says.
Ahead(c, r) == \E x \in stones : x[2] = r /\ Before(c.pos, x) /\ c.del <= x[1]

\* The delete of every row the client should not hold is ahead of c.
DelAhead(c) ==
  \A r \in Row \ purged : rows[r] = None /\ copy[r] # None => Ahead(c, r)

Sound(c) == Good(c) /\ DelAhead(c)

Fresh(d) == clock - Retention <= d

\* The pull goes on from the client's cursor, or that cursor is worth nothing.
Goes ==
  /\ Current => Sound(cursor)
  /\ Reading /\ cursor = None => \A r \in Row : copy[r] = None
  /\ pull.at = "more" => cursor # None
  /\ pull.at = "begun" =>
       /\ pull.horizon <= clock - Retention
       /\ IF pull.opened = None THEN ~Opens ELSE pull.opened = cursor
       /\ From # None => Sound(cursor)
  /\ pull.at \in {"marked", "read"} =>
       IF pull.from = None THEN ~Current
       ELSE /\ pull.from = cursor /\ Sound(cursor)
            /\ pull.horizon <= cursor.del /\ (pull.mark # 0 => cursor.del <= pull.mark)
  /\ pull.at = "drop" => ~Current
  /\ pull.at = "apply" /\ Current =>
       /\ pull.next \in Cursor
       /\ ~Before(pull.next.pos, cursor.pos) /\ cursor.del <= pull.next.del
       /\ \A q \in pull.todo : Before(cursor.pos, q)

\* What was read tells of row r, which is below the watermark still.
ReadRow(r) ==
  LET p == Position(r) IN
  /\ \A q \in DOMAIN pull.held : q[2] = r => q = p
  /\ After(pull.from, p) =>
       \/ p \in DOMAIN pull.held /\ pull.held[p] = rows[r].ver
       \/ /\ Cardinality(DOMAIN pull.held) = Limit + 1
          /\ \A q \in DOMAIN pull.held : Before(q, p)

\* A row that was read and is gone left its tombstone above the watermark.
ReadOK ==
  pull.at = "read" =>
    /\ \A q \in DOMAIN pull.held : After(pull.from, q) /\ q[1] < pull.mark
    /\ \A r \in Row : rows[r] # None /\ rows[r].at < pull.mark => ReadRow(r)
    /\ \A q \in DOMAIN pull.held : rows[q[2]] = None /\ Fresh(pull.mark) =>
         \E x \in stones : x[2] = q[2] /\ pull.mark <= x[1]

\* What is left of the page tells of row r, which is not after its end.
PageRow(r) ==
  LET p == Position(r) IN
  /\ \A q \in pull.todo : q[2] = r => q[1] <= rows[r].at
  /\ IF p \in pull.todo
     THEN p \in DOMAIN pull.held /\ pull.held[p] = rows[r].ver
     ELSE /\ pull.at = "apply" /\ copy[r] = rows[r].ver
          /\ \A q \in pull.todo : q[2] # r

\* The deletes that the page does not bring are ahead of its end.
PageDeletes ==
  /\ \A q \in DOMAIN pull.held : rows[q[2]] = None => Ahead(pull.next, q[2])
  /\ pull.at = "apply" =>
       \A r \in Row \ purged :
         rows[r] = None /\ copy[r] # None /\ (\A q \in pull.todo : q[2] # r)
           => Ahead(pull.next, r)

PageOK ==
  pull.at \in {"drop", "apply"} =>
    /\ pull.next = None => pull.todo = {} /\ ~pull.more
    /\ pull.next \in Cursor =>
         /\ \A q \in pull.todo : ~Before(pull.next.pos, q)
         /\ \A r \in Row \ backdated :
              rows[r] # None /\ ~Before(pull.next.pos, Position(r)) => PageRow(r)
         /\ Fresh(pull.next.del) => PageDeletes

IInv ==
  /\ TypeOK /\ PullOK /\ Finals /\ Ordered /\ Goes /\ ReadOK /\ PageOK

-----------------------------------------------------------------------------
(* The order of positions.                                                 *)

LEMMA Order ==
  \A p, q, x \in Positions :
    /\ Before(p, q) \/ p = q \/ Before(q, p)
    /\ ~Before(p, p)
    /\ Before(p, q) => ~Before(q, p)
    /\ Before(p, q) /\ Before(q, x) => Before(p, x)
    /\ p[1] < q[1] => Before(p, q)
    /\ Before(p, q) => p[1] <= q[1]
    /\ Before(p, q) /\ p[2] = q[2] => p[1] < q[1]
    /\ p[1] \in Time /\ p[2] \in Row
<1>1. \A p \in Positions : /\ p = <<p[1], p[2]>> /\ p[1] \in Time /\ p[2] \in Row
                           /\ p[1] \in Int /\ p[2] \in Int
  <2>1. \A p \in Positions : p = <<p[1], p[2]>> /\ p[1] \in Time /\ p[2] \in Row
    BY DEF Positions
  <2>2. \A t \in Time : t \in Int
    BY ConstantsAssumption DEF Time
  <2>3. \A r \in Row : r \in Int
    BY ConstantsAssumption
  <2> QED  BY <2>1, <2>2, <2>3
<1> SUFFICES ASSUME NEW p \in Positions, NEW q \in Positions, NEW x \in Positions
             PROVE  /\ Before(p, q) \/ p = q \/ Before(q, p)
                    /\ ~Before(p, p)
                    /\ Before(p, q) => ~Before(q, p)
                    /\ Before(p, q) /\ Before(q, x) => Before(p, x)
                    /\ p[1] < q[1] => Before(p, q)
                    /\ Before(p, q) => p[1] <= q[1]
                    /\ Before(p, q) /\ p[2] = q[2] => p[1] < q[1]
                    /\ p[1] \in Time /\ p[2] \in Row
  OBVIOUS
<1>2. Before(p, q) \/ p = q \/ Before(q, p)
  <2>1. CASE p[1] = q[1] /\ p[2] = q[2]
    BY <1>1, <2>1
  <2> QED  BY <1>1, <2>1 DEF Before
<1> QED  BY <1>1, <1>2 DEF Before

LEMMA PositionsFinite == \A S \in SUBSET Positions : IsFiniteSet(S)
<1>1. IsFiniteSet(Time)
  BY FS_Interval, ConstantsAssumption DEF Time
<1>2. IsFiniteSet(Positions)
  BY <1>1, FS_Product, ConstantsAssumption DEF Positions
<1> QED  BY <1>2, FS_Subset

\* A row that is there has its position.
LEMMA Positioned ==
  ASSUME TypeOK, NEW r \in Row, rows[r] # None
  PROVE  /\ Position(r) \in Positions
         /\ Position(r)[1] = rows[r].at /\ Position(r)[2] = r
         /\ rows[r] \in [ver : Version, at : Time]
BY DEF TypeOK, Position, Positions

-----------------------------------------------------------------------------
(* The initial state, and the steps of the writers and of time.            *)

LEMMA Initial == Init => IInv
<1> SUFFICES ASSUME Init PROVE IInv
  OBVIOUS
<1>1. TypeOK
  BY ConstantsAssumption, MarkersAssumption DEF Init, TypeOK, Opens, Idle, Time, Version
<1>2. PullOK
  BY DEF Init, PullOK, Idle
<1>3. Finals /\ Ordered /\ Goes /\ ReadOK /\ PageOK
  BY DEF Init, Finals, Ordered, Goes, ReadOK, PageOK, Idle, Opens, Current, Reading
<1> QED  BY <1>1, <1>2, <1>3 DEF IInv

LEMMA BeginStep == IInv /\ Begin => IInv'
<1> SUFFICES ASSUME IInv, Begin PROVE IInv'
  OBVIOUS
<1> USE DEF clientVars
<1>1. TypeOK'
  BY DEF IInv, TypeOK, Begin, Opens
<1>2. PullOK'
  BY DEF IInv, PullOK, Begin
<1>3. Finals'
  <2>1. clock \in Int /\ \A s \in open' : s \in open \/ s = clock
    BY DEF IInv, TypeOK, Begin, Time
  <2>2. ASSUME NEW c, Final(c) PROVE Final(c)'
    BY <2>1, <2>2 DEF Final, Begin
  <2> QED  BY <2>1, <2>2 DEF IInv, Finals, Begin, Opens
<1>4. Ordered' /\ ReadOK' /\ PageOK'
  BY DEF IInv, Begin, Ordered, ReadOK, PageOK, ReadRow, PageRow, PageDeletes, Ahead, Fresh,
         Position, After, Before
<1>5. Goes'
  BY DEF IInv, Begin, Goes, Current, Opens, Sound, Good, DelAhead, Ahead, Position, Reading, From
<1> QED  BY <1>1, <1>2, <1>3, <1>4, <1>5 DEF IInv

LEMMA CommitStep ==
  ASSUME IInv, NEW s \in open, NEW puts \in SUBSET Row, NEW dels \in SUBSET Row,
         Commit(s, puts, dels)
  PROVE  IInv'
<1> USE DEF clientVars
<1>1. /\ s \in Time /\ s \in Int /\ clock \in Int /\ commits' \in Version
      /\ open' \subseteq open
  BY ConstantsAssumption DEF IInv, TypeOK, Commit, Ends, Time, Version
<1>2. /\ UNCHANGED <<clock, copy, cursor, pull, purged, faults>>
      /\ stones' = stones \cup {<<s, r>> : r \in dels}
  BY DEF Commit
<1>3. ASSUME NEW r \in puts
      PROVE  /\ rows'[r] = [ver |-> commits', at |-> s] /\ rows'[r] # None
             /\ Position(r)' = <<s, r>>
             /\ r \notin backdated' => \A x \in stones : x[2] = r => ~(x[1] > s)
  BY <1>1, MarkersAssumption DEF Commit, Position
<1>4. \A r \in dels \ puts : rows'[r] = None
  BY DEF Commit
<1>5. ASSUME NEW r \in Row, r \notin puts, r \notin dels
      PROVE  /\ rows'[r] = rows[r] /\ Position(r)' = Position(r)
             /\ r \in backdated' <=> r \in backdated
  BY <1>5 DEF Commit, Position
<1>6. TypeOK'
  <2>1. rows' \in [Row -> [ver : Version, at : Time] \cup {None}]
    BY <1>1 DEF IInv, TypeOK, Commit
  <2>2. stones' \subseteq Positions
    BY <1>1, <1>2 DEF IInv, TypeOK, Positions
  <2>3. open' \subseteq Time /\ backdated' \subseteq Row
    BY <1>1 DEF IInv, TypeOK, Commit
  <2>4. commits' \in 0 .. MaxCommits
    BY <1>1 DEF Version
  <2> QED  BY <2>1, <2>2, <2>3, <2>4, <1>2 DEF IInv, TypeOK, Opens
<1>7. PullOK'
  BY <1>2 DEF IInv, PullOK
<1>8. Finals'
  BY <1>1, <1>2 DEF IInv, Finals, Final, Opens
<1>9. Ordered'
  <2> SUFFICES ASSUME NEW r \in Row \ backdated', rows'[r] # None,
                      NEW x \in stones', x[2] = r
               PROVE  x[1] <= rows'[r].at
    BY DEF Ordered
  <2>1. x \in Positions /\ x[1] \in Int
    BY <1>6, ConstantsAssumption, Order DEF TypeOK, Time
  <2>2. CASE r \in puts
    BY <2>1, <2>2, <1>1, <1>2, <1>3
  <2>3. CASE r \notin puts
    BY <2>1, <2>3, <1>2, <1>4, <1>5 DEF IInv, Ordered
  <2> QED  BY <2>2, <2>3
<1>10. ASSUME NEW c \in Cursor, Final(c), NEW r \in puts
       PROVE  Before(c.pos, Position(r)')
  BY <1>1, <1>3, <1>10 DEF Final, Before, Cursor
<1>11. ASSUME NEW c \in Cursor, Final(c), NEW r \in dels
       PROVE  Ahead(c, r)'
  <2>1. Before(c.pos, <<s, r>>) /\ c.del <= s
    BY <1>1, <1>11 DEF Final, Before, Cursor
  <2> QED  BY <2>1, <1>2 DEF Ahead
<1>12. ASSUME NEW c \in Cursor, Final(c), Sound(c)
       PROVE  Sound(c)'
  <2>1. Good(c)'
    BY <1>2, <1>3, <1>4, <1>5, <1>10, <1>12 DEF Sound, Good
  <2>2. DelAhead(c)'
    BY <1>2, <1>3, <1>5, <1>11, <1>12 DEF Sound, DelAhead, Ahead
  <2> QED  BY <2>1, <2>2 DEF Sound
<1>13. Goes'
  <2>1. Opens => cursor \in Cursor /\ Final(cursor)
    BY DEF IInv, TypeOK, Finals, Opens
  <2>2. pull.at \in {"marked", "read"} /\ pull.from # None => pull.from \in Cursor
    BY DEF IInv, PullOK
  <2>3. pull.at = "begun" /\ pull.opened # None => pull.opened \in Cursor
    BY DEF IInv, PullOK
  <2>4. Opens /\ Sound(cursor) => Sound(cursor)'
    <3> SUFFICES ASSUME Opens, Sound(cursor) PROVE Sound(cursor)'
      OBVIOUS
    <3>1. PICK c : c = cursor
      OBVIOUS
    <3>2. Sound(c)'
      BY <2>1, <3>1, <1>12 DEF Final, Sound, Good, DelAhead, Ahead
    <3> QED  BY <3>1, <3>2, <1>2 DEF Sound, Good, DelAhead, Ahead
  <2>5. Current' <=> Current
    BY <1>2 DEF Current, Opens
  <2>6. cursor \in Cursor => Opens
    BY MarkersAssumption DEF Opens
  <2>7. pull.at = "begun" => (From' # None => Sound(cursor))
    BY <1>2 DEF IInv, Goes, From
  <2>8. pull.at = "begun" /\ From' # None => Opens
    BY <1>2, <2>3, <2>6 DEF IInv, Goes, From
  <2> QED  BY <1>2, <2>2, <2>4, <2>5, <2>6, <2>7, <2>8 DEF IInv, Goes, Current, Opens, Reading
<1>14. ReadOK'
  <2> SUFFICES ASSUME pull.at = "read" PROVE ReadOK'
    BY <1>2 DEF ReadOK
  <2>1. pull.mark \in Int /\ pull.mark <= s
    BY ConstantsAssumption DEF IInv, Finals, PullOK, Time
  <2>2. ASSUME NEW r \in Row, rows'[r] # None, rows'[r].at < pull.mark
        PROVE  ReadRow(r)'
    <3>1. r \notin puts
      BY <1>1, <1>3, <2>1, <2>2
    <3>2. r \notin dels
      BY <1>4, <2>2, <3>1
    <3>3. ReadRow(r)
      BY <1>5, <2>2, <3>1, <3>2 DEF IInv, ReadOK
    <3> QED  BY <1>2, <1>5, <3>1, <3>2, <3>3 DEF ReadRow
  <2>3. ASSUME NEW q \in DOMAIN pull.held, rows'[q[2]] = None, Fresh(pull.mark)
        PROVE  \E x \in stones' : x[2] = q[2] /\ pull.mark <= x[1]
    <3>1. q[2] \in Row
      BY Order DEF IInv, PullOK, Held
    <3>2. CASE q[2] \in dels
      <4>1. <<s, q[2]>> \in stones'
        BY <1>2, <3>2
      <4> QED  BY <2>1, <4>1
    <3>3. CASE q[2] \notin dels
      BY <1>2, <1>3, <1>5, <2>3, <3>1, <3>3 DEF IInv, ReadOK
    <3> QED  BY <3>2, <3>3
  <2>4. \A q \in DOMAIN pull.held : After(pull.from, q) /\ q[1] < pull.mark
    BY DEF IInv, ReadOK
  <2> QED  BY <1>2, <2>2, <2>3, <2>4 DEF ReadOK, Fresh
<1>15. PageOK'
  <2> SUFFICES ASSUME pull.at \in {"drop", "apply"} PROVE PageOK'
    BY <1>2 DEF PageOK
  <2>1. pull.next = None => pull.todo = {} /\ ~pull.more
    BY DEF IInv, PageOK
  <2>2. ASSUME pull.next \in Cursor, NEW r \in Row \ backdated', rows'[r] # None,
               ~Before(pull.next.pos, Position(r)')
        PROVE  PageRow(r)'
    <3>1. Final(pull.next)
      BY <2>2, MarkersAssumption DEF IInv, Finals
    <3>2. r \notin puts
      BY <1>10, <2>2, <3>1
    <3>3. r \notin dels
      BY <1>4, <2>2, <3>2
    <3>4. PageRow(r)
      BY <1>5, <2>2, <3>2, <3>3 DEF IInv, PageOK
    <3> QED  BY <1>2, <1>5, <3>2, <3>3, <3>4 DEF PageRow
  <2>3. ASSUME pull.next \in Cursor, Fresh(pull.next.del)
        PROVE  PageDeletes'
    <3>1. Final(pull.next) /\ PageDeletes
      BY <2>3, MarkersAssumption DEF IInv, Finals, PageOK
    <3>2. ASSUME NEW r \in Row, rows'[r] = None, rows[r] = None => Ahead(pull.next, r)
          PROVE  Ahead(pull.next, r)'
      <4>1. CASE r \in dels
        BY <1>2, <1>11, <2>3, <3>1, <4>1
      <4>2. CASE r \notin dels
        BY <1>2, <1>3, <1>5, <3>2, <4>2 DEF Ahead
      <4> QED  BY <4>1, <4>2
    <3>3. \A q \in DOMAIN pull.held : q[2] \in Row
      BY Order DEF IInv, PullOK, Held
    <3>4. ASSUME NEW r \in Row \ purged, pull.at = "apply", rows'[r] = None, copy[r] # None,
                 \A q \in pull.todo : q[2] # r
          PROVE  Ahead(pull.next, r)'
      BY <3>1, <3>2, <3>4 DEF PageDeletes
    <3>5. \A q \in DOMAIN pull.held : rows'[q[2]] = None => Ahead(pull.next, q[2])'
      BY <3>1, <3>2, <3>3 DEF PageDeletes
    <3> QED  BY <1>2, <3>4, <3>5 DEF PageDeletes, Ahead
  <2>4. pull.next \in Cursor => \A q \in pull.todo : ~Before(pull.next.pos, q)
    BY DEF IInv, PageOK
  <2> QED  BY <1>2, <2>1, <2>2, <2>3, <2>4 DEF PageOK, Fresh
<1> QED  BY <1>6, <1>7, <1>8, <1>9, <1>13, <1>14, <1>15 DEF IInv

LEMMA RollbackStep ==
  ASSUME IInv, NEW s \in open, Rollback(s)
  PROVE  IInv'
<1> USE DEF clientVars
<1>1. open' \subseteq open
  BY DEF Rollback, Ends
<1>2. TypeOK'
  BY <1>1 DEF IInv, TypeOK, Rollback, Opens
<1>3. PullOK'
  BY DEF IInv, PullOK, Rollback
<1>4. Finals'
  BY <1>1 DEF IInv, Finals, Final, Rollback, Opens
<1>5. Ordered' /\ ReadOK' /\ PageOK'
  BY DEF IInv, Rollback, Ordered, ReadOK, PageOK, ReadRow, PageRow, PageDeletes, Ahead, Fresh,
         Position, After, Before
<1>6. Goes'
  BY DEF IInv, Rollback, Goes, Current, Opens, Sound, Good, DelAhead, Ahead, Position, Reading,
         From
<1> QED  BY <1>2, <1>3, <1>4, <1>5, <1>6 DEF IInv

LEMMA TickStep == IInv /\ Tick => IInv'
<1> SUFFICES ASSUME IInv, Tick PROVE IInv'
  OBVIOUS
<1> USE DEF clientVars, serverVars
<1>1. /\ clock \in Int /\ clock' = clock + 1 /\ clock' \in Time
      /\ \A t \in Time : t \in Int
      /\ UNCHANGED <<rows, stones, open, copy, cursor, pull, backdated, purged, commits, faults>>
  BY ConstantsAssumption DEF IInv, TypeOK, Tick, Time
<1>2. \A c \in Cursor : c.del \in Int /\ c.pos \in Positions /\ c.pos[1] \in Int
  BY <1>1, Order DEF Cursor
<1>3. TypeOK'
  BY <1>1, <1>2 DEF IInv, TypeOK, Opens
<1>4. PullOK'
  BY <1>1 DEF IInv, PullOK
<1>5. Finals'
  <2>1. ASSUME NEW c \in Cursor, Final(c) PROVE Final(c)'
    BY <1>1, <1>2, <2>1 DEF Final
  <2>2. \A s \in open : s \in Int
    BY <1>1 DEF IInv, TypeOK
  <2>3. pull.at \in {"marked", "read"} => pull.mark \in Int
    BY <1>1 DEF IInv, PullOK
  <2> QED  BY <1>1, <1>2, <2>2, <2>3 DEF IInv, Finals, Final, Opens, TypeOK, PullOK
<1>6. \A d \in Int : Fresh(d)' => Fresh(d)
  BY <1>1, ConstantsAssumption DEF Fresh
<1>7. Current' => Current
  BY <1>1, <1>2, <1>6, MarkersAssumption, ConstantsAssumption DEF IInv, TypeOK, Current, Opens
<1>8. Ordered' /\ ReadOK'
  <2>1. pull.at = "read" => pull.mark \in Int
    BY <1>1 DEF IInv, PullOK
  <2> QED  BY <1>1, <1>6, <2>1 DEF IInv, Ordered, ReadOK, ReadRow, Position
<1>9. PageOK'
  BY <1>1, <1>2, <1>6 DEF IInv, PageOK, PageRow, PageDeletes, Ahead, Position
<1>10. Goes'
  <2>1. pull.at = "begun" => pull.horizon \in Int
    BY DEF IInv, PullOK
  <2>2. pull.at = "begun" => pull.horizon <= clock' - Retention
    BY <1>1, <2>1, ConstantsAssumption DEF IInv, Goes
  <2>3. Sound(cursor)' = Sound(cursor)
    BY <1>1 DEF Sound, Good, DelAhead, Ahead, Position
  <2> QED  BY <1>1, <1>7, <2>2, <2>3 DEF IInv, Goes, Opens, Reading, From
<1> QED  BY <1>3, <1>4, <1>5, <1>8, <1>9, <1>10 DEF IInv

LEMMA RotateStep == IInv /\ Rotate => IInv'
<1> SUFFICES ASSUME IInv, Rotate PROVE IInv'
  OBVIOUS
<1> USE DEF clientVars, serverVars
<1>1. /\ UNCHANGED <<clock, rows, stones, open, copy, backdated, purged, commits>>
      /\ cursor' \in {None, Unopened} /\ (cursor' = None <=> cursor = None)
      /\ faults' \in 0 .. MaxFaults
  BY MarkersAssumption, ConstantsAssumption DEF IInv, TypeOK, Rotate, Spoilt, Fails
<1>2. ~Opens' /\ ~Current'
  BY <1>1 DEF Opens, Current
<1>3. CASE pull.at \in {"begun", "marked", "read"}
  <2>1. pull' = [at |-> "idle"]
    BY <1>3 DEF Rotate, Reading, Idle
  <2>2. TypeOK' /\ PullOK'
    BY <1>1, <1>2, <2>1 DEF IInv, TypeOK, PullOK
  <2>3. Finals' /\ Ordered' /\ Goes' /\ ReadOK' /\ PageOK'
    BY <1>1, <1>2, <2>1 DEF IInv, Finals, Ordered, Goes, ReadOK, PageOK, Reading
  <2> QED  BY <2>2, <2>3 DEF IInv
<1>4. CASE pull.at \in {"drop", "apply"}
  <2>1. /\ pull \in [at : {"drop", "apply"}, todo : SUBSET Positions, held : Held,
                     next : Cursor \cup {None, Unopened}, more : BOOLEAN]
        /\ pull' = [pull EXCEPT !.next = Spoilt(pull.next)]
    BY <1>4 DEF IInv, PullOK, Rotate, Reading
  <2>2. /\ pull'.at = pull.at /\ pull'.next \in {None, Unopened}
        /\ pull'.next = None => pull.next = None
        /\ pull'.todo = pull.todo /\ pull'.more = pull.more
    BY <2>1, MarkersAssumption DEF Spoilt
  <2>3. PullOK'
    BY <2>1 DEF PullOK, Spoilt
  <2>4. TypeOK'
    BY <1>1, <1>2, <1>4, <2>2 DEF IInv, TypeOK
  <2>5. Finals' /\ Ordered' /\ Goes' /\ ReadOK'
    BY <1>1, <1>2, <1>4, <2>2 DEF IInv, Finals, Ordered, Goes, ReadOK, Reading
  <2>6. PageOK'
    BY <1>1, <1>4, <2>2, MarkersAssumption DEF IInv, PageOK
  <2> QED  BY <2>3, <2>4, <2>5, <2>6 DEF IInv
<1>5. CASE pull.at \in {"idle", "more"}
  <2>1. pull' = pull
    BY <1>5 DEF Rotate, Reading
  <2>2. TypeOK' /\ PullOK'
    BY <1>1, <1>2, <2>1 DEF IInv, TypeOK, PullOK
  <2>3. Finals' /\ Ordered' /\ Goes' /\ ReadOK' /\ PageOK'
    BY <1>1, <1>2, <1>5, <2>1 DEF IInv, Finals, Ordered, Goes, ReadOK, PageOK, Reading
  <2> QED  BY <2>2, <2>3 DEF IInv
<1> QED  BY <1>3, <1>4, <1>5 DEF IInv, TypeOK

LEMMA StopStep == IInv /\ Stop => IInv'
<1> SUFFICES ASSUME IInv, Stop PROVE IInv'
  OBVIOUS
<1> USE DEF clientVars, serverVars
<1>1. /\ UNCHANGED <<clock, rows, stones, open, copy, cursor, backdated, purged, commits>>
      /\ pull' = [at |-> "idle"] /\ faults' \in 0 .. MaxFaults
  BY ConstantsAssumption DEF IInv, TypeOK, Stop, Fails, Idle
<1>2. TypeOK' /\ PullOK'
  BY <1>1 DEF IInv, TypeOK, PullOK, Opens
<1>3. Finals' /\ Ordered' /\ ReadOK' /\ PageOK'
  BY <1>1 DEF IInv, Finals, Final, Ordered, ReadOK, PageOK, Opens
<1>4. Goes'
  BY <1>1 DEF IInv, Goes, Current, Opens, Sound, Good, DelAhead, Ahead, Position, Reading
<1> QED  BY <1>2, <1>3, <1>4 DEF IInv

LEMMA PurgeStep == IInv /\ Purge => IInv'
<1> SUFFICES ASSUME IInv, Purge PROVE IInv'
  OBVIOUS
<1> USE DEF clientVars
<1> DEFINE old == {s \in stones : s[1] < clock - Retention}
<1>1. /\ UNCHANGED <<clock, rows, open, copy, cursor, pull, backdated, commits, faults>>
      /\ stones' = stones \ old
      /\ purged' = purged \cup {s[2] : s \in {x \in old : Reading /\ x[1] >= pull.horizon}}
  BY DEF Purge
<1>2. /\ clock - Retention \in Int
      /\ \A t \in Time : t \in Int
      /\ \A x \in stones : x \in Positions /\ x[1] \in Int /\ x[2] \in Row
  BY ConstantsAssumption, Order DEF IInv, TypeOK, Time
<1>3. \A c \in Cursor : c.del \in Int
  BY <1>2 DEF Cursor
<1>4. TypeOK'
  <2>1. purged' \subseteq Row
    BY <1>1, <1>2 DEF IInv, TypeOK
  <2> QED  BY <1>1, <2>1 DEF IInv, TypeOK, Opens
<1>5. PullOK'
  BY <1>1 DEF IInv, PullOK
<1>6. Finals' /\ Ordered'
  BY <1>1 DEF IInv, Finals, Final, Ordered, Opens
<1>7. ASSUME NEW x \in stones, ~(x[1] < clock - Retention)
      PROVE  x \in stones'
  BY <1>1, <1>7
<1>8. ASSUME NEW c \in Cursor, NEW r, Fresh(c.del), Ahead(c, r)
      PROVE  Ahead(c, r)'
  <2>1. PICK x \in stones : x[2] = r /\ Before(c.pos, x) /\ c.del <= x[1]
    BY <1>8 DEF Ahead
  <2>2. x \in stones'
    BY <1>2, <1>3, <1>7, <1>8, <2>1 DEF Fresh
  <2> QED  BY <2>1, <2>2 DEF Ahead
<1>9. ASSUME NEW c \in Cursor, NEW r \in Row \ purged', Ahead(c, r), Reading,
             pull.horizon \in Int, pull.horizon <= c.del
      PROVE  Ahead(c, r)'
  <2>1. PICK x \in stones : x[2] = r /\ Before(c.pos, x) /\ c.del <= x[1]
    BY <1>9 DEF Ahead
  <2>2. x[1] >= pull.horizon
    BY <1>2, <1>3, <1>9, <2>1
  <2>3. x \notin old
    BY <1>1, <1>9, <2>1, <2>2
  <2> QED  BY <1>1, <2>1, <2>3 DEF Ahead
<1>10. ASSUME NEW c \in Cursor, Sound(c),
              \/ Fresh(c.del)
              \/ Reading /\ pull.horizon \in Int /\ pull.horizon <= c.del
       PROVE  Sound(c)'
  <2>1. Good(c)'
    BY <1>1, <1>10 DEF Sound, Good, Position
  <2>2. purged \subseteq purged'
    BY <1>1
  <2>3. DelAhead(c)'
    BY <1>1, <1>8, <1>9, <1>10, <2>2 DEF Sound, DelAhead
  <2> QED  BY <2>1, <2>3 DEF Sound
<1>11. Goes'
  <2>1. PICK c : c = cursor
    OBVIOUS
  <2>2. Sound(c) <=> Sound(cursor)
    BY <2>1 DEF Sound, Good, DelAhead, Ahead
  <2>3. Sound(cursor)' <=> Sound(c)'
    BY <1>1, <2>1 DEF Sound, Good, DelAhead, Ahead
  <2>4. Opens => c \in Cursor
    BY <2>1 DEF IInv, TypeOK, Opens
  <2>5. Current => Sound(cursor)'
    BY <1>10, <2>1, <2>2, <2>3, <2>4 DEF IInv, Goes, Current, Fresh
  <2>6. Current' <=> Current
    BY <1>1 DEF Current, Opens
  <2>7. Reading => pull.horizon \in Int
    BY DEF IInv, PullOK, Reading
  <2>8. pull.at = "begun" /\ From # None => Sound(cursor)'
    BY <1>10, <2>1, <2>2, <2>3, <2>7 DEF IInv, PullOK, Goes, From, Reading
  <2>9. pull.at \in {"marked", "read"} /\ pull.from # None => Sound(cursor)'
    BY <1>10, <2>1, <2>2, <2>3, <2>7 DEF IInv, PullOK, Goes, Reading
  <2> QED  BY <1>1, <2>5, <2>6, <2>8, <2>9 DEF IInv, Goes, From, Opens, Reading
<1>12. ReadOK'
  <2> SUFFICES ASSUME pull.at = "read" PROVE ReadOK'
    BY <1>1 DEF ReadOK
  <2>1. pull.mark \in Int
    BY <1>2 DEF IInv, PullOK
  <2>2. ASSUME NEW q \in DOMAIN pull.held, rows[q[2]] = None, Fresh(pull.mark)
        PROVE  \E x \in stones' : x[2] = q[2] /\ pull.mark <= x[1]
    <3>1. PICK x \in stones : x[2] = q[2] /\ pull.mark <= x[1]
      BY <2>2 DEF IInv, ReadOK
    <3> QED  BY <1>2, <1>7, <2>1, <2>2, <3>1 DEF Fresh
  <2> QED  BY <1>1, <2>2 DEF IInv, ReadOK, ReadRow, Position, Fresh
<1>13. PageOK'
  <2> SUFFICES ASSUME pull.at \in {"drop", "apply"} PROVE PageOK'
    BY <1>1 DEF PageOK
  <2>1. ASSUME pull.next \in Cursor, Fresh(pull.next.del)
        PROVE  PageDeletes'
    <3>1. PICK c : c = pull.next
      OBVIOUS
    <3>2. \A r : Ahead(pull.next, r) => Ahead(c, r)'
      BY <1>8, <2>1, <3>1 DEF Ahead
    <3>3. \A r : Ahead(c, r)' => Ahead(pull.next, r)'
      BY <1>1, <3>1 DEF Ahead
    <3>4. PageDeletes
      BY <2>1 DEF IInv, PageOK
    <3>5. purged \subseteq purged'
      BY <1>1
    <3> QED  BY <1>1, <3>2, <3>3, <3>4, <3>5 DEF PageDeletes
  <2> QED  BY <1>1, <2>1 DEF IInv, PageOK, PageRow, Position, Fresh
<1> QED  BY <1>4, <1>5, <1>6, <1>11, <1>12, <1>13 DEF IInv

-----------------------------------------------------------------------------
(* The steps of a pull.                                                    *)

LEMMA AskStep == IInv /\ Ask => IInv'
<1> SUFFICES ASSUME IInv, Ask PROVE IInv'
  OBVIOUS
<1> USE DEF clientVars, serverVars
<1>1. /\ UNCHANGED <<clock, rows, stones, open, cursor, backdated, commits, faults>>
      /\ pull' = [at |-> "begun", horizon |-> clock - Retention,
                  opened |-> IF cursor = Unopened THEN None ELSE cursor]
      /\ pull.at \in {"idle", "more"}
  BY DEF Ask
<1>2. IF cursor = None
      THEN copy' = [r \in Row |-> None] /\ purged' = {}
      ELSE copy' = copy /\ purged' = purged
  BY DEF IInv, Goes, Ask
<1>3. clock - Retention \in Int
  BY ConstantsAssumption DEF IInv, TypeOK, Time
<1>4. pull'.at = "begun" /\ pull'.horizon = clock - Retention
      /\ pull'.opened = IF cursor = Unopened THEN None ELSE cursor
  BY <1>1
<1>5. TypeOK' /\ PullOK'
  <2>1. pull'.opened \in Cursor \cup {None}
    BY <1>4 DEF IInv, TypeOK
  <2>2. PullOK'
    BY <1>1, <1>3, <1>4, <2>1 DEF PullOK
  <2> QED  BY <1>1, <1>2, <1>4, <2>2 DEF IInv, TypeOK, Opens
<1>6. Finals' /\ Ordered' /\ ReadOK' /\ PageOK'
  BY <1>1, <1>4 DEF IInv, Finals, Final, Ordered, ReadOK, PageOK, Opens
<1>7. Goes'
  <2>1. cursor # None => Sound(cursor)' = Sound(cursor)
    BY <1>1, <1>2 DEF Sound, Good, DelAhead, Ahead, Position
  <2>2. Current' = Current /\ Opens' = Opens
    BY <1>1 DEF Current, Opens
  <2>3. From' # None => Current
    BY <1>4, <1>1, MarkersAssumption DEF From, Current, Opens
  <2>4. Current => cursor # None
    BY DEF Current, Opens
  <2> QED  BY <1>1, <1>2, <1>3, <1>4, <2>1, <2>2, <2>3, <2>4 DEF IInv, Goes, Opens, Reading
<1> QED  BY <1>5, <1>6, <1>7 DEF IInv

LEMMA MarkStep ==
  ASSUME IInv, NEW w \in 0 .. clock, w = 0 \/ IsWatermark(w), MarkAt(w),
         faults' \in 0 .. MaxFaults
  PROVE  IInv'
<1> USE DEF clientVars, serverVars
<1>1. /\ UNCHANGED <<clock, rows, stones, open, copy, cursor, backdated, purged, commits>>
      /\ pull.at = "begun"
      /\ pull' = [at |-> "marked", horizon |-> pull.horizon, mark |-> w, from |-> From]
  BY DEF MarkAt
<1>2. /\ pull'.at = "marked" /\ pull'.horizon = pull.horizon
      /\ pull'.mark = w /\ pull'.from = From
  BY <1>1
<1>3. pull \in [at : {"begun"}, horizon : Int, opened : Cursor \cup {None}]
  BY <1>1 DEF IInv, PullOK
<1>4. /\ w \in Int /\ w \in Time /\ w <= clock /\ clock \in Int
      /\ \A t \in Time : t \in Int /\ 0 <= t
  BY ConstantsAssumption DEF IInv, TypeOK, Time
<1>5. \A s \in open : w <= s
  BY <1>4 DEF IsWatermark, IInv, TypeOK
<1>6. From # None => /\ From = cursor /\ From \in Cursor /\ From = pull.opened
                     /\ pull.horizon <= From.del
  BY <1>1, <1>3 DEF From, IInv, Goes
<1>7. TypeOK'
  BY <1>1, <1>2 DEF IInv, TypeOK, Opens
<1>8. PullOK'
  BY <1>1, <1>2, <1>3, <1>4, <1>6 DEF PullOK
<1>9. Finals'
  <2>1. From # None => Final(From)
    BY <1>1, <1>6 DEF IInv, Finals
  <2> QED  BY <1>1, <1>2, <1>4, <1>5, <1>6, <2>1 DEF IInv, Finals, Final, Opens
<1>10. Ordered' /\ ReadOK' /\ PageOK'
  BY <1>1, <1>2 DEF IInv, Ordered, ReadOK, PageOK
<1>11. Goes'
  <2>1. Sound(cursor)' = Sound(cursor)
    BY <1>1 DEF Sound, Good, DelAhead, Ahead, Position
  <2>2. Current' = Current /\ Opens' = Opens
    BY <1>1 DEF Current, Opens
  <2>3. From # None => Sound(cursor)
    BY <1>1 DEF IInv, Goes
  <2>4. ASSUME From # None, w # 0 PROVE cursor.del <= w
    <3>1. w \in open \cup {clock}
      BY <2>4 DEF IsWatermark
    <3>2. Final(cursor)
      BY <1>1, <1>6, <2>4 DEF IInv, Finals
    <3> QED  BY <3>1, <3>2 DEF Final
  <2>5. From = None => ~Current
    <3> SUFFICES ASSUME From = None, Current PROVE FALSE
      OBVIOUS
    <3>1. pull.opened = cursor /\ cursor \in Cursor /\ pull.opened # None
      BY <1>1, <1>3 DEF IInv, Goes, Current
    <3>2. cursor.del \in Int /\ clock - Retention \in Int /\ pull.horizon \in Int
      <4>1. cursor.del \in Time
        BY <3>1 DEF Cursor
      <4>2. pull.horizon \in Int
        BY <1>3
      <4>3. cursor.del \in Int /\ clock \in Int
        BY <1>4, <4>1
      <4>4. Retention \in Int
        BY ConstantsAssumption
      <4> QED  BY <4>2, <4>3, <4>4
    <3>3. ~(cursor.del >= pull.horizon)
      BY <3>1 DEF From
    <3> QED  BY <1>1, <3>2, <3>3 DEF IInv, Goes, Current
  <2> QED  BY <1>1, <1>2, <1>6, <2>1, <2>2, <2>3, <2>4, <2>5 DEF IInv, Goes, Reading
<1> QED  BY <1>7, <1>8, <1>9, <1>10, <1>11 DEF IInv

LEMMA ReadRowsStep == IInv /\ ReadRows => IInv'
<1> SUFFICES ASSUME IInv, ReadRows PROVE IInv'
  OBVIOUS
<1> USE DEF clientVars, serverVars
<1> DEFINE live == {Position(r) : r \in {x \in Row : rows[x] # None}}
           want == {p \in live : After(pull.from, p) /\ p[1] < pull.mark}
<1>1. PICK F \in SUBSET want :
        /\ IsFirst(F, Limit + 1, want)
        /\ pull' = [at |-> "read", horizon |-> pull.horizon, mark |-> pull.mark,
                    from |-> pull.from, held |-> [p \in F |-> rows[p[2]].ver]]
  BY DEF ReadRows
<1>2. /\ UNCHANGED <<clock, rows, stones, open, copy, cursor, backdated, purged, commits, faults>>
      /\ pull.at = "marked"
  BY DEF ReadRows
<1>3. /\ pull'.at = "read" /\ pull'.horizon = pull.horizon /\ pull'.mark = pull.mark
      /\ pull'.from = pull.from /\ DOMAIN pull'.held = F
      /\ \A p \in F : pull'.held[p] = rows[p[2]].ver
  BY <1>1
<1>4. pull \in [at : {"marked"}, horizon : Int, mark : Time, from : Cursor \cup {None}]
  BY <1>2 DEF IInv, PullOK
<1>5. ASSUME NEW p \in want
      PROVE  /\ p \in Positions /\ p[2] \in Row /\ rows[p[2]] # None /\ p = Position(p[2])
             /\ rows[p[2]].ver \in Version
             /\ After(pull.from, p) /\ p[1] < pull.mark
  BY Positioned DEF IInv
<1>6. TypeOK'
  BY <1>2, <1>3 DEF IInv, TypeOK, Opens
<1>7. PullOK'
  <2>1. F \in SUBSET Positions /\ [p \in F |-> rows[p[2]].ver] \in [F -> Version]
    BY <1>5
  <2>2. [p \in F |-> rows[p[2]].ver] \in Held
    BY <2>1 DEF Held
  <2> QED  BY <1>1, <1>4, <2>2 DEF PullOK
<1>8. Finals' /\ Ordered' /\ PageOK'
  BY <1>2, <1>3 DEF IInv, Finals, Final, Ordered, PageOK, Opens
<1>9. Goes'
  <2>1. Sound(cursor)' = Sound(cursor)
    BY <1>2 DEF Sound, Good, DelAhead, Ahead, Position
  <2>2. Current' = Current /\ Opens' = Opens
    BY <1>2 DEF Current, Opens
  <2> QED  BY <1>2, <1>3, <2>1, <2>2 DEF IInv, Goes, Reading
<1>10. ReadOK'
  <2>1. ASSUME NEW r \in Row, rows[r] # None, rows[r].at < pull.mark
        PROVE  ReadRow(r)'
    <3> DEFINE p == Position(r)
    <3>1. p \in Positions /\ p[1] = rows[r].at /\ p[2] = r /\ Position(r)' = p
      BY <1>2, <2>1, Positioned DEF IInv, Position
    <3>2. \A q \in F : q[2] = r => q = p
      BY <1>5
    <3>3. ASSUME After(pull.from, p), p \notin F
          PROVE  Cardinality(F) = Limit + 1 /\ \A q \in F : Before(q, p)
      <4>1. p \in want
        BY <2>1, <3>1, <3>3
      <4>2. Cardinality(F) = Limit + 1
        BY <1>1, <3>3, <4>1 DEF IsFirst
      <4>3. ASSUME NEW q \in F PROVE Before(q, p)
        <5>1. q \in Positions /\ q # p /\ ~Before(p, q)
          BY <1>1, <1>5, <3>3, <4>1 DEF IsFirst
        <5> QED  BY <3>1, <5>1, Order
      <4> QED  BY <4>2, <4>3
    <3>4. p \in F => pull'.held[p] = rows[r].ver
      BY <1>3, <3>1
    <3>5. After(pull.from, p) =>
            \/ p \in DOMAIN pull'.held /\ pull'.held[p] = rows[r].ver
            \/ /\ Cardinality(DOMAIN pull'.held) = Limit + 1
               /\ \A q \in DOMAIN pull'.held : Before(q, p)
      BY <1>3, <3>3, <3>4
    <3> HIDE DEF p
    <3> QED  BY <1>2, <1>3, <3>1, <3>2, <3>5 DEF ReadRow, After
  <2>2. \A q \in F : rows[q[2]] # None /\ After(pull.from, q) /\ q[1] < pull.mark
    BY <1>5
  <2> QED  BY <1>2, <1>3, <2>1, <2>2 DEF ReadOK, After
<1> QED  BY <1>6, <1>7, <1>8, <1>9, <1>10 DEF IInv

\* What a page leaves out is after its end, and the page is full then.
LEMMA Cut ==
  ASSUME NEW H \in SUBSET Positions, NEW want \in SUBSET Positions,
         NEW S \in SUBSET want, IsFirst(S, Limit + 1, want),
         NEW page \in SUBSET (H \cup S), IsFirst(page, Limit, H \cup S)
  PROVE  /\ page = {} => H = {} /\ want = {}
         /\ \A end \in page : IsLast(end, page) =>
              /\ \A p \in H : ~Before(end, p) => p \in page
              /\ ~(Cardinality(H) = Limit + 1 /\ H \subseteq page)
              /\ \A x \in want \ page : Before(end, x) /\ Cardinality(H \cup S) > Limit
<1>1. /\ Limit \in Int /\ Limit > 0
      /\ IsFiniteSet(H) /\ IsFiniteSet(S) /\ IsFiniteSet(page) /\ IsFiniteSet(H \cup S)
  BY ConstantsAssumption, PositionsFinite
<1>2. /\ Cardinality(page) \in Nat /\ Cardinality(S) \in Nat
      /\ Cardinality(H) \in Nat /\ Cardinality(H \cup S) \in Nat
  BY <1>1, FS_CardinalityType
<1>3. Cardinality(page) <= Limit
  BY <1>1, <1>2 DEF IsFirst
<1>4. page = {} => H = {} /\ want = {}
  <2> SUFFICES ASSUME page = {} PROVE H = {} /\ want = {}
    OBVIOUS
  <2>1. Cardinality({}) = 0
    BY FS_EmptySet
  <2>2. H \cup S = {}
    BY <1>1, <2>1 DEF IsFirst
  <2>3. S = {}
    BY <2>2
  <2>4. want = {}
    BY <1>1, <2>1, <2>3 DEF IsFirst
  <2> QED  BY <2>2, <2>4
<1>5. ASSUME NEW end \in page, IsLast(end, page)
      PROVE  /\ \A p \in H \cup S : ~Before(end, p) => p \in page
             /\ ~(Cardinality(H) = Limit + 1 /\ H \subseteq page)
             /\ \A x \in want \ page : Before(end, x) /\ Cardinality(H \cup S) > Limit
  <2>1. ASSUME NEW p \in H \cup S, ~Before(end, p) PROVE p \in page
    BY <2>1, Order DEF IsFirst
  <2>2. ~(Cardinality(H) = Limit + 1 /\ H \subseteq page)
    BY <1>1, <1>2, <1>3, FS_Subset
  <2>3. ASSUME NEW x \in want, x \notin page
        PROVE  Before(end, x) /\ Cardinality(H \cup S) > Limit
    <3>1. CASE x \in S
      <4>1. Before(end, x)
        BY <2>1, <2>3, <3>1
      <4>2. page # H \cup S
        BY <2>3, <3>1
      <4>3. Cardinality(page) = Limit
        BY <4>2 DEF IsFirst
      <4>4. Cardinality(page) < Cardinality(H \cup S)
        BY <1>1, <1>2, <4>2, FS_Subset
      <4> QED  BY <1>1, <1>2, <4>1, <4>3, <4>4
    <3>2. CASE x \notin S
      <4>1. Cardinality(S) = Limit + 1 /\ \A q \in S : ~Before(x, q)
        BY <3>2 DEF IsFirst
      <4>2. Cardinality(S) <= Cardinality(H \cup S)
        BY <1>1, FS_Subset
      <4>3. Before(end, x)
        <5> SUFFICES ASSUME ~Before(end, x) PROVE FALSE
          OBVIOUS
        <5>1. end \in Positions /\ x \in Positions /\ Before(x, end)
          BY <2>3, Order
        <5>2. ASSUME NEW q \in S PROVE q \in page
          <6>1. q \in Positions /\ q # x /\ Before(q, x)
            BY <3>2, <4>1, <5>1, Order
          <6>2. Before(q, end)
            BY <5>1, <6>1, Order
          <6> QED  BY <2>1, <5>1, <6>1, <6>2, Order
        <5>3. Cardinality(S) <= Cardinality(page)
          BY <1>1, <5>2, FS_Subset
        <5> QED  BY <1>1, <1>2, <1>3, <4>1, <5>3
      <4> QED  BY <1>1, <1>2, <4>1, <4>2, <4>3
    <3> QED  BY <3>1, <3>2
  <2> QED  BY <2>1, <2>2, <2>3
<1> QED  BY <1>4, <1>5

LEMMA AnswerStep == IInv /\ Answer => IInv'
<1> SUFFICES ASSUME IInv, Answer PROVE IInv'
  OBVIOUS
<1> USE DEF clientVars, serverVars
<1> DEFINE H == DOMAIN pull.held
           want == IF pull.from = None THEN {}
                   ELSE {s \in stones : After(pull.from, s) /\ s[1] < pull.mark}
<1>1. PICK S \in SUBSET want :
        /\ IsFirst(S, Limit + 1, want)
        /\ \E page \in SUBSET (H \cup S) :
             /\ IsFirst(page, Limit, H \cup S)
             /\ \E end \in page \cup {None} :
                  /\ IF page = {} THEN end = None ELSE end # None /\ IsLast(end, page)
                  /\ pull' = [at |-> IF cursor # None /\ pull.from = None
                                     THEN "drop" ELSE "apply",
                              todo |-> page,
                              held |-> [p \in H \cap page |-> pull.held[p]],
                              next |-> Sealed(end, Owed(Cardinality(H \cup S) > Limit)),
                              more |-> Cardinality(H \cup S) > Limit]
  BY DEF Answer
<1>2. PICK page \in SUBSET (H \cup S) :
        /\ IsFirst(page, Limit, H \cup S)
        /\ \E end \in page \cup {None} :
             /\ IF page = {} THEN end = None ELSE end # None /\ IsLast(end, page)
             /\ pull' = [at |-> IF cursor # None /\ pull.from = None
                                THEN "drop" ELSE "apply",
                         todo |-> page,
                         held |-> [p \in H \cap page |-> pull.held[p]],
                         next |-> Sealed(end, Owed(Cardinality(H \cup S) > Limit)),
                         more |-> Cardinality(H \cup S) > Limit]
  BY <1>1
<1> DEFINE full == Cardinality(H \cup S) > Limit
           del == Owed(full)
<1>3. PICK end \in page \cup {None} :
        /\ IF page = {} THEN end = None ELSE end # None /\ IsLast(end, page)
        /\ pull' = [at |-> IF cursor # None /\ pull.from = None THEN "drop" ELSE "apply",
                    todo |-> page,
                    held |-> [p \in H \cap page |-> pull.held[p]],
                    next |-> Sealed(end, del),
                    more |-> full]
  BY <1>2
<1>4. /\ UNCHANGED <<clock, rows, stones, open, copy, cursor, backdated, purged, commits, faults>>
      /\ pull.at = "read"
  BY DEF Answer
<1>5. /\ pull'.at = IF cursor # None /\ pull.from = None THEN "drop" ELSE "apply"
      /\ pull'.todo = page /\ pull'.next = Sealed(end, del) /\ pull'.more = full
      /\ DOMAIN pull'.held = H \cap page
      /\ \A p \in H \cap page : pull'.held[p] = pull.held[p]
  BY <1>3
<1>6. /\ pull.horizon \in Int /\ pull.mark \in Time /\ pull.from \in Cursor \cup {None}
      /\ pull.held \in Held
  BY <1>4 DEF IInv, PullOK
<1>7. H \in SUBSET Positions /\ \A p \in H : pull.held[p] \in Version
  BY <1>6 DEF Held
<1>8. want \in SUBSET Positions /\ page \in SUBSET Positions
  BY <1>1, <1>7 DEF IInv, TypeOK
<1>9. /\ clock \in Int /\ Limit \in Int /\ pull.mark \in Int /\ pull.mark >= 0
      /\ Retention \in Int
      /\ \A t \in Time : t \in Int /\ t >= 0
  BY <1>6, ConstantsAssumption DEF IInv, TypeOK, Time
<1>10. \A c \in Cursor : c.del \in Time /\ c.del \in Int /\ c.pos \in Positions
  BY <1>9 DEF Cursor
<1>11. \A q \in H \cup S : After(pull.from, q) /\ q[1] < pull.mark
  BY <1>1, <1>4 DEF IInv, ReadOK
<1>12. /\ pull.mark <= clock /\ \A s \in open : pull.mark <= s
       /\ pull.from # None => Final(pull.from)
  BY <1>4 DEF IInv, Finals
<1>13. IF pull.from = None THEN ~Current
       ELSE /\ pull.from = cursor /\ Sound(cursor) /\ pull.from \in Cursor
            /\ pull.mark # 0 => cursor.del <= pull.mark
  BY <1>4, <1>6 DEF IInv, Goes
<1>14. /\ page = {} => H = {} /\ want = {}
       /\ page # {} =>
            /\ \A p \in H : ~Before(end, p) => p \in page
            /\ ~(Cardinality(H) = Limit + 1 /\ H \subseteq page)
            /\ \A x \in want \ page : Before(end, x) /\ full
  <2> HIDE DEF H, want
  <2>1. /\ page = {} => H = {} /\ want = {}
        /\ \A e \in page : IsLast(e, page) =>
             /\ \A p \in H : ~Before(e, p) => p \in page
             /\ ~(Cardinality(H) = Limit + 1 /\ H \subseteq page)
             /\ \A x \in want \ page : Before(e, x) /\ Cardinality(H \cup S) > Limit
    BY <1>1, <1>2, <1>7, <1>8, Cut
  <2>2. page # {} => end \in page /\ IsLast(end, page)
    BY <1>3
  <2> QED  BY <2>1, <2>2
<1> HIDE DEF H, want, full
<1>15. /\ del \in Time /\ del <= clock /\ \A s \in open : del <= s
       /\ del <= pull.mark \/ pull.mark = 0
       /\ pull.from # None => pull.from.del <= del
       /\ pull.from # None /\ (full \/ pull.mark = 0) => del = pull.from.del
  BY <1>6, <1>9, <1>10, <1>12, <1>13 DEF Owed, Final
<1> HIDE DEF del
<1>16. pull.mark # 0 \/ page = {}
  <2> SUFFICES ASSUME NEW q \in page PROVE pull.mark # 0
    OBVIOUS
  <2>1. q[1] \in Int /\ q[1] >= 0 /\ q[1] < pull.mark
    BY <1>8, <1>9, <1>11, Order
  <2> QED  BY <1>9, <2>1
<1>17. \/ /\ page # {} /\ end \in page /\ end \in Positions /\ end[1] \in Int
          /\ IsLast(end, page) /\ end[1] < pull.mark
          /\ pull'.next = [del |-> del, pos |-> end] /\ pull'.next \in Cursor
          /\ pull'.next.pos = end /\ pull'.next.del = del
       \/ /\ page = {} /\ pull.from # None
          /\ pull'.next = [pull.from EXCEPT !.del = del] /\ pull'.next \in Cursor
          /\ pull'.next.pos = pull.from.pos /\ pull'.next.del = del
       \/ page = {} /\ pull.from = None /\ pull'.next = None
  <2>1. CASE page # {}
    <3>1. end \in page /\ end # None /\ IsLast(end, page)
      BY <1>3, <2>1
    <3>2. end \in Positions /\ end[1] \in Int /\ end[1] < pull.mark
      BY <1>8, <1>9, <1>11, <3>1, Order
    <3>3. pull'.next = [del |-> del, pos |-> end]
      BY <1>5, <3>1 DEF Sealed
    <3> QED  BY <1>15, <2>1, <3>1, <3>2, <3>3 DEF Cursor
  <2>2. CASE page = {} /\ pull.from # None
    <3>1. pull'.next = [pull.from EXCEPT !.del = del]
      BY <1>3, <1>5, <2>2 DEF Sealed
    <3> QED  BY <1>13, <1>15, <2>2, <3>1 DEF Cursor
  <2>3. CASE page = {} /\ pull.from = None
    BY <1>3, <1>5, <2>3 DEF Sealed
  <2> QED  BY <2>1, <2>2, <2>3
<1>18. TypeOK'
  BY <1>4, <1>5 DEF IInv, TypeOK, Opens
<1>19. PullOK'
  <2>1. pull'.next \in Cursor \cup {None, Unopened}
    BY <1>17
  <2>2. [p \in H \cap page |-> pull.held[p]] \in [H \cap page -> Version]
    BY <1>7
  <2>3. [p \in H \cap page |-> pull.held[p]] \in Held
    BY <1>8, <2>2 DEF Held
  <2>4. full \in BOOLEAN
    BY DEF full
  <2> QED  BY <1>3, <1>5, <1>8, <2>1, <2>3, <2>4 DEF PullOK
<1>20. Finals'
  <2>1. ASSUME pull'.next \in Cursor
        PROVE  /\ pull'.next.del <= clock /\ pull'.next.pos[1] < clock
               /\ \A s \in open : pull'.next.del <= s /\ pull'.next.pos[1] < s
    <3>1. \A s \in open : s \in Int
      BY <1>9 DEF IInv, TypeOK
    <3>2. CASE page # {}
      BY <1>9, <1>12, <1>15, <1>17, <3>1, <3>2
    <3>3. CASE page = {}
      BY <1>12, <1>15, <1>17, <2>1, <3>3, MarkersAssumption DEF Final
    <3> QED  BY <3>2, <3>3
  <2>2. pull'.next \notin {None, Unopened} => pull'.next \in Cursor
    BY <1>17
  <2> QED  BY <1>4, <1>5, <2>1, <2>2 DEF IInv, Finals, Final, Opens
<1>21. Ordered' /\ ReadOK'
  BY <1>4, <1>5 DEF IInv, Ordered, ReadOK
<1>22. Goes'
  <2>1. Sound(cursor)' = Sound(cursor)
    BY <1>4 DEF Sound, Good, DelAhead, Ahead, Position
  <2>2. Current' = Current /\ Opens' = Opens
    BY <1>4 DEF Current, Opens
  <2>3. ASSUME Current
        PROVE  /\ pull'.next \in Cursor
               /\ ~Before(pull'.next.pos, cursor.pos) /\ cursor.del <= pull'.next.del
               /\ \A q \in page : Before(cursor.pos, q)
    <3>1. pull.from # None /\ pull.from = cursor /\ cursor \in Cursor
      BY <1>13, <2>3
    <3>2. \A q \in page : Before(cursor.pos, q)
      BY <1>11, <3>1 DEF After
    <3>3. CASE page # {}
      BY <1>10, <1>15, <1>17, <3>1, <3>2, <3>3, Order
    <3>4. CASE page = {}
      BY <1>10, <1>15, <1>17, <3>1, <3>2, <3>4, Order
    <3> QED  BY <3>2, <3>3, <3>4
  <2>4. pull'.at = "drop" => ~Current
    BY <1>5, <1>13
  <2> QED  BY <1>4, <1>5, <2>1, <2>2, <2>3, <2>4 DEF IInv, Goes, Reading
<1>23. ASSUME pull'.next \in Cursor, NEW r \in Row \ backdated, rows[r] # None,
              ~Before(pull'.next.pos, Position(r))
       PROVE  PageRow(r)'
  <2> DEFINE p == Position(r)
  <2>1. p \in Positions /\ p[1] = rows[r].at /\ p[2] = r /\ Position(r)' = p /\ p[1] \in Int
    BY <1>4, <1>9, <1>23, Positioned, Order DEF IInv, Position
  <2>2. pull.from = None => page # {}
    BY <1>17, <1>23, MarkersAssumption
  <2>3. ASSUME NEW q \in S, q[2] = r PROVE q[1] <= rows[r].at
    BY <1>1, <1>23, <2>3 DEF IInv, Ordered, want
  <2>4. ASSUME ~After(pull.from, p)
        PROVE  copy[r] = rows[r].ver /\ \A q \in page : q[2] # r
    <3>1. pull.from # None /\ pull.from = cursor /\ cursor \in Cursor
          /\ ~Before(cursor.pos, p)
      BY <1>13, <2>4 DEF After
    <3>2. copy[r] = rows[r].ver
      BY <1>13, <1>23, <3>1 DEF Sound, Good
    <3>3. ASSUME NEW q \in page, q[2] = r PROVE FALSE
      <4>1. Before(cursor.pos, q) /\ q \in Positions
        BY <1>8, <1>11, <3>1 DEF After
      <4>2. Before(p, q)
        BY <1>10, <2>1, <3>1, <4>1, Order
      <4>3. p[1] < q[1]
        BY <2>1, <3>3, <4>1, <4>2, Order
      <4>4. CASE q \in S
        BY <1>9, <2>1, <2>3, <3>3, <4>1, <4>3, <4>4, Order
      <4>5. CASE q \in H
        <5>1. page # {} /\ end \in Positions /\ end[1] < pull.mark /\ end[1] \in Int
              /\ ~Before(end, p)
          BY <1>17, <1>23, <3>3
        <5>2. rows[r].at < pull.mark
          BY <1>9, <2>1, <5>1, Order
        <5>3. q = p
          BY <1>4, <1>23, <3>3, <4>5, <5>2 DEF IInv, ReadOK, ReadRow, H
        <5> QED  BY <2>1, <4>3, <5>3
      <4> QED  BY <1>2, <4>4, <4>5
    <3> QED  BY <3>2, <3>3
  <2>5. ASSUME After(pull.from, p)
        PROVE  /\ p \in page /\ p \in H /\ pull.held[p] = rows[r].ver
               /\ \A q \in page : q[2] = r => q[1] <= rows[r].at
    <3>1. page # {} /\ end \in page /\ end \in Positions /\ end[1] < pull.mark
          /\ end[1] \in Int /\ ~Before(end, p)
      <4>1. CASE page = {}
        BY <1>17, <1>23, <2>5, <4>1, MarkersAssumption DEF After
      <4>2. CASE page # {}
        BY <1>17, <1>23, <4>2
      <4> QED  BY <4>1, <4>2
    <3>2. rows[r].at < pull.mark
      BY <1>9, <2>1, <3>1, Order
    <3>3. ReadRow(r)
      BY <1>4, <1>23, <3>2 DEF IInv, ReadOK
    <3>4. ~(Cardinality(H) = Limit + 1 /\ \A q \in H : Before(q, p))
      <4> SUFFICES ASSUME Cardinality(H) = Limit + 1, NEW q \in H, \A x \in H : Before(x, p)
                   PROVE  q \in page
        <5>1. H \subseteq page => FALSE \/ Cardinality(H) # Limit + 1
          BY <1>14, <3>1
        <5> QED  BY <5>1
      <4>1. q \in Positions /\ Before(q, p)
        BY <1>7
      <4>2. ~Before(end, q)
        BY <2>1, <3>1, <4>1, Order
      <4> QED  BY <1>14, <3>1, <4>2
    <3>5. p \in H /\ pull.held[p] = rows[r].ver
      BY <2>5, <3>3, <3>4 DEF ReadRow, H
    <3>6. p \in page
      BY <1>14, <3>1, <3>5
    <3>7. ASSUME NEW q \in page, q[2] = r PROVE q[1] <= rows[r].at
      <4>1. CASE q \in S
        BY <2>3, <3>7, <4>1
      <4>2. CASE q \in H
        BY <2>1, <3>3, <3>7, <4>2 DEF ReadRow, H
      <4> QED  BY <1>2, <4>1, <4>2
    <3> QED  BY <3>5, <3>6, <3>7
  <2>6. ~After(pull.from, p) => pull'.at = "apply"
    BY <1>5 DEF After
  <2> HIDE DEF p
  <2>7. CASE After(pull.from, p)
    BY <1>4, <1>5, <2>1, <2>5, <2>7 DEF PageRow
  <2>8. CASE ~After(pull.from, p)
    BY <1>4, <1>5, <2>1, <2>4, <2>6, <2>8 DEF PageRow
  <2> QED  BY <2>7, <2>8
<1>24. ASSUME pull'.next \in Cursor, Fresh(del)
       PROVE  PageDeletes'
  <2>1. ASSUME NEW x \in stones, pull.mark <= x[1], pull.mark # 0,
               page = {} => Before(pull.from.pos, x)
        PROVE  Before(pull'.next.pos, x) /\ pull'.next.del <= x[1]
    <3>1. x \in Positions /\ x[1] \in Int
      BY <1>9, Order DEF IInv, TypeOK
    <3>2. pull'.next.del <= x[1]
      BY <1>9, <1>15, <1>17, <1>24, <2>1, <3>1, MarkersAssumption
    <3>3. CASE page # {}
      BY <1>9, <1>17, <2>1, <3>1, <3>2, <3>3, Order
    <3>4. CASE page = {}
      BY <1>17, <1>24, <2>1, <3>2, <3>4, MarkersAssumption
    <3> QED  BY <3>3, <3>4
  <2>2. ASSUME NEW q \in H \cap page, rows[q[2]] = None
        PROVE  \E x \in stones : /\ x[2] = q[2] /\ Before(pull'.next.pos, x)
                                 /\ pull'.next.del <= x[1]
    <3>1. pull.mark # 0 /\ page # {}
      BY <1>16
    <3>2. Fresh(pull.mark)
      BY <1>9, <1>15, <1>24, <3>1 DEF Fresh
    <3>3. PICK x \in stones : x[2] = q[2] /\ pull.mark <= x[1]
      BY <1>4, <2>2, <3>2 DEF IInv, ReadOK, H
    <3> QED  BY <2>1, <3>1, <3>3
  <2>3. ASSUME NEW r \in Row \ purged, pull'.at = "apply", rows[r] = None, copy[r] # None,
               \A q \in page : q[2] # r
        PROVE  \E x \in stones : /\ x[2] = r /\ Before(pull'.next.pos, x)
                                 /\ pull'.next.del <= x[1]
    <3>1. pull.from # None /\ pull.from = cursor /\ cursor \in Cursor /\ DelAhead(cursor)
      <4>1. CASE pull.from = None
        <5>1. cursor = None
          BY <1>5, <2>3, <4>1
        <5> QED  BY <1>4, <2>3, <5>1 DEF IInv, Goes, Reading
      <4>2. CASE pull.from # None
        BY <1>13, <4>2 DEF Sound
      <4> QED  BY <4>1, <4>2
    <3>2. PICK x \in stones : x[2] = r /\ Before(cursor.pos, x) /\ cursor.del <= x[1]
      BY <2>3, <3>1 DEF DelAhead, Ahead
    <3>3. x \in Positions /\ x[1] \in Int /\ x \notin page
      BY <1>9, <2>3, <3>2, Order DEF IInv, TypeOK
    <3>4. CASE pull.mark = 0
      BY <1>15, <1>16, <1>17, <3>1, <3>2, <3>4
    <3>5. CASE pull.mark # 0 /\ pull.mark <= x[1]
      BY <2>1, <3>1, <3>2, <3>5
    <3>6. CASE x[1] < pull.mark
      <4>1. x \in want
        BY <3>1, <3>2, <3>6 DEF want, After
      <4>2. page # {} /\ Before(end, x) /\ full
        BY <1>14, <3>3, <4>1
      <4> QED  BY <1>15, <1>17, <3>1, <3>2, <4>2
    <3> QED  BY <1>9, <3>3, <3>4, <3>5, <3>6
  <2> QED  BY <1>4, <1>5, <2>2, <2>3 DEF PageDeletes, Ahead
<1>25. PageOK'
  <2>1. pull'.next = None => page = {} /\ ~full
    <3> SUFFICES ASSUME pull'.next = None PROVE page = {} /\ ~full
      OBVIOUS
    <3>1. page = {} /\ H = {} /\ want = {}
      BY <1>14, <1>17, MarkersAssumption
    <3>2. Cardinality(H \cup S) = 0
      BY <1>1, <3>1, FS_EmptySet
    <3> QED  BY <3>1, <3>2, ConstantsAssumption DEF full
  <2>2. pull'.next \in Cursor => pull'.next.del = del
    BY <1>17, MarkersAssumption
  <2>3. ASSUME pull'.next \in Cursor, NEW q \in page PROVE ~Before(pull'.next.pos, q)
    BY <1>17, <2>3 DEF IsLast
  <2>4. ASSUME pull'.next \in Cursor, Fresh(pull'.next.del) PROVE PageDeletes'
    BY <1>24, <2>2, <2>4
  <2> QED  BY <1>4, <1>5, <1>23, <2>1, <2>3, <2>4 DEF PageOK, Position, Fresh
<1> QED  BY <1>18, <1>19, <1>20, <1>21, <1>22, <1>25 DEF IInv

LEMMA DropStep == IInv /\ Drop => IInv'
<1> SUFFICES ASSUME IInv, Drop PROVE IInv'
  OBVIOUS
<1> USE DEF clientVars, serverVars
<1>1. /\ UNCHANGED <<clock, rows, stones, open, cursor, backdated, commits, faults>>
      /\ pull.at = "drop" /\ pull' = [pull EXCEPT !.at = "apply"]
      /\ copy' = [r \in Row |-> None] /\ purged' = {}
  BY DEF Drop
<1>2. pull \in [at : {"drop", "apply"}, todo : SUBSET Positions, held : Held,
                next : Cursor \cup {None, Unopened}, more : BOOLEAN]
  BY <1>1 DEF IInv, PullOK
<1>3. /\ pull'.at = "apply" /\ pull'.todo = pull.todo /\ pull'.held = pull.held
      /\ pull'.next = pull.next /\ pull'.more = pull.more
  BY <1>1, <1>2
<1>4. TypeOK' /\ PullOK'
  BY <1>1, <1>2, <1>3 DEF IInv, TypeOK, PullOK, Opens
<1>5. Finals' /\ Ordered' /\ ReadOK'
  BY <1>1, <1>3 DEF IInv, Finals, Final, Ordered, ReadOK, Opens
<1>6. Goes'
  BY <1>1, <1>3 DEF IInv, Goes, Current, Opens, Reading
<1>7. PageOK'
  <2>1. ASSUME NEW r \in Row, PageRow(r) PROVE PageRow(r)'
    BY <1>1, <1>3, <2>1 DEF PageRow, Position
  <2>2. PageDeletes => PageDeletes'
    BY <1>1, <1>3 DEF PageDeletes, Ahead
  <2> QED  BY <1>1, <1>3, <2>1, <2>2 DEF IInv, PageOK, Position, Fresh
<1> QED  BY <1>4, <1>5, <1>6, <1>7 DEF IInv

LEMMA ApplyStep ==
  ASSUME IInv, pull.at = "apply", NEW p \in pull.todo, Apply(p)
  PROVE  IInv'
<1> USE DEF clientVars, serverVars
<1>1. /\ UNCHANGED <<clock, rows, stones, open, cursor, backdated, commits, faults>>
      /\ pull' = [pull EXCEPT !.todo = @ \ {p}]
      /\ copy' = [copy EXCEPT ![p[2]] = IF p \in DOMAIN pull.held THEN pull.held[p] ELSE None]
      /\ purged' = purged \ {p[2]}
      /\ \A q \in pull.todo : ~Before(q, p)
  BY DEF Apply
<1>2. pull \in [at : {"drop", "apply"}, todo : SUBSET Positions, held : Held,
                next : Cursor \cup {None, Unopened}, more : BOOLEAN]
  BY DEF IInv, PullOK
<1>3. /\ pull'.at = "apply" /\ pull'.todo = pull.todo \ {p} /\ pull'.held = pull.held
      /\ pull'.next = pull.next /\ pull'.more = pull.more
  BY <1>1, <1>2
<1>4. /\ p \in Positions /\ p[2] \in Row
      /\ p \in DOMAIN pull.held => pull.held[p] \in Version
  BY <1>2, Order DEF Held
<1>5. /\ \A r \in Row : r # p[2] => copy'[r] = copy[r] /\ (r \in purged' <=> r \in purged)
      /\ copy'[p[2]] = IF p \in DOMAIN pull.held THEN pull.held[p] ELSE None
  BY <1>1, <1>4 DEF IInv, TypeOK
<1>6. TypeOK' /\ PullOK'
  <2>1. copy' \in [Row -> Version \cup {None}]
    BY <1>1, <1>4 DEF IInv, TypeOK
  <2>2. PullOK'
    BY <1>1, <1>2 DEF PullOK
  <2> QED  BY <1>1, <1>3, <2>1, <2>2 DEF IInv, TypeOK, Opens
<1>7. Finals' /\ Ordered' /\ ReadOK'
  BY <1>1, <1>3 DEF IInv, Finals, Final, Ordered, ReadOK, Opens
<1>8. pull.next # None
  BY DEF IInv, PageOK
<1>9. PageOK'
  <2>1. ASSUME NEW r \in Row, rows[r] # None, PageRow(r) PROVE PageRow(r)'
    <3> DEFINE x == Position(r)
    <3>1. x \in Positions /\ x[1] = rows[r].at /\ x[2] = r /\ Position(r)' = x
      BY <1>1, <2>1, Positioned DEF IInv, Position
    <3>2. CASE x \notin pull.todo
      BY <1>1, <1>3, <1>5, <2>1, <3>1, <3>2 DEF PageRow
    <3>3. CASE x \in pull.todo /\ x # p
      BY <1>1, <1>3, <2>1, <3>1, <3>3 DEF PageRow
    <3>4. CASE x = p
      <4>1. copy'[r] = rows[r].ver
        BY <1>5, <2>1, <3>1, <3>4 DEF PageRow
      <4>2. ASSUME NEW q \in pull.todo \ {p}, q[2] = r PROVE FALSE
        <5>1. q \in Positions /\ ~Before(q, p) /\ q # p
          BY <1>1, <1>2, <4>2
        <5>2. Before(p, q)
          BY <1>4, <5>1, Order
        <5>3. p[1] < q[1] /\ p[1] \in Time /\ q[1] \in Time
          BY <1>4, <3>1, <3>4, <4>2, <5>1, <5>2, Order
        <5>4. q[1] <= rows[r].at
          BY <2>1, <4>2 DEF PageRow
        <5> QED  BY <3>1, <3>4, <5>3, <5>4, ConstantsAssumption DEF Time
      <4> QED  BY <1>1, <1>3, <2>1, <3>1, <3>4, <4>1, <4>2 DEF PageRow
    <3> QED  BY <3>2, <3>3, <3>4
  <2>2. ASSUME PageDeletes PROVE PageDeletes'
    <3>1. \A r : Ahead(pull.next, r)' <=> Ahead(pull.next, r)
      BY <1>1, <1>3 DEF Ahead
    <3>2. ASSUME NEW r \in Row \ purged', rows[r] = None, copy'[r] # None,
                 \A q \in pull.todo \ {p} : q[2] # r
          PROVE  Ahead(pull.next, r)
      <4>1. CASE r = p[2]
        BY <1>5, <2>2, <3>2, <4>1 DEF PageDeletes
      <4>2. CASE r # p[2]
        BY <1>5, <2>2, <3>2, <4>2 DEF PageDeletes
      <4> QED  BY <4>1, <4>2
    <3> QED  BY <1>1, <1>3, <2>2, <3>1, <3>2 DEF PageDeletes
  <2> QED  BY <1>1, <1>3, <1>8, <2>1, <2>2 DEF IInv, PageOK, Position, Fresh
<1>10. Goes'
  <2>1. Current' = Current /\ Opens' = Opens
    BY <1>1 DEF Current, Opens
  <2>2. ASSUME Current PROVE Sound(cursor)'
    <3>1. /\ pull.next \in Cursor /\ ~Before(pull.next.pos, cursor.pos)
          /\ cursor.del <= pull.next.del /\ Before(cursor.pos, p) /\ Sound(cursor)
      BY <2>2 DEF IInv, Goes
    <3>2. /\ cursor \in Cursor /\ cursor.pos \in Positions /\ pull.next.pos \in Positions
          /\ cursor.del \in Int /\ pull.next.del \in Int /\ clock - Retention \in Int
      BY <2>2, <3>1, ConstantsAssumption DEF IInv, TypeOK, Current, Opens, Cursor, Time
    <3>3. Fresh(pull.next.del)
      BY <2>2, <3>1, <3>2 DEF Fresh, Current
    <3>4. ASSUME NEW r \in Row \ backdated, rows[r] # None, ~Before(cursor.pos, Position(r))
          PROVE  copy'[r] = rows[r].ver
      <4>1. Position(r) \in Positions /\ Position(r)[1] = rows[r].at /\ Position(r)[2] = r
        BY <3>4, Positioned DEF IInv
      <4>2. PageRow(r)
        BY <3>1, <3>2, <3>4, <4>1, Order DEF IInv, PageOK
      <4>3. p[2] # r
        <5> SUFFICES ASSUME p[2] = r PROVE FALSE
          OBVIOUS
        <5>1. Before(Position(r), p)
          BY <1>4, <3>1, <3>2, <3>4, <4>1, Order
        <5>2. rows[r].at < p[1] /\ p[1] \in Time /\ rows[r].at \in Time
          BY <1>4, <4>1, <5>1, Order
        <5> QED  BY <4>2, <5>2, ConstantsAssumption DEF PageRow, Time
      <4> QED  BY <1>5, <3>1, <3>4, <4>3 DEF Sound, Good
    <3>5. ASSUME NEW r \in Row \ purged', rows[r] = None, copy'[r] # None
          PROVE  Ahead(cursor, r)
      <4>1. CASE r # p[2]
        BY <1>5, <3>1, <3>5, <4>1 DEF Sound, DelAhead
      <4>2. CASE r = p[2]
        <5>1. Ahead(pull.next, r)
          BY <1>5, <3>1, <3>3, <3>5, <4>2 DEF IInv, PageOK, PageDeletes
        <5>2. PICK x \in stones : /\ x[2] = r /\ Before(pull.next.pos, x)
                                  /\ pull.next.del <= x[1]
          BY <5>1 DEF Ahead
        <5>3. x \in Positions /\ x[1] \in Int
          BY Order, ConstantsAssumption DEF IInv, TypeOK, Time
        <5>4. Before(cursor.pos, x)
          BY <3>1, <3>2, <5>2, <5>3, Order
        <5> QED  BY <3>1, <3>2, <5>2, <5>3, <5>4 DEF Ahead
      <4> QED  BY <4>1, <4>2
    <3> QED  BY <1>1, <3>4, <3>5 DEF Sound, Good, DelAhead, Ahead, Position
  <2> QED  BY <1>1, <1>3, <2>1, <2>2 DEF IInv, Goes, Reading
<1> QED  BY <1>6, <1>7, <1>9, <1>10 DEF IInv

LEMMA SaveStep == IInv /\ Save => IInv'
<1> SUFFICES ASSUME IInv, Save PROVE IInv'
  OBVIOUS
<1> USE DEF clientVars, serverVars
<1>1. /\ UNCHANGED <<clock, rows, stones, open, copy, backdated, purged, commits, faults>>
      /\ pull.at = "apply" /\ pull.todo = {}
      /\ cursor' = IF pull.next = None THEN cursor ELSE pull.next
      /\ pull' = IF pull.more THEN [at |-> "more"] ELSE Idle
  BY DEF Save
<1>2. pull \in [at : {"drop", "apply"}, todo : SUBSET Positions, held : Held,
                next : Cursor \cup {None, Unopened}, more : BOOLEAN]
  BY <1>1 DEF IInv, PullOK
<1>3. /\ pull' \in [at : {"idle", "more"}] /\ pull'.at \in {"idle", "more"}
      /\ pull'.at = "more" => pull.more
  BY <1>1 DEF Idle
<1>4. PullOK'
  BY <1>3 DEF PullOK
<1>5. Opens' /\ pull.next # None => /\ pull.next \in Cursor /\ cursor' = pull.next
                                    /\ Final(pull.next)
  BY <1>1, <1>2 DEF IInv, Finals, Opens
<1>6. cursor' # cursor => pull.next # None
  BY <1>1
<1>7. TypeOK'
  <2>1. cursor' \in Cursor \cup {None, Unopened}
    BY <1>1, <1>2 DEF IInv, TypeOK
  <2>2. Opens' => cursor'.del <= clock' /\ cursor'.pos[1] < clock'
    BY <1>1, <1>5 DEF IInv, TypeOK, Opens, Final
  <2> QED  BY <1>1, <1>3, <2>1, <2>2 DEF IInv, TypeOK
<1>8. Finals'
  BY <1>1, <1>3, <1>5 DEF IInv, Finals, Final, Opens
<1>9. Ordered' /\ ReadOK' /\ PageOK'
  BY <1>1, <1>3 DEF IInv, Ordered, ReadOK, PageOK
<1>10. Current' => Sound(cursor)'
  <2> SUFFICES ASSUME Current' PROVE Sound(cursor)'
    OBVIOUS
  <2>1. CASE pull.next = None
    BY <1>1, <2>1, MarkersAssumption DEF IInv, Goes, Current, Opens
  <2>2. CASE pull.next # None
    <3>1. pull.next \in Cursor /\ cursor' = pull.next
      BY <1>5, <2>2 DEF Current
    <3>2. Fresh(pull.next.del)
      <4>1. cursor'.del >= clock - Retention
        BY <1>1 DEF Current
      <4>2. pull.next.del \in Int /\ clock - Retention \in Int
        BY <3>1, ConstantsAssumption DEF IInv, TypeOK, Cursor, Time
      <4> QED  BY <3>1, <4>1, <4>2 DEF Fresh
    <3>3. ASSUME NEW r \in Row \ backdated, rows[r] # None,
                 ~Before(pull.next.pos, Position(r))
          PROVE  copy[r] = rows[r].ver
      BY <1>1, <3>1, <3>3 DEF IInv, PageOK, PageRow
    <3>4. ASSUME NEW r \in Row \ purged, rows[r] = None, copy[r] # None
          PROVE  Ahead(pull.next, r)
      BY <1>1, <3>1, <3>2, <3>4 DEF IInv, PageOK, PageDeletes
    <3> QED  BY <1>1, <3>1, <3>3, <3>4 DEF Sound, Good, DelAhead, Ahead, Position
  <2> QED  BY <2>1, <2>2
<1>11. Goes'
  <2>1. pull'.at = "more" => cursor' # None
    BY <1>1, <1>3 DEF IInv, PageOK
  <2> QED  BY <1>3, <1>10, <2>1 DEF Goes, Reading
<1> QED  BY <1>4, <1>7, <1>8, <1>9, <1>11 DEF IInv

-----------------------------------------------------------------------------
(* The theorems.                                                           *)

LEMMA NextStep == IInv /\ [Next]_vars => IInv'
<1> SUFFICES ASSUME IInv, [Next]_vars PROVE IInv'
  OBVIOUS
<1>1. CASE \E s \in open : Commits(s)
  BY <1>1, CommitStep DEF Commits
<1>2. CASE \E s \in open : Rollback(s)
  BY <1>2, RollbackStep
<1>3. CASE Mark
  <2>1. PICK w \in 0 .. clock : IsWatermark(w) /\ MarkAt(w) /\ UNCHANGED faults
    BY <1>3 DEF Mark
  <2>2. faults' \in 0 .. MaxFaults
    BY <2>1 DEF IInv, TypeOK
  <2> QED  BY <2>1, <2>2, MarkStep
<1>4. CASE MarkBlind
  <2>1. MarkAt(0) /\ faults' \in 0 .. MaxFaults /\ 0 \in 0 .. clock
    BY <1>4, ConstantsAssumption DEF MarkBlind, Fails, IInv, TypeOK, Time
  <2> QED  BY <2>1, MarkStep
<1>5. CASE \E p \in IF pull.at = "apply" THEN pull.todo ELSE {} : Apply(p)
  BY <1>5, ApplyStep
<1>6. CASE UNCHANGED vars
  <2>1. UNCHANGED <<clock, rows, stones, open, copy, cursor, pull, backdated, purged, commits,
                    faults>>
    BY <1>6 DEF vars
  <2>2. TypeOK' /\ PullOK' /\ Finals'
    BY <2>1 DEF IInv, TypeOK, PullOK, Finals, Final, Opens
  <2>3. Ordered' /\ ReadOK' /\ PageOK'
    BY <2>1 DEF IInv, Ordered, ReadOK, PageOK, ReadRow, PageRow, PageDeletes, Ahead, Fresh,
                Position
  <2>4. Goes'
    BY <2>1 DEF IInv, Goes, Current, Opens, Sound, Good, DelAhead, Ahead, Position, Reading, From
  <2> QED  BY <2>2, <2>3, <2>4 DEF IInv
<1> QED  BY <1>1, <1>2, <1>3, <1>4, <1>5, <1>6, BeginStep, TickStep, RotateStep, PurgeStep,
            StopStep, AskStep, ReadRowsStep, AnswerStep, DropStep, SaveStep
         DEF Next, PullStep

LEMMA Invariance == Spec => []IInv
BY Initial, NextStep, PTL DEF Spec

\* TypeOK: whatever the rows, the page size, the retention and the bounds, every
\* variable keeps its type, and a cursor never points past the present.
THEOREM TypeCorrect == Spec => []TypeOK
<1>1. IInv => TypeOK
  BY DEF IInv
<1> QED  BY <1>1, Invariance, PTL

\* CursorIsFinal: the watermark of syncWatermarkUs lets no transaction, however
\* late it commits, date anything at or behind a cursor a client holds.
THEOREM CursorsAreFinal == Spec => []CursorIsFinal
<1>1. IInv => CursorIsFinal
  BY DEF IInv, Finals, Final, CursorIsFinal
<1> QED  BY <1>1, Invariance, PTL

\* RowsBehind: for any rows and any page size, however pulls are paged, cut and
\* repeated, a client whose cursor is still good holds every row behind it.
THEOREM NoRowIsMissed == Spec => []RowsBehind
<1>1. ASSUME IInv PROVE RowsBehind
  <2> SUFFICES ASSUME Current, NEW r \in Row \ backdated, rows[r] # None,
                      ~After(cursor, Position(r))
               PROVE  copy[r] = rows[r].ver
    BY DEF RowsBehind
  <2>1. Good(cursor)
    BY <1>1 DEF IInv, Goes, Sound
  <2> QED  BY <2>1 DEF Good, After
<1> QED  BY <1>1, Invariance, PTL

\* DeletesBehind: for any retention and however the purge falls, the delete of a
\* row that a client with a good cursor still holds is ahead of that cursor.
THEOREM NoDeleteIsMissed == Spec => []DeletesBehind
<1>1. ASSUME IInv PROVE DeletesBehind
  <2> SUFFICES ASSUME Current, NEW r \in Row \ purged, rows[r] = None, copy[r] # None
               PROVE  \E s \in stones : s[2] = r /\ After(cursor, s)
    BY DEF DeletesBehind
  <2>1. Ahead(cursor, r)
    BY <1>1 DEF IInv, Goes, Sound, DelAhead
  <2> QED  BY <2>1 DEF Ahead, After
<1> QED  BY <1>1, Invariance, PTL
=============================================================================
