--------------------------- MODULE WorkerTxnProofs ---------------------------
(***************************************************************************)
(* Proofs for WorkerTxn, for any number of statements and savepoint        *)
(* operations, any depth of the scopes and any number of failures.         *)
(***************************************************************************)
EXTENDS WorkerTxn, SequenceTheorems, TLAPS

Scope == [inv : Worker, depth : 1..MaxDepth, base : 0..MaxOps]
Sent == {"write", "scope", "begin", "release", "rollback"}
ScopeOp == {"scope", "begin", "release", "rollback", "abandon"}
Listed(s) == \E S : s \in Seq(S)
One(b) == IF b THEN 1 ELSE 0

\* The inductive invariant, in parts.  The shapes of the state: the server's
\* savepoints, the host's and the accounts of them are lists of one length.
Shape ==
  /\ joined \in BOOLEAN /\ commit \in BOOLEAN /\ over \in BOOLEAN /\ timer \in BOOLEAN
  /\ spoiled \in BOOLEAN /\ unanswered \in BOOLEAN
  /\ request \in {"serving", "replied", "answered"}
  /\ answer \in {"none", "ok", "not_committed", "error"}
  /\ service \in {"idle", "on", "leaving", "off"}
  /\ pending \in [Actor -> Sent \cup {None}]
  /\ job \in Job \cup {None}
  /\ conn \in {"none", "held", "released"}
  /\ ext \in Worker \cup {None} /\ window \in Worker \cup {None}
  /\ closing \in {"none", "commit", "rollback", "true", "false"}
  /\ scopes \in Seq(Scope) /\ within \in [Actor -> 0..Len(scopes)]
  /\ savepoints \in Seq(Worker)
  /\ ops \in 0..MaxOps /\ faults \in 0..MaxFaults

Server ==
  /\ DOMAIN db = {"state", "role", "marks", "writes"}
  /\ db.state \in {"none", "open", "aborted", "dead"} /\ db.role \in Roles
  /\ Listed(db.marks) /\ Len(db.marks) = Len(savepoints)
  /\ \A k \in 1..Len(savepoints) : db.marks[k].role \in Roles
  /\ Listed(believed) /\ Len(believed) = Len(savepoints) + 1

\* Every open savepoint was an operation sent, and so is what waits or runs.
Counted ==
  Len(savepoints) + One(pending["route"] # None) + One(pending["service"] # None)
    + One(pending["inline"] # None) + One(job # None /\ job.op # "abandon") <= ops

OneScopeEach == \A m, n \in DOMAIN scopes : scopes[m].inv = scopes[n].inv => m = n

\* What waits for its turn was offered in a scope that still is as it was.
QueueFits ==
  /\ over <=> closing # "none"
  /\ over => Len(scopes) = 0
  /\ \A x \in Actor : pending[x] # None =>
       /\ job # None => job.inv # x
       /\ x = "inline" => joined
       /\ pending[x] # "write" => x \in Worker
       /\ pending[x] = "scope" => OwnScope(x) = 0
       /\ ~over /\ pending[x] \in {"begin", "release", "rollback"} => OwnScope(x) > 0
       /\ ~over /\ pending[x] = "begin" => scopes[OwnScope(x)].depth < MaxDepth

\* What runs does so in the innermost scope; a scope that is abandoned still
\* has its first savepoint.
JobFits ==
  job # None =>
    /\ job.inv = "inline" => joined
    /\ closing \notin {"true", "false"}
    /\ OwnScope(job.inv) > 0 => OwnScope(job.inv) = Len(scopes)
    /\ job.op \in ScopeOp => job.inv \in Worker
    /\ ~over /\ job.op \in ScopeOp => OwnScope(job.inv) > 0
    /\ ~over /\ job.op = "begin" => scopes[Len(scopes)].depth < MaxDepth
    /\ ~over /\ job.op = "scope" => scopes[Len(scopes)].depth = 1
    /\ job.op = "abandon" => job.base < Len(savepoints)
    /\ ~over /\ job.op = "abandon" => job.base = scopes[Len(scopes)].base

\* Savepoints lie in their scopes, and the scopes on each other: without gaps
\* as long as every rollback was granted.
Opening == job # None /\ job.op = "scope"
Top(n) == IF n = 0 THEN 0 ELSE scopes[n].base + scopes[n].depth

Nested ==
  /\ Len(scopes) > 0 => Len(savepoints) + One(Opening) >= Top(Len(scopes))
  /\ \A n \in DOMAIN scopes : scopes[n].base >= Top(n - 1)
  /\ ~over /\ ~spoiled =>
       /\ Len(savepoints) + One(Opening) = Top(Len(scopes))
       /\ \A n \in DOMAIN scopes : scopes[n].base = Top(n - 1)
       /\ \A n \in DOMAIN scopes : \A d \in 1..Len(savepoints) :
            d \in scopes[n].base + 1..scopes[n].base + scopes[n].depth =>
              savepoints[d] = scopes[n].inv

\* The role the server has is the one the host believes in, if it believes in
\* one; a joined transaction's savepoints are taken as the caller.
RolesFit ==
  /\ conn = "none" => /\ ~joined /\ ext = None /\ savepoints = <<>>
                      /\ job # None => job.step = "prepare"
  /\ ~joined => /\ window = None
                /\ ext # None => db.role = ext
                /\ Performing => ext = job.inv
  /\ joined => /\ db.state = "open" => db.role = IF window = None THEN "caller" ELSE window
               /\ \A k \in 1..Len(savepoints) : db.marks[k].role = "caller"
               /\ Performing => window = IF job.op = "write" /\ job.inv # "inline"
                                         THEN job.inv ELSE None

\* What the workers were told adds up, at every savepoint and at the end.
UpToIn(b, k) == UNION {b[j] : j \in 1..k}
UpTo(k) == UpToIn(believed, k)

BooksBalance ==
  /\ db.writes = UpTo(Len(savepoints) + 1)
  /\ \A k \in 1..Len(savepoints) : db.marks[k].writes = UpTo(k)

EndFits ==
  /\ conn = "none" => db.writes = {}
  /\ conn = "released" => closing \in {"true", "false"}
  /\ closing = "true" => spoiled \/ kept = db.writes
  /\ closing = "false" => unanswered \/ kept = {}
  /\ closing \notin {"true", "false"} => kept = {} /\ ~unanswered
  /\ closing \in {"commit", "true"} => commit
  /\ request = "serving" => closing \in {"none", "rollback", "false"}
  /\ answer # "none" => request = "answered" /\ closing \in {"true", "false"}
  /\ answer = "ok" => closing = "true"
  /\ answer \in {"error", "not_committed"} => closing = "false"

Control == Shape /\ Counted /\ OneScopeEach /\ QueueFits /\ JobFits /\ Nested
Data == Server /\ RolesFit /\ BooksBalance /\ EndFits
IInv == Control /\ Data

-----------------------------------------------------------------------------
(* Lists.                                                                  *)

LEMMA AppendListed ==
  ASSUME NEW s, Listed(s), NEW e
  PROVE  /\ Listed(Append(s, e))
         /\ Len(Append(s, e)) = Len(s) + 1 /\ Len(s) \in Nat
         /\ \A i \in 1..Len(s) : Append(s, e)[i] = s[i]
         /\ Append(s, e)[Len(s) + 1] = e
<1>1. PICK S : s \in Seq(S) BY DEF Listed
<1> DEFINE T == S \cup {e}
<1>2. s \in Seq(T) BY <1>1
<1>3. e \in T OBVIOUS
<1> HIDE DEF T
<1>4. /\ Append(s, e) \in Seq(T)
      /\ Len(Append(s, e)) = Len(s) + 1
      /\ \A i \in 1..Len(s) : Append(s, e)[i] = s[i]
      /\ Append(s, e)[Len(s) + 1] = e
  BY <1>2, <1>3, AppendProperties
<1>5. Len(s) \in Nat BY <1>1, LenProperties
<1> QED BY <1>4, <1>5 DEF Listed

LEMMA CutTyped ==
  ASSUME NEW S, NEW s \in Seq(S), NEW n \in 0..Len(s)
  PROVE  /\ Cut(s, n) \in Seq(S) /\ Len(Cut(s, n)) = n
         /\ \A i \in 1..n : Cut(s, n)[i] = s[i]
<1>2. Len(s) \in Nat /\ n \in Int /\ n <= Len(s) /\ 0 <= n BY LenProperties
<1>3. \A i \in 1..n : s[i] \in S BY <1>2, LenProperties
<1>4. /\ SubSeq(s, 1, n) \in Seq(S)
      /\ Len(SubSeq(s, 1, n)) = IF 1 <= n THEN n - 1 + 1 ELSE 0
      /\ \A i \in 1..n - 1 + 1 : SubSeq(s, 1, n)[i] = s[1 + i - 1]
  BY <1>2, <1>3, SubSeqProperties
<1> QED BY <1>2, <1>4 DEF Cut

LEMMA CutListed ==
  ASSUME NEW s, Listed(s), NEW n \in 0..Len(s)
  PROVE  /\ Listed(Cut(s, n)) /\ Len(Cut(s, n)) = n
         /\ \A i \in 1..n : Cut(s, n)[i] = s[i]
<1>1. PICK S : s \in Seq(S) BY DEF Listed
<1>2. /\ Cut(s, n) \in Seq(S) /\ Len(Cut(s, n)) = n
      /\ \A i \in 1..n : Cut(s, n)[i] = s[i]
  BY <1>1, CutTyped
<1>3. Listed(Cut(s, n)) BY <1>2 DEF Listed
<1> QED BY <1>2, <1>3

Put(s, i, e) == [s EXCEPT ![i] = e]

LEMMA PutListed ==
  ASSUME NEW s, Listed(s), NEW i \in 1..Len(s), NEW e
  PROVE  /\ Listed(Put(s, i, e)) /\ Len(Put(s, i, e)) = Len(s)
         /\ \A j \in 1..Len(s) : Put(s, i, e)[j] = IF j = i THEN e ELSE s[j]
<1>1. PICK S : s \in Seq(S) BY DEF Listed
<1> DEFINE T == S \cup {e}
<1>2. s \in Seq(T) BY <1>1
<1>3. e \in T OBVIOUS
<1> HIDE DEF T
<1> QED BY <1>2, <1>3, ExceptSeq DEF Listed, Put

-----------------------------------------------------------------------------
(* The scopes, and whose is where.                                         *)

OwnIn(sc, x) ==
  IF \E n \in 1..Len(sc) : sc[n].inv = x
  THEN CHOOSE n \in 1..Len(sc) : sc[n].inv = x ELSE 0
Distinct(sc) == \A m, n \in 1..Len(sc) : sc[m].inv = sc[n].inv => m = n

LEMMA OwnFacts ==
  ASSUME NEW sc \in Seq(Scope), NEW x
  PROVE  /\ OwnIn(sc, x) \in 0..Len(sc)
         /\ OwnIn(sc, x) > 0 => sc[OwnIn(sc, x)].inv = x
         /\ \A n \in 1..Len(sc) : sc[n].inv = x => OwnIn(sc, x) > 0
         /\ Distinct(sc) => \A n \in 1..Len(sc) : sc[n].inv = x => OwnIn(sc, x) = n
<1>1. Len(sc) \in Nat BY LenProperties
<1>2. CASE \E n \in 1..Len(sc) : sc[n].inv = x
  <2>1. OwnIn(sc, x) \in 1..Len(sc) /\ sc[OwnIn(sc, x)].inv = x BY <1>2, Zenon DEF OwnIn
  <2> QED BY <1>1, <2>1 DEF Distinct
<1>3. CASE ~ \E n \in 1..Len(sc) : sc[n].inv = x
  <2>1. OwnIn(sc, x) = 0 BY <1>3 DEF OwnIn
  <2> QED BY <1>1, <1>3, <2>1
<1> QED BY <1>2, <1>3

LEMMA AtMostTwo ==
  ASSUME NEW sc \in Seq(Scope), Distinct(sc)
  PROVE  Len(sc) <= 2
<1>1. Len(sc) \in Nat BY LenProperties
<1>2. \A n \in 1..Len(sc) : sc[n].inv \in {"route", "service"}
  <2>1. \A n \in 1..Len(sc) : sc[n] \in Scope BY LenProperties
  <2> QED BY <2>1 DEF Scope, Worker
<1>3. ASSUME Len(sc) > 2 PROVE FALSE
  <2>1. 1 \in 1..Len(sc) /\ 2 \in 1..Len(sc) /\ 3 \in 1..Len(sc) BY <1>1, <1>3
  <2>2. /\ sc[1].inv \in {"route", "service"} /\ sc[2].inv \in {"route", "service"}
        /\ sc[3].inv \in {"route", "service"}
    BY <1>2, <2>1
  <2>3. sc[1].inv # sc[2].inv /\ sc[1].inv # sc[3].inv /\ sc[2].inv # sc[3].inv
    BY <2>1 DEF Distinct
  <2> QED BY <2>2, <2>3
<1> QED BY <1>1, <1>3

LEMMA OwnAppend ==
  ASSUME NEW sc \in Seq(Scope), Distinct(sc), NEW e \in Scope, OwnIn(sc, e.inv) = 0
  PROVE  /\ Append(sc, e) \in Seq(Scope) /\ Distinct(Append(sc, e))
         /\ Len(Append(sc, e)) = Len(sc) + 1
         /\ \A n \in 1..Len(sc) : Append(sc, e)[n] = sc[n]
         /\ Append(sc, e)[Len(sc) + 1] = e
         /\ \A x : OwnIn(Append(sc, e), x) =
                     IF x = e.inv THEN Len(sc) + 1 ELSE OwnIn(sc, x)
<1> DEFINE t == Append(sc, e)
<1>1. /\ t \in Seq(Scope) /\ Len(t) = Len(sc) + 1
      /\ \A n \in 1..Len(sc) : t[n] = sc[n]
      /\ t[Len(sc) + 1] = e
  BY AppendProperties
<1>2. Len(sc) \in Nat BY LenProperties
<1>3. \A n \in 1..Len(sc) : sc[n].inv # e.inv BY OwnFacts, <1>2
<1> HIDE DEF t
<1>4. Distinct(t)
  <2> SUFFICES ASSUME NEW m \in 1..Len(t), NEW n \in 1..Len(t), t[m].inv = t[n].inv
               PROVE  m = n
    BY DEF Distinct
  <2>1. /\ m \in 1..Len(sc) \/ m = Len(sc) + 1
        /\ n \in 1..Len(sc) \/ n = Len(sc) + 1
    BY <1>1, <1>2
  <2> QED BY <1>1, <1>3, <2>1 DEF Distinct
<1>5. ASSUME NEW x PROVE OwnIn(t, x) = IF x = e.inv THEN Len(sc) + 1 ELSE OwnIn(sc, x)
  <2>1. CASE x = e.inv
    <3>1. Len(sc) + 1 \in 1..Len(t) /\ t[Len(sc) + 1].inv = x BY <1>1, <1>2, <2>1
    <3> QED BY <1>1, <1>4, <2>1, <3>1, OwnFacts
  <2>2. CASE x # e.inv /\ OwnIn(sc, x) > 0
    <3>1. OwnIn(sc, x) \in 1..Len(sc) /\ sc[OwnIn(sc, x)].inv = x BY <1>2, <2>2, OwnFacts
    <3>2. OwnIn(sc, x) \in 1..Len(t) /\ t[OwnIn(sc, x)].inv = x BY <1>1, <1>2, <3>1
    <3> QED BY <1>1, <1>4, <2>2, <3>2, OwnFacts
  <2>3. CASE x # e.inv /\ ~ OwnIn(sc, x) > 0
    <3>1. OwnIn(sc, x) = 0 /\ \A n \in 1..Len(sc) : sc[n].inv # x BY <1>2, <2>3, OwnFacts
    <3>2. \A n \in 1..Len(t) : t[n].inv # x BY <1>1, <1>2, <2>3, <3>1
    <3>3. OwnIn(t, x) = 0 BY <3>2 DEF OwnIn
    <3> QED BY <2>3, <3>1, <3>3
  <2> QED BY <2>1, <2>2, <2>3
<1> QED BY <1>1, <1>4, <1>5 DEF t

LEMMA OwnCut ==
  ASSUME NEW sc \in Seq(Scope), Distinct(sc), Len(sc) > 0
  PROVE  /\ Cut(sc, Len(sc) - 1) \in Seq(Scope) /\ Distinct(Cut(sc, Len(sc) - 1))
         /\ Len(Cut(sc, Len(sc) - 1)) = Len(sc) - 1
         /\ \A n \in 1..Len(sc) - 1 : Cut(sc, Len(sc) - 1)[n] = sc[n]
         /\ \A x : OwnIn(Cut(sc, Len(sc) - 1), x) =
                     IF OwnIn(sc, x) = Len(sc) THEN 0 ELSE OwnIn(sc, x)
<1> DEFINE t == Cut(sc, Len(sc) - 1)
<1>1. Len(sc) \in Nat BY LenProperties
<1>2. /\ t \in Seq(Scope) /\ Len(t) = Len(sc) - 1
      /\ \A n \in 1..Len(sc) - 1 : t[n] = sc[n]
  BY <1>1, CutTyped
<1> HIDE DEF t
<1>3. Distinct(t) BY <1>1, <1>2 DEF Distinct
<1>4. ASSUME NEW x PROVE OwnIn(t, x) = IF OwnIn(sc, x) = Len(sc) THEN 0 ELSE OwnIn(sc, x)
  <2>1. CASE OwnIn(sc, x) \in 1..Len(sc) - 1
    <3>1. sc[OwnIn(sc, x)].inv = x BY <1>1, <2>1, OwnFacts
    <3>2. OwnIn(sc, x) \in 1..Len(t) /\ t[OwnIn(sc, x)].inv = x BY <1>1, <1>2, <2>1, <3>1
    <3> QED BY <1>1, <1>2, <1>3, <2>1, <3>2, OwnFacts
  <2>2. CASE OwnIn(sc, x) \in {0, Len(sc)}
    <3>1. \A n \in 1..Len(sc) - 1 : sc[n].inv # x BY <1>1, <2>2, OwnFacts
    <3>2. \A n \in 1..Len(t) : t[n].inv # x BY <1>1, <1>2, <3>1
    <3>3. OwnIn(t, x) = 0 BY <3>2 DEF OwnIn
    <3> QED BY <2>2, <3>3
  <2>3. OwnIn(sc, x) \in 0..Len(sc) BY OwnFacts
  <2> QED BY <1>1, <2>1, <2>2, <2>3
<1> QED BY <1>2, <1>3, <1>4 DEF t

Deepened(sc, d) == [sc EXCEPT ![Len(sc)].depth = d]

LEMMA OwnDepth ==
  ASSUME NEW sc \in Seq(Scope), Distinct(sc), Len(sc) > 0,
         NEW d \in 1..MaxDepth
  PROVE  /\ Deepened(sc, d) \in Seq(Scope) /\ Distinct(Deepened(sc, d)) /\ Len(Deepened(sc, d)) = Len(sc)
         /\ \A n \in 1..Len(sc) - 1 : Deepened(sc, d)[n] = sc[n]
         /\ Deepened(sc, d)[Len(sc)].inv = sc[Len(sc)].inv /\ Deepened(sc, d)[Len(sc)].base = sc[Len(sc)].base
         /\ Deepened(sc, d)[Len(sc)].depth = d
         /\ \A x : OwnIn(Deepened(sc, d), x) = OwnIn(sc, x)
<1> DEFINE t == Deepened(sc, d)
           e == [sc[Len(sc)] EXCEPT !.depth = d]
<1>1. Len(sc) \in Nat /\ sc[Len(sc)] \in Scope BY LenProperties
<1>2. e \in Scope /\ e.inv = sc[Len(sc)].inv /\ e.base = sc[Len(sc)].base /\ e.depth = d
  BY <1>1 DEF Scope
<1>3. t = [sc EXCEPT ![Len(sc)] = e] BY DEF Deepened
<1> HIDE DEF e, t
<1>4. /\ t \in Seq(Scope) /\ Len(t) = Len(sc)
      /\ \A n \in 1..Len(sc) : t[n] = IF n = Len(sc) THEN e ELSE sc[n]
  BY <1>1, <1>2, <1>3, ExceptSeq
<1>5. \A n \in 1..Len(sc) : t[n].inv = sc[n].inv BY <1>2, <1>4
<1>6. Distinct(t) BY <1>4, <1>5 DEF Distinct
<1>7. ASSUME NEW x PROVE OwnIn(t, x) = OwnIn(sc, x)
  <2>1. CASE OwnIn(sc, x) \in 1..Len(sc)
    <3>1. t[OwnIn(sc, x)].inv = x BY <1>1, <1>5, <2>1, OwnFacts
    <3> QED BY <1>4, <1>6, <2>1, <3>1, OwnFacts
  <2>2. CASE OwnIn(sc, x) = 0
    <3>1. \A n \in 1..Len(t) : t[n].inv # x BY <1>1, <1>4, <1>5, <2>2, OwnFacts
    <3> QED BY <2>2, <3>1 DEF OwnIn
  <2>3. OwnIn(sc, x) \in 0..Len(sc) BY OwnFacts
  <2> QED BY <1>1, <2>1, <2>2, <2>3
<1>8. \A n \in 1..Len(sc) - 1 : t[n] = sc[n] BY <1>1, <1>4
<1>9. t[Len(sc)] = e
  <2>1. Len(sc) \in 1..Len(sc) BY <1>1
  <2> QED BY <1>4, <2>1
<1>10. /\ t[Len(sc)].inv = sc[Len(sc)].inv /\ t[Len(sc)].base = sc[Len(sc)].base
       /\ t[Len(sc)].depth = d
  BY <1>2, <1>9
<1> QED BY <1>4, <1>6, <1>7, <1>8, <1>10 DEF t

-----------------------------------------------------------------------------
(* The end of a job, for its scope.                                        *)

ClosedLast ==
  /\ Len(scopes) > 0 /\ Len(scopes') = Len(scopes) - 1
  /\ \A n \in 1..Len(scopes) - 1 : scopes'[n] = scopes[n]

NewDepth(d) ==
  /\ Len(scopes) > 0 /\ Len(scopes') = Len(scopes)
  /\ \A n \in 1..Len(scopes) - 1 : scopes'[n] = scopes[n]
  /\ scopes'[Len(scopes)].inv = scopes[Len(scopes)].inv
  /\ scopes'[Len(scopes)].base = scopes[Len(scopes)].base
  /\ scopes'[Len(scopes)].depth = d

\* What becomes of the scopes of the others: nothing.
OthersKeep ==
  \A x : x # job.inv =>
    /\ OwnIn(scopes', x) = OwnIn(scopes, x)
    /\ OwnIn(scopes, x) > 0 => scopes'[OwnIn(scopes, x)] = scopes[OwnIn(scopes, x)]

LEMMA ScopeFacts ==
  ASSUME Shape, OneScopeEach
  PROVE  /\ scopes \in Seq(Scope) /\ Len(scopes) \in Nat /\ DOMAIN scopes = 1..Len(scopes)
         /\ Distinct(scopes)
         /\ \A n \in 1..Len(scopes) :
              /\ scopes[n] \in Scope /\ scopes[n].depth \in 1..MaxDepth
              /\ scopes[n].base \in 0..MaxOps /\ scopes[n].inv \in Worker
         /\ \A x : OwnScope(x) = OwnIn(scopes, x)
<1>1. scopes \in Seq(Scope) BY DEF Shape
<1>2. /\ Len(scopes) \in Nat /\ DOMAIN scopes = 1..Len(scopes)
      /\ \A n \in 1..Len(scopes) : scopes[n] \in Scope
  BY <1>1, LenProperties
<1>3. Distinct(scopes) BY <1>2 DEF OneScopeEach, Distinct
<1>4. \A n \in 1..Len(scopes) :
        /\ scopes[n].depth \in 1..MaxDepth
        /\ scopes[n].base \in 0..MaxOps /\ scopes[n].inv \in Worker
  BY <1>2 DEF Scope
<1>5. \A x : OwnScope(x) = OwnIn(scopes, x) BY DEF OwnScope, OwnIn
<1> QED BY <1>1, <1>2, <1>3, <1>4, <1>5

LEMMA LastClosed ==
  ASSUME Shape, OneScopeEach, job # None,
         OwnScope(job.inv) > 0, OwnScope(job.inv) = Len(scopes),
         scopes' = Cut(scopes, Len(scopes) - 1)
  PROVE  scopes' \in Seq(Scope) /\ OneScopeEach' /\ ClosedLast /\ OthersKeep
<1>1. /\ scopes \in Seq(Scope) /\ Len(scopes) \in Nat /\ Distinct(scopes)
      /\ \A x : OwnScope(x) = OwnIn(scopes, x)
  BY ScopeFacts
<1>2. Len(scopes) > 0 OBVIOUS
<1>3. /\ scopes' \in Seq(Scope) /\ Distinct(scopes') /\ Len(scopes') = Len(scopes) - 1
      /\ \A n \in 1..Len(scopes) - 1 : scopes'[n] = scopes[n]
      /\ \A x : OwnIn(scopes', x) = IF OwnIn(scopes, x) = Len(scopes) THEN 0 ELSE OwnIn(scopes, x)
  BY <1>1, <1>2, OwnCut
<1>4. ClosedLast BY <1>2, <1>3 DEF ClosedLast
<1>5. OneScopeEach'
  <2>1. DOMAIN scopes' = 1..Len(scopes') BY <1>3, LenProperties
  <2> QED BY <1>3, <2>1 DEF OneScopeEach, Distinct
<1>6. OthersKeep
  <2> SUFFICES ASSUME NEW x, x # job.inv
               PROVE  /\ OwnIn(scopes', x) = OwnIn(scopes, x)
                      /\ OwnIn(scopes, x) > 0 =>
                           scopes'[OwnIn(scopes, x)] = scopes[OwnIn(scopes, x)]
    BY DEF OthersKeep
  <2>1. OwnIn(scopes, x) \in 0..Len(scopes) BY <1>1, OwnFacts
  <2>2. OwnIn(scopes, x) # Len(scopes)
    <3>1. scopes[Len(scopes)].inv = job.inv BY <1>1, OwnFacts
    <3>2. OwnIn(scopes, x) = Len(scopes) => scopes[Len(scopes)].inv = x BY <1>1, <1>2, OwnFacts
    <3> QED BY <3>1, <3>2
  <2>3. OwnIn(scopes', x) = OwnIn(scopes, x) BY <1>3, <2>2
  <2> QED BY <1>1, <1>3, <2>1, <2>2, <2>3
<1> QED BY <1>3, <1>4, <1>5, <1>6

LEMMA LastDepth ==
  ASSUME Shape, OneScopeEach, job # None,
         OwnScope(job.inv) > 0, OwnScope(job.inv) = Len(scopes), NEW d \in 1..MaxDepth,
         scopes' = [scopes EXCEPT ![Len(scopes)].depth = d]
  PROVE  scopes' \in Seq(Scope) /\ OneScopeEach' /\ NewDepth(d) /\ OthersKeep
<1>1. /\ scopes \in Seq(Scope) /\ Len(scopes) \in Nat /\ Distinct(scopes)
      /\ \A x : OwnScope(x) = OwnIn(scopes, x)
  BY ScopeFacts
<1>2. Len(scopes) > 0 OBVIOUS
<1>3. /\ scopes' \in Seq(Scope) /\ Distinct(scopes') /\ Len(scopes') = Len(scopes)
      /\ \A n \in 1..Len(scopes) - 1 : scopes'[n] = scopes[n]
      /\ scopes'[Len(scopes)].inv = scopes[Len(scopes)].inv
      /\ scopes'[Len(scopes)].base = scopes[Len(scopes)].base
      /\ scopes'[Len(scopes)].depth = d
      /\ \A x : OwnIn(scopes', x) = OwnIn(scopes, x)
  <2> DEFINE t == Deepened(scopes, d)
  <2>1. /\ t \in Seq(Scope) /\ Distinct(t) /\ Len(t) = Len(scopes)
        /\ \A n \in 1..Len(scopes) - 1 : t[n] = scopes[n]
        /\ t[Len(scopes)].inv = scopes[Len(scopes)].inv
        /\ t[Len(scopes)].base = scopes[Len(scopes)].base
        /\ t[Len(scopes)].depth = d
        /\ \A x : OwnIn(t, x) = OwnIn(scopes, x)
    BY <1>1, <1>2, OwnDepth
  <2>2. scopes' = t BY DEF Deepened
  <2> HIDE DEF t
  <2> QED BY <2>1, <2>2
<1>4. NewDepth(d) BY <1>2, <1>3 DEF NewDepth
<1>5. OneScopeEach'
  <2>1. DOMAIN scopes' = 1..Len(scopes') BY <1>3, LenProperties
  <2> QED BY <1>3, <2>1 DEF OneScopeEach, Distinct
<1>6. OthersKeep
  <2> SUFFICES ASSUME NEW x, x # job.inv
               PROVE  /\ OwnIn(scopes', x) = OwnIn(scopes, x)
                      /\ OwnIn(scopes, x) > 0 =>
                           scopes'[OwnIn(scopes, x)] = scopes[OwnIn(scopes, x)]
    BY DEF OthersKeep
  <2>1. OwnIn(scopes, x) \in 0..Len(scopes) BY <1>1, OwnFacts
  <2>2. OwnIn(scopes, x) # Len(scopes)
    <3>1. scopes[Len(scopes)].inv = job.inv BY <1>1, OwnFacts
    <3>2. OwnIn(scopes, x) = Len(scopes) => scopes[Len(scopes)].inv = x BY <1>1, <1>2, OwnFacts
    <3> QED BY <3>1, <3>2
  <2>3. OwnIn(scopes', x) = OwnIn(scopes, x) BY <1>3
  <2>4. OwnIn(scopes, x) > 0 => OwnIn(scopes, x) \in 1..Len(scopes) - 1 BY <1>1, <2>1, <2>2
  <2>5. \A n \in 1..Len(scopes) - 1 : scopes'[n] = scopes[n] BY <1>3
  <2> QED BY <2>3, <2>4, <2>5
<1> QED BY <1>3, <1>4, <1>5, <1>6

\* ScopesAfter, case by case.  A transaction that is over has no scopes left.
ScopesEnd(ok) ==
  LET N == Len(scopes) IN
  \/ /\ over \/ job.op = "write" \/ (job.op = "scope" /\ ok)
             \/ (job.op \in {"begin", "release"} /\ ~ok)
     /\ scopes' = scopes
  \/ /\ ~over /\ job.op = "begin" /\ ok
     /\ NewDepth(scopes[N].depth + 1)
  \/ /\ ~over
     /\ (job.op = "release" /\ ok) \/ job.op = "rollback"
     /\ scopes[N].depth > 1
     /\ NewDepth(scopes[N].depth - 1)
  \/ /\ ~over
     /\ (job.op = "release" /\ ok) \/ job.op = "rollback"
     /\ scopes[N].depth = 1 /\ ClosedLast
  \/ /\ ~over
     /\ (job.op = "scope" /\ ~ok) \/ job.op = "abandon"
     /\ ClosedLast

LEMMA EndScopes ==
  ASSUME Shape, OneScopeEach, QueueFits, JobFits, job # None, NEW ok \in BOOLEAN, EndJob(ok)
  PROVE  /\ scopes' \in Seq(Scope) /\ OneScopeEach' /\ OthersKeep /\ ScopesEnd(ok)
         /\ within' \in [Actor -> 0..Len(scopes')]
<1>1. /\ scopes \in Seq(Scope) /\ Len(scopes) \in Nat
      /\ \A n \in 1..Len(scopes) : scopes[n].depth \in 1..MaxDepth
      /\ within \in [Actor -> 0..Len(scopes)] /\ MaxDepth \in Nat
  BY ScopeFacts, ConstantsAssumption DEF Shape
<1>2. job.op \in {"write", "scope", "begin", "release", "rollback", "abandon"}
  BY DEF Shape, Job, Op
<1>3. scopes' = ScopesAfter(job.inv, job.op, ok) BY DEF EndJob
<1>4. scopes' \in Seq(Scope) /\ OneScopeEach' /\ OthersKeep /\ ScopesEnd(ok)
  <2>1. ASSUME scopes' = scopes,
               over \/ job.op = "write" \/ (job.op = "scope" /\ ok)
                    \/ (job.op \in {"begin", "release"} /\ ~ok)
        PROVE  scopes' \in Seq(Scope) /\ OneScopeEach' /\ OthersKeep /\ ScopesEnd(ok)
    BY <1>1, <2>1 DEF OneScopeEach, OthersKeep, ScopesEnd
  <2>2. CASE over
    <3>1. OwnScope(job.inv) = 0
      <4>1. Len(scopes) = 0 BY <2>2 DEF QueueFits
      <4>2. OwnScope(job.inv) = OwnIn(scopes, job.inv) BY ScopeFacts
      <4>3. OwnIn(scopes, job.inv) \in 0..Len(scopes) BY <1>1, OwnFacts
      <4> QED BY <4>1, <4>2, <4>3
    <3> QED BY <1>3, <2>1, <2>2, <3>1 DEF ScopesAfter
  <2>3. CASE ~over /\ job.op = "write"
    BY <1>3, <2>1, <2>3 DEF ScopesAfter
  <2>4. CASE ~over /\ job.op # "write"
    <3>1. job.op \in ScopeOp BY <1>2, <2>4 DEF ScopeOp
    <3>2. OwnScope(job.inv) > 0 /\ OwnScope(job.inv) = Len(scopes) /\ Len(scopes) \in 1..Len(scopes)
      BY <1>1, <2>4, <3>1 DEF JobFits
    <3> DEFINE d == scopes[Len(scopes)].depth
    <3>3. d \in 1..MaxDepth BY <1>1, <3>2
    <3>4. CASE job.op = "scope" /\ ok BY <1>3, <2>1, <3>2, <3>4 DEF ScopesAfter
    <3>5. CASE job.op \in {"begin", "release"} /\ ~ok
      BY <1>3, <2>1, <3>2, <3>5 DEF ScopesAfter
    <3>6. CASE (job.op = "scope" /\ ~ok) \/ job.op = "abandon"
      <4>1. scopes' = Cut(scopes, Len(scopes) - 1) BY <1>3, <3>2, <3>6 DEF ScopesAfter
      <4> QED BY <2>4, <3>2, <3>6, <4>1, LastClosed DEF ScopesEnd
    <3>7. CASE job.op = "begin" /\ ok
      <4>1. scopes' = [scopes EXCEPT ![Len(scopes)].depth = d + 1]
        BY <1>3, <3>2, <3>7 DEF ScopesAfter
      <4>2. d + 1 \in 1..MaxDepth BY <1>1, <2>4, <3>3, <3>7 DEF JobFits
      <4> QED BY <2>4, <3>2, <3>7, <4>1, <4>2, LastDepth DEF ScopesEnd
    <3>8. CASE (job.op = "release" /\ ok) \/ job.op = "rollback"
      <4>1. scopes' = Shallower(Len(scopes)) BY <1>3, <3>2, <3>8 DEF ScopesAfter
      <4>2. CASE d = 1
        <5>1. scopes' = Cut(scopes, Len(scopes) - 1) BY <4>1, <4>2 DEF Shallower
        <5> QED BY <2>4, <3>2, <3>8, <4>2, <5>1, LastClosed DEF ScopesEnd
      <4>3. CASE d # 1
        <5>1. scopes' = [scopes EXCEPT ![Len(scopes)].depth = d - 1]
          BY <4>1, <4>3 DEF Shallower
        <5>2. d - 1 \in 1..MaxDepth /\ d > 1 BY <1>1, <3>3, <4>3
        <5> QED BY <2>4, <3>2, <3>8, <5>1, <5>2, LastDepth DEF ScopesEnd
      <4> QED BY <4>2, <4>3
    <3> QED BY <1>2, <2>4, <3>4, <3>5, <3>6, <3>7, <3>8
  <2> QED BY <2>2, <2>3, <2>4
<1>5. within' \in [Actor -> 0..Len(scopes')]
  <2>1. Len(scopes') \in Nat BY <1>4, LenProperties
  <2>2. within' = [x \in Actor |->
                    IF within[x] > Len(scopes') THEN Len(scopes') ELSE within[x]]
    BY DEF EndJob
  <2> QED BY <1>1, <2>1, <2>2
<1> QED BY <1>4, <1>5

\* What the end of a job makes of the host's list of savepoints.
SavepointsMove(ok) ==
  /\ ok /\ job.op \in {"scope", "begin"} => savepoints' = Append(savepoints, job.inv)
  /\ ok /\ job.op \in {"release", "rollback"} =>
       Len(savepoints) > 0 /\ savepoints' = Cut(savepoints, Len(savepoints) - 1)
  /\ ok /\ job.op = "abandon" => savepoints' = Cut(savepoints, job.base)
  /\ ~ok \/ job.op = "write" => savepoints' = savepoints

LEMMA SavepointsMoved ==
  ASSUME Shape, JobFits, job # None, NEW ok \in BOOLEAN, SavepointsMove(ok)
  PROVE  /\ savepoints' \in Seq(Worker)
         /\ Len(savepoints) \in Nat /\ Len(savepoints') \in Nat
         /\ ok /\ job.op \in {"scope", "begin"} =>
              /\ Len(savepoints') = Len(savepoints) + 1
              /\ \A d \in 1..Len(savepoints) : savepoints'[d] = savepoints[d]
              /\ savepoints'[Len(savepoints) + 1] = job.inv
         /\ ok /\ job.op \in {"release", "rollback"} =>
              /\ Len(savepoints') = Len(savepoints) - 1
              /\ \A d \in 1..Len(savepoints') : savepoints'[d] = savepoints[d]
         /\ ok /\ job.op = "abandon" =>
              /\ Len(savepoints') = job.base /\ job.base < Len(savepoints)
              /\ \A d \in 1..Len(savepoints') : savepoints'[d] = savepoints[d]
         /\ ~ok \/ job.op = "write" => savepoints' = savepoints
<1>1. /\ savepoints \in Seq(Worker) /\ job \in Job /\ Len(savepoints) \in Nat
  BY LenProperties DEF Shape
<1>2. /\ job.op \in {"write", "scope", "begin", "release", "rollback", "abandon"}
      /\ job.base \in Nat
  BY <1>1, ConstantsAssumption DEF Job, Op
<1>3. CASE ok /\ job.op \in {"scope", "begin"}
  <2>1. job.inv \in Worker BY <1>3 DEF JobFits, ScopeOp
  <2>2. savepoints' = Append(savepoints, job.inv) BY <1>3 DEF SavepointsMove
  <2>3. /\ savepoints' \in Seq(Worker)
        /\ Len(savepoints') = Len(savepoints) + 1
        /\ \A d \in 1..Len(savepoints) : savepoints'[d] = savepoints[d]
        /\ savepoints'[Len(savepoints) + 1] = job.inv
    BY <1>1, <2>1, <2>2, AppendProperties
  <2> QED BY <1>1, <1>3, <2>3
<1>4. CASE ok /\ job.op \in {"release", "rollback"}
  <2>1. savepoints' = Cut(savepoints, Len(savepoints) - 1) /\ Len(savepoints) > 0
    BY <1>4 DEF SavepointsMove
  <2>2. Len(savepoints) - 1 \in 0..Len(savepoints) BY <1>1, <2>1
  <2>3. /\ savepoints' \in Seq(Worker) /\ Len(savepoints') = Len(savepoints) - 1
        /\ \A d \in 1..Len(savepoints) - 1 : savepoints'[d] = savepoints[d]
    BY <1>1, <2>1, <2>2, CutTyped
  <2> QED BY <1>1, <1>4, <2>1, <2>3
<1>5. CASE ok /\ job.op = "abandon"
  <2>1. savepoints' = Cut(savepoints, job.base) BY <1>5 DEF SavepointsMove
  <2>2. job.base \in 0..Len(savepoints) /\ job.base < Len(savepoints)
    BY <1>1, <1>2, <1>5 DEF JobFits
  <2>3. /\ savepoints' \in Seq(Worker) /\ Len(savepoints') = job.base
        /\ \A d \in 1..job.base : savepoints'[d] = savepoints[d]
    BY <1>1, <2>1, <2>2, CutTyped
  <2> QED BY <1>1, <1>2, <1>5, <2>2, <2>3
<1>6. CASE ~ok \/ job.op = "write"
  <2>1. savepoints' = savepoints BY <1>6 DEF SavepointsMove
  <2> QED BY <1>1, <1>6, <2>1
<1> QED BY <1>2, <1>3, <1>4, <1>5, <1>6

\* A job that ends leaves savepoints and scopes on each other.
LEMMA EndNested ==
  ASSUME Shape, OneScopeEach, QueueFits, JobFits, Nested,
         job # None, NEW ok \in BOOLEAN, EndJob(ok), SavepointsMove(ok)
  PROVE  Nested'
<1> DEFINE N == Len(scopes)
           L == Len(savepoints)
           b(n) == scopes[n].base
           dp(n) == scopes[n].depth
<1>1. N \in 0..2 /\ DOMAIN scopes = 1..N
  BY ScopeFacts, AtMostTwo
<1>2. \A n \in 1..N : b(n) \in Nat /\ dp(n) \in Nat /\ dp(n) >= 1
  BY ScopeFacts, ConstantsAssumption
<1>3. L \in Nat /\ Len(savepoints') \in Nat BY SavepointsMoved
<1>4. /\ scopes' \in Seq(Scope) /\ ScopesEnd(ok) BY EndScopes
<1>5. DOMAIN scopes' = 1..Len(scopes') /\ Len(scopes') \in Nat BY <1>4, LenProperties
<1>6. job' = None /\ over' = over
      /\ spoiled' = (spoiled \/ (job.op \in {"rollback", "abandon"} /\ ~ok))
  BY DEF EndJob, endVars
<1>7. job.op \in {"write", "scope", "begin", "release", "rollback", "abandon"}
  BY DEF Shape, Job, Op
<1>8. ~Opening' BY <1>6 DEF Opening
<1>9. over => N = 0 BY DEF QueueFits
<1>10. ~over /\ job.op # "write" => N \in 1..2 /\ scopes[N].inv = job.inv
  <2>1. SUFFICES ASSUME ~over, job.op # "write" PROVE N \in 1..2 /\ scopes[N].inv = job.inv
    OBVIOUS
  <2>2. OwnScope(job.inv) > 0 /\ OwnScope(job.inv) = N BY <1>7, <2>1 DEF JobFits, ScopeOp
  <2>3. OwnIn(scopes, job.inv) > 0 /\ OwnIn(scopes, job.inv) = N BY <2>2, ScopeFacts
  <2> QED BY <1>1, <2>3, ScopeFacts, OwnFacts
\* The facts on both sides in numbers.
<1>11. /\ N > 0 => L + One(Opening) >= b(N) + dp(N)
       /\ N = 2 => b(2) >= b(1) + dp(1)
       /\ ~over /\ ~spoiled =>
            /\ L + One(Opening) = IF N = 0 THEN 0 ELSE b(N) + dp(N)
            /\ N > 0 => b(1) = 0
            /\ N = 2 => b(2) = b(1) + dp(1)
            /\ \A n \in 1..N : \A d \in 1..L :
                 d > b(n) /\ d <= b(n) + dp(n) => savepoints[d] = scopes[n].inv
  <2>1. N > 0 => L + One(Opening) >= b(N) + dp(N) BY <1>1 DEF Nested, Top
  <2>2. N = 2 => b(2) >= b(1) + dp(1) BY <1>1 DEF Nested, Top
  <2>3. ASSUME ~over, ~spoiled
        PROVE  /\ L + One(Opening) = IF N = 0 THEN 0 ELSE b(N) + dp(N)
               /\ N > 0 => b(1) = 0
               /\ N = 2 => b(2) = b(1) + dp(1)
               /\ \A n \in 1..N : \A d \in 1..L :
                    d > b(n) /\ d <= b(n) + dp(n) => savepoints[d] = scopes[n].inv
    <3>1. L + One(Opening) = IF N = 0 THEN 0 ELSE b(N) + dp(N) BY <1>1, <2>3 DEF Nested, Top
    <3>2. N > 0 => b(1) = 0
      <4>1. N > 0 => 1 \in DOMAIN scopes BY <1>1
      <4>2. N > 0 => b(1) = Top(1 - 1) BY <2>3, <4>1 DEF Nested
      <4> QED BY <4>2 DEF Top
    <3>3. N = 2 => b(2) = b(1) + dp(1) BY <1>1, <2>3 DEF Nested, Top
    <3>4. \A n \in 1..N : \A d \in 1..L : d \in b(n) + 1..b(n) + dp(n) => savepoints[d] = scopes[n].inv
      BY <1>1, <2>3 DEF Nested
    <3>5. \A n \in 1..N : \A d \in 1..L : d > b(n) /\ d <= b(n) + dp(n) => d \in b(n) + 1..b(n) + dp(n)
      BY <1>1, <1>2, <1>3
    <3> QED BY <3>1, <3>2, <3>3, <3>4, <3>5
  <2> QED BY <2>1, <2>2, <2>3
<1>12. SUFFICES
         /\ Len(scopes') > 0 =>
              Len(savepoints') >= scopes'[Len(scopes')].base + scopes'[Len(scopes')].depth
         /\ Len(scopes') \in 0..2
         /\ \A n \in 1..Len(scopes') : scopes'[n].base \in Nat /\ scopes'[n].depth \in Nat
         /\ Len(scopes') = 2 => scopes'[2].base >= scopes'[1].base + scopes'[1].depth
         /\ ~over /\ ~spoiled' =>
            /\ Len(savepoints') = IF Len(scopes') = 0 THEN 0
                                  ELSE scopes'[Len(scopes')].base + scopes'[Len(scopes')].depth
            /\ Len(scopes') > 0 => scopes'[1].base = 0
            /\ Len(scopes') = 2 => scopes'[2].base = scopes'[1].base + scopes'[1].depth
            /\ \A n \in 1..Len(scopes') : \A d \in 1..Len(savepoints') :
                 d > scopes'[n].base /\ d <= scopes'[n].base + scopes'[n].depth =>
                   savepoints'[d] = scopes'[n].inv
  <2>1. One(Opening)' = 0 BY <1>8 DEF One
  <2>2. Len(scopes') > 0 => Len(savepoints') + One(Opening)' >= Top(Len(scopes))'
    BY <1>3, <1>5, <1>12, <2>1 DEF Top
  <2>3. \A n \in DOMAIN scopes' : scopes'[n].base >= Top(n - 1)'
    <3>1. SUFFICES ASSUME NEW n \in 1..Len(scopes') PROVE scopes'[n].base >= Top(n - 1)'
      BY <1>5
    <3>2. n = 1 \/ (n = 2 /\ Len(scopes') = 2) BY <1>5, <1>12
    <3> QED BY <1>12, <3>2 DEF Top
  <2>4. ASSUME ~over, ~spoiled'
        PROVE  /\ Len(savepoints') + One(Opening)' = Top(Len(scopes))'
               /\ \A n \in DOMAIN scopes' : scopes'[n].base = Top(n - 1)'
               /\ \A n \in DOMAIN scopes' : \A d \in 1..Len(savepoints') :
                    d \in scopes'[n].base + 1..scopes'[n].base + scopes'[n].depth =>
                      savepoints'[d] = scopes'[n].inv
    <3>1. Len(savepoints') + One(Opening)' = Top(Len(scopes))'
      BY <1>3, <1>5, <1>12, <2>1, <2>4 DEF Top
    <3>2. \A n \in DOMAIN scopes' : scopes'[n].base = Top(n - 1)'
      <4>1. SUFFICES ASSUME NEW n \in 1..Len(scopes') PROVE scopes'[n].base = Top(n - 1)'
        BY <1>5
      <4>2. n = 1 \/ (n = 2 /\ Len(scopes') = 2) BY <1>5, <1>12
      <4> QED BY <1>12, <2>4, <4>2 DEF Top
    <3>3. SUFFICES ASSUME NEW n \in 1..Len(scopes'), NEW d \in 1..Len(savepoints'),
                          d \in scopes'[n].base + 1..scopes'[n].base + scopes'[n].depth
                   PROVE  savepoints'[d] = scopes'[n].inv
      BY <1>5, <3>1, <3>2
    <3>4. d > scopes'[n].base /\ d <= scopes'[n].base + scopes'[n].depth
      BY <1>3, <1>12, <3>3
    <3> QED BY <1>12, <2>4, <3>4
  <2> QED BY <1>6, <2>2, <2>3, <2>4 DEF Nested
<1> HIDE DEF N, L, b, dp
<1>13. CASE scopes' = scopes /\ over
  BY <1>9, <1>13 DEF N
<1>14. CASE scopes' = scopes /\ ~over /\ (job.op = "write" \/ ~ok) /\ (~spoiled' => ~spoiled) /\ ~Opening
  <2>1. Len(savepoints') = L /\ savepoints' = savepoints BY <1>14, SavepointsMoved DEF L
  <2>2. One(Opening) = 0 BY <1>14 DEF One
  <2> QED BY <1>1, <1>2, <1>3, <1>11, <1>14, <2>1, <2>2 DEF N, b, dp
<1>15. CASE scopes' = scopes /\ ~over /\ job.op = "scope" /\ ok
  <2>1. /\ Len(savepoints') = L + 1 /\ savepoints'[L + 1] = job.inv
        /\ \A d \in 1..L : savepoints'[d] = savepoints[d]
    BY <1>15, SavepointsMoved DEF L
  <2>2. One(Opening) = 1 BY <1>15 DEF Opening, One
  <2>3. N \in 1..2 /\ scopes[N].inv = job.inv /\ (~spoiled' => ~spoiled) BY <1>6, <1>10, <1>15
  <2>4. ASSUME ~over, ~spoiled', NEW n \in 1..N, NEW d \in 1..L + 1,
               d > b(n), d <= b(n) + dp(n)
        PROVE  savepoints'[d] = scopes[n].inv
    <3>1. CASE d \in 1..L BY <1>11, <2>1, <2>3, <2>4, <3>1
    <3>2. CASE d = L + 1
      <4>1. n = N BY <1>1, <1>2, <1>3, <1>11, <2>2, <2>3, <2>4, <3>2
      <4> QED BY <2>1, <2>3, <3>2, <4>1
    <3> QED BY <1>3, <2>4, <3>1, <3>2
  <2> QED BY <1>1, <1>2, <1>3, <1>11, <1>15, <2>1, <2>2, <2>3, <2>4 DEF N, b, dp
<1>16. CASE ~over /\ job.op = "begin" /\ ok /\ NewDepth(scopes[Len(scopes)].depth + 1)
  <2>1. /\ Len(savepoints') = L + 1 /\ savepoints'[L + 1] = job.inv
        /\ \A d \in 1..L : savepoints'[d] = savepoints[d]
    BY <1>16, SavepointsMoved DEF L
  <2>2. One(Opening) = 0 BY <1>16 DEF Opening, One
  <2>3. N \in 1..2 /\ scopes[N].inv = job.inv /\ (~spoiled' => ~spoiled) BY <1>6, <1>10, <1>16
  <2>4. /\ Len(scopes') = N
        /\ \A n \in 1..N : scopes'[n].base = b(n) /\ scopes'[n].inv = scopes[n].inv
        /\ \A n \in 1..N : scopes'[n].depth = IF n = N THEN dp(n) + 1 ELSE dp(n)
    <3>1. /\ Len(scopes') = Len(scopes)
          /\ \A n \in 1..Len(scopes) - 1 : scopes'[n] = scopes[n]
          /\ scopes'[Len(scopes)].inv = scopes[Len(scopes)].inv
          /\ scopes'[Len(scopes)].base = scopes[Len(scopes)].base
          /\ scopes'[Len(scopes)].depth = scopes[Len(scopes)].depth + 1
      BY <1>16 DEF NewDepth
    <3>2. \A n \in 1..N : n = N \/ n \in 1..N - 1 BY <1>1
    <3> QED BY <3>1, <3>2 DEF N, b, dp
  <2>5. ASSUME ~over, ~spoiled', NEW n \in 1..N, NEW d \in 1..L + 1,
               d > b(n), d <= b(n) + scopes'[n].depth
        PROVE  savepoints'[d] = scopes[n].inv
    <3>1. CASE d \in 1..L
      <4>1. d <= b(n) + dp(n) BY <1>1, <1>2, <1>3, <1>11, <2>2, <2>3, <2>4, <2>5, <3>1
      <4> QED BY <1>11, <2>1, <2>3, <2>5, <3>1, <4>1
    <3>2. CASE d = L + 1
      <4>1. n = N BY <1>1, <1>2, <1>3, <1>11, <2>2, <2>3, <2>4, <2>5, <3>2
      <4> QED BY <2>1, <2>3, <3>2, <4>1
    <3> QED BY <1>3, <2>5, <3>1, <3>2
  <2>6. /\ N > 0 => L + 1 >= scopes'[N].base + scopes'[N].depth
        /\ N = 2 => scopes'[2].base >= scopes'[1].base + scopes'[1].depth
        /\ \A n \in 1..N : scopes'[n].base \in Nat /\ scopes'[n].depth \in Nat
    BY <1>1, <1>2, <1>3, <1>11, <2>2, <2>3, <2>4
  <2>7. ~over /\ ~spoiled' =>
            /\ L + 1 = scopes'[N].base + scopes'[N].depth
            /\ scopes'[1].base = 0
            /\ N = 2 => scopes'[2].base = scopes'[1].base + scopes'[1].depth
    BY <1>1, <1>2, <1>3, <1>11, <2>2, <2>3, <2>4
  <2>8. ~over /\ ~spoiled' => \A n \in 1..N : \A d \in 1..L + 1 :
            d > scopes'[n].base /\ d <= scopes'[n].base + scopes'[n].depth =>
               savepoints'[d] = scopes'[n].inv
    BY <2>4, <2>5
  <2> QED BY <1>1, <2>1, <2>3, <2>4, <2>6, <2>7, <2>8
\* A savepoint less: by a rollback that was granted, or not.
<1>17. ASSUME ~over, (job.op = "release" /\ ok) \/ job.op = "rollback"
       PROVE  /\ Len(savepoints') \in {L - 1, L}
              /\ ~spoiled' => Len(savepoints') = L - 1
              /\ \A d \in 1..Len(savepoints') : savepoints'[d] = savepoints[d]
              /\ One(Opening) = 0 /\ N \in 1..2
              /\ ~spoiled' => ~spoiled
  <2>1. One(Opening) = 0 BY <1>17 DEF Opening, One
  <2>2. N \in 1..2 /\ (~spoiled' => ~spoiled) BY <1>6, <1>10, <1>17
  <2>3. CASE ok BY <1>17, <2>1, <2>2, <2>3, SavepointsMoved DEF L
  <2>4. CASE ~ok
    <3>1. spoiled' /\ savepoints' = savepoints BY <1>6, <1>17, <2>4, SavepointsMoved
    <3> QED BY <2>1, <2>2, <3>1 DEF L
  <2> QED BY <2>3, <2>4
<1>18. CASE /\ ~over
            /\ (job.op = "release" /\ ok) \/ job.op = "rollback"
            /\ scopes[Len(scopes)].depth > 1 /\ NewDepth(scopes[Len(scopes)].depth - 1)
  <2>1. /\ Len(savepoints') \in {L - 1, L}
        /\ ~spoiled' => Len(savepoints') = L - 1
        /\ \A d \in 1..Len(savepoints') : savepoints'[d] = savepoints[d]
        /\ One(Opening) = 0 /\ N \in 1..2
        /\ ~spoiled' => ~spoiled
    BY <1>17, <1>18
  <2>2. /\ Len(scopes') = N
        /\ \A n \in 1..N : scopes'[n].base = b(n) /\ scopes'[n].inv = scopes[n].inv
        /\ \A n \in 1..N : scopes'[n].depth = IF n = N THEN dp(n) - 1 ELSE dp(n)
        /\ dp(N) > 1
    BY <1>1, <1>18 DEF NewDepth, N, b, dp
  <2>3. /\ Len(savepoints') >= scopes'[N].base + scopes'[N].depth
        /\ N = 2 => scopes'[2].base >= scopes'[1].base + scopes'[1].depth
        /\ \A n \in 1..N : scopes'[n].base \in Nat /\ scopes'[n].depth \in Nat
    <3>1. /\ N \in 1..N
          /\ scopes'[N].base = b(N) /\ scopes'[N].depth = dp(N) - 1
      BY <2>1, <2>2
    <3>2. Len(savepoints') >= scopes'[N].base + scopes'[N].depth
      BY <1>1, <1>2, <1>3, <1>11, <2>1, <2>2, <3>1
    <3>3. ASSUME N = 2
          PROVE  scopes'[2].base >= scopes'[1].base + scopes'[1].depth
      <4>1. scopes'[2].base = b(2) /\ scopes'[1].base = b(1) /\ scopes'[1].depth = dp(1)
        BY <2>2, <3>3
      <4> QED BY <1>11, <3>3, <4>1
    <3>4. ASSUME NEW n \in 1..N
          PROVE  scopes'[n].base \in Nat /\ scopes'[n].depth \in Nat
      <4>1. CASE n = N BY <1>1, <1>2, <2>2, <3>1, <4>1
      <4>2. CASE n # N BY <1>1, <1>2, <2>2, <4>2
      <4> QED BY <4>1, <4>2
    <3> QED BY <3>2, <3>3, <3>4
  <2>4. ~over /\ ~spoiled' =>
            /\ Len(savepoints') = scopes'[N].base + scopes'[N].depth
            /\ scopes'[1].base = 0
            /\ N = 2 => scopes'[2].base = scopes'[1].base + scopes'[1].depth
    BY <1>1, <1>2, <1>3, <1>11, <2>1, <2>2
  <2>5. ASSUME ~over, ~spoiled', NEW n \in 1..N, NEW d \in 1..Len(savepoints'),
               d > scopes'[n].base, d <= scopes'[n].base + scopes'[n].depth
        PROVE  savepoints'[d] = scopes'[n].inv
    <3>1. d \in 1..L /\ d > b(n) /\ d <= b(n) + dp(n) BY <1>1, <1>2, <1>3, <2>1, <2>2, <2>5
    <3> QED BY <1>11, <2>1, <2>2, <2>5, <3>1
  <2> QED BY <1>1, <2>1, <2>2, <2>3, <2>4, <2>5
\* A scope less: it ends, or is undone.
<1>19. ASSUME ~over, ClosedLast, job.op # "write",
              Len(savepoints') <= L, b(N) <= Len(savepoints'),
              ~spoiled' => ~spoiled /\ Len(savepoints') = b(N),
              \A d \in 1..Len(savepoints') : savepoints'[d] = savepoints[d]
       PROVE  <1>12!1
  <2>1. /\ N \in 1..2 /\ Len(scopes') = N - 1
        /\ \A n \in 1..N - 1 : scopes'[n] = scopes[n]
    BY <1>10, <1>19 DEF ClosedLast, N
  <2>2. /\ Len(scopes') > 0 => /\ Len(scopes') = 1 /\ N = 2
                               /\ scopes'[1].base = b(1) /\ scopes'[1].depth = dp(1)
                               /\ scopes'[1].inv = scopes[1].inv
    BY <2>1 DEF b, dp
  <2>3. Len(scopes') > 0 =>
          Len(savepoints') >= scopes'[Len(scopes')].base + scopes'[Len(scopes')].depth
    BY <1>2, <1>3, <1>11, <1>19, <2>1, <2>2
  <2>4. \A n \in 1..Len(scopes') : scopes'[n].base \in Nat /\ scopes'[n].depth \in Nat
    BY <1>2, <2>1, <2>2
  <2>5. ~over /\ ~spoiled' =>
            /\ Len(savepoints') = IF Len(scopes') = 0 THEN 0
                                  ELSE scopes'[Len(scopes')].base + scopes'[Len(scopes')].depth
            /\ Len(scopes') > 0 => scopes'[1].base = 0
    BY <1>2, <1>3, <1>11, <1>19, <2>1, <2>2
  <2>6. ASSUME ~over, ~spoiled', NEW n \in 1..Len(scopes'), NEW d \in 1..Len(savepoints'),
               d > scopes'[n].base, d <= scopes'[n].base + scopes'[n].depth
        PROVE  savepoints'[d] = scopes'[n].inv
    <3>1. n = 1 /\ Len(scopes') = 1 BY <2>1, <2>2
    <3>2. d \in 1..L /\ d > b(1) /\ d <= b(1) + dp(1) /\ 1 \in 1..N
      BY <1>3, <1>19, <2>1, <2>2, <2>6, <3>1
    <3> QED BY <1>11, <1>19, <2>2, <2>6, <3>1, <3>2
  <2> QED BY <2>1, <2>2, <2>3, <2>4, <2>5, <2>6
<1>20. CASE /\ ~over
            /\ (job.op = "release" /\ ok) \/ job.op = "rollback"
            /\ scopes[Len(scopes)].depth = 1 /\ ClosedLast
  <2>1. /\ Len(savepoints') \in {L - 1, L}
        /\ ~spoiled' => Len(savepoints') = L - 1
        /\ \A d \in 1..Len(savepoints') : savepoints'[d] = savepoints[d]
        /\ One(Opening) = 0 /\ N \in 1..2
        /\ ~spoiled' => ~spoiled
    BY <1>17, <1>20
  <2>2. dp(N) = 1 BY <1>20 DEF dp, N
  <2>3. /\ Len(savepoints') <= L /\ b(N) <= Len(savepoints')
        /\ ~spoiled' => ~spoiled /\ Len(savepoints') = b(N)
    BY <1>1, <1>2, <1>3, <1>11, <1>20, <2>1, <2>2
  <2> QED BY <1>19, <1>20, <2>1, <2>3
<1>21. CASE ~over /\ job.op = "scope" /\ ~ok /\ ClosedLast
  <2>1. savepoints' = savepoints /\ (~spoiled' => ~spoiled) BY <1>6, <1>21, SavepointsMoved
  <2>2. One(Opening) = 1 BY <1>21 DEF Opening, One
  <2>3. N \in 1..2 /\ dp(N) = 1 BY <1>10, <1>21 DEF JobFits, N, dp
  <2>4. Len(savepoints') = L BY <2>1 DEF L
  <2>5. /\ Len(savepoints') <= L /\ b(N) <= Len(savepoints')
        /\ ~spoiled' => ~spoiled /\ Len(savepoints') = b(N)
    BY <1>1, <1>2, <1>3, <1>11, <1>21, <2>1, <2>2, <2>3, <2>4
  <2> QED BY <1>19, <1>21, <2>1, <2>5
<1>22. CASE ~over /\ job.op = "abandon" /\ ClosedLast
  <2>1. N \in 1..2 /\ job.base = b(N) /\ b(N) < L
    BY <1>10, <1>22 DEF JobFits, N, L, b
  <2>2. CASE ok
    <3>1. /\ Len(savepoints') = b(N)
          /\ \A d \in 1..Len(savepoints') : savepoints'[d] = savepoints[d]
      BY <1>22, <2>1, <2>2, SavepointsMoved
    <3>2. ~spoiled' => ~spoiled BY <1>6
    <3>3. Len(savepoints') <= L /\ b(N) <= Len(savepoints') BY <1>2, <1>3, <2>1, <3>1
    <3> QED BY <1>19, <1>22, <3>1, <3>2, <3>3
  <2>3. CASE ~ok
    <3>1. savepoints' = savepoints /\ spoiled' BY <1>6, <1>22, <2>3, SavepointsMoved
    <3>2. Len(savepoints') <= L /\ b(N) <= Len(savepoints') BY <1>2, <1>3, <2>1, <3>1 DEF L
    <3> QED BY <1>19, <1>22, <3>1, <3>2
  <2> QED BY <2>2, <2>3
<1> QED BY <1>4, <1>6, <1>7, <1>9, <1>13, <1>14, <1>15, <1>16, <1>18, <1>20, <1>21, <1>22
        DEF ScopesEnd, Opening

-----------------------------------------------------------------------------
(* The part of the invariant that is about turns, scopes and savepoints.   *)

HostTypes ==
  /\ conn \in {"none", "held", "released"}
  /\ ext \in Worker \cup {None} /\ window \in Worker \cup {None}
  /\ timer \in BOOLEAN /\ faults \in 0..MaxFaults

LEMMA EndControl ==
  ASSUME Control, job # None, NEW ok \in BOOLEAN, EndJob(ok), SavepointsMove(ok), HostTypes'
  PROVE  Control'
<1>1. /\ Shape /\ Counted /\ OneScopeEach /\ QueueFits /\ JobFits /\ Nested
  BY DEF Control
<1>2. /\ scopes' \in Seq(Scope) /\ OneScopeEach' /\ OthersKeep /\ ScopesEnd(ok)
      /\ within' \in [Actor -> 0..Len(scopes')]
  BY <1>1, EndScopes
<1>3. /\ job' = None /\ pending' = pending /\ ops' = ops /\ joined' = joined
      /\ over' = over /\ closing' = closing
  BY DEF EndJob, endVars
<1>4. /\ savepoints' \in Seq(Worker) /\ Len(savepoints) \in Nat /\ Len(savepoints') \in Nat
      /\ Len(savepoints') <= Len(savepoints) + 1
      /\ ~(job.op \in {"scope", "begin"}) => Len(savepoints') <= Len(savepoints)
  <2>1. job.op \in {"write", "scope", "begin", "release", "rollback", "abandon"}
    BY <1>1 DEF Shape, Job, Op
  <2> QED BY <1>1, <2>1, SavepointsMoved
<1>5. Shape'
  <2>1. spoiled' \in BOOLEAN /\ service' \in {"idle", "on", "leaving", "off"}
    BY <1>1 DEF EndJob, Shape
  <2> QED BY <1>1, <1>2, <1>3, <1>4, <2>1 DEF Shape, HostTypes, EndJob, endVars
<1>6. Counted'
  <2>1. One(job' # None /\ job'.op # "abandon") = 0 BY <1>3 DEF One
  <2>2. Len(savepoints') <= Len(savepoints) + One(job # None /\ job.op # "abandon")
    BY <1>4 DEF One
  <2>3. \A b : One(b) \in Nat BY DEF One
  <2>4. ops \in Nat BY <1>1, ConstantsAssumption DEF Shape
  <2> QED BY <1>1, <1>3, <1>4, <2>1, <2>2, <2>3, <2>4 DEF Counted
<1>7. QueueFits'
  <2>1. (over' <=> closing' # "none") /\ (over' => Len(scopes') = 0)
    BY <1>1, <1>2, <1>3 DEF QueueFits, ScopesEnd
  <2>2. /\ \A x : OwnScope(x)' = OwnIn(scopes', x)
        /\ \A x : OwnScope(x) = OwnIn(scopes, x)
    BY DEF OwnScope, OwnIn
  <2>3. SUFFICES ASSUME NEW x \in Actor, pending[x] # None
                 PROVE  /\ x = "inline" => joined
                        /\ pending[x] # "write" => x \in Worker
                        /\ pending[x] = "scope" => OwnIn(scopes', x) = 0
                        /\ ~over /\ pending[x] \in {"begin", "release", "rollback"} =>
                             OwnIn(scopes', x) > 0
                        /\ ~over /\ pending[x] = "begin" =>
                             scopes'[OwnIn(scopes', x)].depth < MaxDepth
    BY <1>3, <2>1, <2>2 DEF QueueFits
  <2>4. /\ x # job.inv
        /\ x = "inline" => joined
        /\ pending[x] # "write" => x \in Worker
        /\ pending[x] = "scope" => OwnIn(scopes, x) = 0
        /\ ~over /\ pending[x] \in {"begin", "release", "rollback"} => OwnIn(scopes, x) > 0
        /\ ~over /\ pending[x] = "begin" => scopes[OwnIn(scopes, x)].depth < MaxDepth
    BY <1>1, <2>2, <2>3 DEF QueueFits
  <2>5. /\ OwnIn(scopes', x) = OwnIn(scopes, x)
        /\ OwnIn(scopes, x) > 0 => scopes'[OwnIn(scopes, x)] = scopes[OwnIn(scopes, x)]
    BY <1>2, <2>4 DEF OthersKeep
  <2> QED BY <2>4, <2>5
<1>8. JobFits' BY <1>3 DEF JobFits
<1>9. Nested' BY <1>1, EndNested
<1> QED BY <1>2, <1>5, <1>6, <1>7, <1>8, <1>9 DEF Control

LEMMA ReadyControl ==
  ASSUME Control, Preparing, Ready, savepoints' = savepoints, HostTypes'
  PROVE  Control'
<1>1. /\ Shape /\ Counted /\ OneScopeEach /\ QueueFits /\ JobFits /\ Nested
  BY DEF Control
<1>2. job \in Job BY <1>1 DEF Shape, Preparing
<1>3. /\ job' \in Job /\ job'.inv = job.inv /\ job'.op = job.op /\ job'.base = job.base
      /\ job # None /\ job' # None
  BY <1>2, ConstantsAssumption DEF Ready, Job, Preparing
<1>4. /\ pending' = pending /\ ops' = ops /\ joined' = joined /\ scopes' = scopes
      /\ over' = over /\ closing' = closing /\ spoiled' = spoiled
  BY DEF Ready, endVars
<1>5. Shape' BY <1>1, <1>3, <1>4 DEF Shape, HostTypes, Ready, endVars
<1>6. Counted' BY <1>1, <1>3, <1>4 DEF Counted
<1>7. OneScopeEach' BY <1>1, <1>4 DEF OneScopeEach
<1>8. \A x : OwnScope(x)' = OwnScope(x) BY <1>4 DEF OwnScope
<1>9. QueueFits' BY <1>1, <1>3, <1>4, <1>8 DEF QueueFits
<1>10. JobFits' BY <1>1, <1>3, <1>4, <1>8 DEF JobFits
<1>11. Nested'
  <2>1. (Opening' <=> Opening) /\ \A n : Top(n)' = Top(n) BY <1>3, <1>4 DEF Opening, Top
  <2>2. One(Opening)' = One(Opening) BY <2>1 DEF One
  <2> QED BY <1>1, <1>4, <2>1, <2>2 DEF Nested
<1> QED BY <1>5, <1>6, <1>7, <1>9, <1>10, <1>11 DEF Control

\* Steps that leave the scopes, the queue and the connection alone.
LEMMA AsideControl ==
  ASSUME Control, UNCHANGED <<pending, job, savepoints, scopes, ops, over, spoiled, joined>>,
         Shape', (closing = "none") <=> (closing' = "none"),
         job # None => closing' \notin {"true", "false"}
  PROVE  Control'
<1>1. /\ Shape /\ Counted /\ OneScopeEach /\ QueueFits /\ JobFits /\ Nested
  BY DEF Control
<1>2. Counted' BY <1>1 DEF Counted
<1>3. OneScopeEach' BY <1>1 DEF OneScopeEach
<1>4. \A x : OwnScope(x)' = OwnScope(x) BY DEF OwnScope
<1>5. QueueFits' BY <1>1, <1>4 DEF QueueFits
<1>6. JobFits' BY <1>1, <1>4 DEF JobFits
<1>7. Nested'
  <2>1. (Opening' <=> Opening) /\ \A n : Top(n)' = Top(n) BY DEF Opening, Top
  <2>2. One(Opening)' = One(Opening) BY <2>1 DEF One
  <2> QED BY <1>1, <2>1, <2>2 DEF Nested
<1> QED BY <1>2, <1>3, <1>5, <1>6, <1>7 DEF Control

\* Where a statement takes its turn is a scope that is open, or outside of all.
LEMMA LevelFacts ==
  ASSUME Shape, OneScopeEach, NEW x \in Actor
  PROVE  Level(x) \in 0..Len(scopes)
<1>1. OwnIn(scopes, x) \in 0..Len(scopes) /\ OwnScope(x) = OwnIn(scopes, x)
      /\ Len(scopes) \in Nat
  BY ScopeFacts, OwnFacts DEF OwnScope, OwnIn
<1>2. within[x] \in 0..Len(scopes) BY DEF Shape
<1> QED BY <1>1, <1>2 DEF Level

\* A step that touches pending, job and scopes only is judged by these parts.
LEMMA TurnShape ==
  ASSUME Shape, pending' \in [Actor -> Sent \cup {None}], job' \in Job \cup {None},
         scopes' \in Seq(Scope), ops' \in 0..MaxOps, within' \in [Actor -> 0..Len(scopes')],
         UNCHANGED <<joined, request, commit, answer, service, hostVars, endVars, spoiled, faults>>
  PROVE  Shape'
BY DEF Shape, hostVars, endVars

LEMMA AcceptControl ==
  ASSUME Control, NEW x \in Actor, NEW op \in Op, Accept(x, op)
  PROVE  Control'
<1>1. /\ Shape /\ Counted /\ OneScopeEach /\ QueueFits /\ JobFits /\ Nested
  BY DEF Control
<1>2. /\ ~over /\ pending[x] = None
      /\ Offers(x, op) /\ ops < MaxOps /\ ops' = ops + 1
      /\ pending' = [pending EXCEPT ![x] = op]
      /\ UNCHANGED <<joined, request, commit, answer, service, job, hostVars, scopes,
                     endVars, spoiled, faults>>
  BY DEF Accept
<1>3. job # None => job.inv # x BY DEF Accept
<1>4. UNCHANGED <<savepoints, over, closing>> BY <1>2 DEF hostVars, endVars
<1>5. op \in Sent /\ op # None BY <1>2, ConstantsAssumption DEF Offers, Op, Sent
<1>6. pending \in [Actor -> Sent \cup {None}] /\ ops \in 0..MaxOps /\ MaxOps \in Nat
  BY <1>1, ConstantsAssumption DEF Shape
<1>7. /\ pending' \in [Actor -> Sent \cup {None}] /\ pending'[x] = op
      /\ \A y \in Actor \ {x} : pending'[y] = pending[y]
  BY <1>2, <1>5, <1>6
<1>8. Shape'
  <2>1. ops' \in 0..MaxOps BY <1>2, <1>6
  <2>2. scopes' \in Seq(Scope) /\ job' \in Job \cup {None} BY <1>1, <1>2 DEF Shape
  <2>3. within' \in [Actor -> 0..Len(scopes')]
    <3>1. \A y \in Actor : Level(y) \in 0..Len(scopes) BY <1>1, LevelFacts
    <3>2. within \in [Actor -> 0..Len(scopes)] /\ scopes' = scopes BY <1>1, <1>2 DEF Shape
    <3>3. Len(scopes) \in Nat BY <1>1, ScopeFacts
    <3>4. \A at \in InlineLevels : at \in 0..Len(scopes)
      BY <3>1, <3>3 DEF InlineLevels, Actor
    <3>5. \/ within' = within
          \/ \E at \in 0..Len(scopes) : within' = [within EXCEPT ![x] = at]
      BY <3>4 DEF Accept
    <3> QED BY <3>2, <3>5
  <2> QED BY <1>1, <1>2, <1>7, <2>1, <2>2, <2>3, TurnShape
<1>9. Counted'
  <2>1. \A b : One(b) \in {0, 1} BY DEF One
  <2>2. One(pending[x] # None) = 0 BY <1>2 DEF One
  <2>3. Len(savepoints) \in Nat BY <1>1, LenProperties DEF Shape
  <2>4. job' = job /\ ops' = ops + 1 /\ savepoints' = savepoints BY <1>2, <1>4
  <2>5. CASE x = "route"
    <3>1. pending'["service"] = pending["service"] /\ pending'["inline"] = pending["inline"]
      BY <1>7, <2>5 DEF Actor, Worker
    <3> QED BY <1>1, <1>6, <2>1, <2>2, <2>3, <2>4, <2>5, <3>1 DEF Counted
  <2>6. CASE x = "service"
    <3>1. pending'["route"] = pending["route"] /\ pending'["inline"] = pending["inline"]
      BY <1>7, <2>6 DEF Actor, Worker
    <3> QED BY <1>1, <1>6, <2>1, <2>2, <2>3, <2>4, <2>6, <3>1 DEF Counted
  <2>7. CASE x = "inline"
    <3>1. pending'["service"] = pending["service"] /\ pending'["route"] = pending["route"]
      BY <1>7, <2>7 DEF Actor, Worker
    <3> QED BY <1>1, <1>6, <2>1, <2>2, <2>3, <2>4, <2>7, <3>1 DEF Counted
  <2> QED BY <2>5, <2>6, <2>7 DEF Actor, Worker
<1>10. OneScopeEach' BY <1>1, <1>2 DEF OneScopeEach
<1>11. \A y : OwnScope(y)' = OwnScope(y) BY <1>2 DEF OwnScope
<1>12. QueueFits'
  <2>1. (over' <=> closing' # "none") /\ (over' => Len(scopes') = 0)
    BY <1>1, <1>2, <1>4 DEF QueueFits
  <2>2. ASSUME NEW y \in Actor, pending'[y] # None
        PROVE  /\ job # None => job.inv # y
               /\ y = "inline" => joined
               /\ pending'[y] # "write" => y \in Worker
               /\ pending'[y] = "scope" => OwnScope(y) = 0
               /\ ~over /\ pending'[y] \in {"begin", "release", "rollback"} => OwnScope(y) > 0
               /\ ~over /\ pending'[y] = "begin" => scopes[OwnScope(y)].depth < MaxDepth
    <3>1. CASE y = x
      <4>1. y = "inline" => joined BY <3>1 DEF Accept, Alive, Worker
      <4>2. op # "write" => x \in Worker
        <5>1. SUFFICES ASSUME op # "write", op # "scope" PROVE x \in Worker
          BY <1>2 DEF Offers
        <5>2. OwnIn(scopes, x) > 0 BY <1>1, <1>2, <1>5, <5>1, ScopeFacts DEF Offers, Sent
        <5>3. OwnIn(scopes, x) \in 1..Len(scopes) /\ scopes[OwnIn(scopes, x)].inv = x
          BY <1>1, <5>2, ScopeFacts, OwnFacts
        <5> QED BY <1>1, <5>3, ScopeFacts
      <4> QED BY <1>2, <1>3, <1>7, <3>1, <4>1, <4>2 DEF Offers
    <3>2. CASE y # x BY <1>1, <1>7, <2>2, <3>2 DEF QueueFits
    <3> QED BY <3>1, <3>2
  <2> QED BY <1>2, <1>4, <1>11, <2>1, <2>2 DEF QueueFits
<1>13. JobFits' BY <1>1, <1>2, <1>4, <1>11 DEF JobFits
<1>14. Nested'
  <2>1. (Opening' <=> Opening) /\ \A n : Top(n)' = Top(n) BY <1>2 DEF Opening, Top
  <2>2. One(Opening)' = One(Opening) BY <2>1 DEF One
  <2> QED BY <1>1, <1>2, <1>4, <2>1, <2>2 DEF Nested
<1> QED BY <1>8, <1>9, <1>10, <1>12, <1>13, <1>14 DEF Control

LEMMA RefuseControl ==
  ASSUME Control, NEW x \in Actor, Refuse(x)
  PROVE  Control'
<1>1. /\ Shape /\ Counted /\ OneScopeEach /\ QueueFits /\ JobFits /\ Nested
  BY DEF Control
<1>2. /\ pending' = [pending EXCEPT ![x] = None] /\ over
      /\ UNCHANGED <<joined, request, commit, answer, service, within, job, hostVars, scopes,
                     endVars, spoiled, faults, ops>>
  BY DEF Refuse, MayRun
<1>3. UNCHANGED <<savepoints, over, closing>> BY <1>2 DEF hostVars, endVars
<1>4. pending \in [Actor -> Sent \cup {None}] BY <1>1 DEF Shape
<1>5. /\ pending' \in [Actor -> Sent \cup {None}]
      /\ \A y \in Actor : pending'[y] \in {pending[y], None}
  BY <1>2, <1>4
<1>6. Shape'
  <2>1. /\ scopes' \in Seq(Scope) /\ job' \in Job \cup {None} /\ within' \in [Actor -> 0..Len(scopes')]
        /\ ops' \in 0..MaxOps
    BY <1>1, <1>2 DEF Shape
  <2> QED BY <1>1, <1>2, <1>5, <2>1, TurnShape
<1>7. Counted'
  <2>1. \A b : One(b) \in {0, 1} BY DEF One
  <2>2. \A y \in Actor : One(pending'[y] # None) <= One(pending[y] # None) BY <1>5 DEF One
  <2>3. Len(savepoints) \in Nat /\ ops \in Nat
    BY <1>1, LenProperties, ConstantsAssumption DEF Shape
  <2>4. /\ One(pending'["route"] # None) <= One(pending["route"] # None)
        /\ One(pending'["service"] # None) <= One(pending["service"] # None)
        /\ One(pending'["inline"] # None) <= One(pending["inline"] # None)
    BY <2>2 DEF Actor, Worker
  <2> QED BY <1>1, <1>2, <1>3, <2>1, <2>3, <2>4 DEF Counted
<1>8. OneScopeEach' BY <1>1, <1>2 DEF OneScopeEach
<1>9. \A y : OwnScope(y)' = OwnScope(y) BY <1>2 DEF OwnScope
<1>10. QueueFits' BY <1>1, <1>2, <1>3, <1>5, <1>9 DEF QueueFits
<1>11. JobFits' BY <1>1, <1>2, <1>3, <1>9 DEF JobFits
<1>12. Nested'
  <2>1. (Opening' <=> Opening) /\ \A n : Top(n)' = Top(n) BY <1>2 DEF Opening, Top
  <2>2. One(Opening)' = One(Opening) BY <2>1 DEF One
  <2> QED BY <1>1, <1>2, <1>3, <2>1, <2>2 DEF Nested
<1> QED BY <1>6, <1>7, <1>8, <1>10, <1>11, <1>12 DEF Control

LEMMA StartControl ==
  ASSUME Control, NEW x \in Actor, Start(x)
  PROVE  Control'
<1> DEFINE N == Len(scopes)
           L == Len(savepoints)
           op == pending[x]
           e == [inv |-> x, depth |-> 1, base |-> L]
<1>1. /\ Shape /\ Counted /\ OneScopeEach /\ QueueFits /\ JobFits /\ Nested
  BY DEF Control
<1>2. /\ op # None /\ job = None /\ Level(x) = N /\ ~over
      /\ pending' = [pending EXCEPT ![x] = None]
      /\ job' = [inv |-> x, op |-> op, base |-> 0, step |-> "prepare"]
      /\ scopes' = IF op = "scope" THEN Append(scopes, e) ELSE scopes
      /\ UNCHANGED <<joined, request, commit, answer, service, within, hostVars, endVars, db,
                     believed, spoiled, ops, faults>>
  BY DEF Start, MyTurn, MayRun
<1>3. UNCHANGED <<savepoints, over, closing, joined, spoiled, ops>>
  BY <1>2 DEF hostVars, endVars
<1>4. /\ pending \in [Actor -> Sent \cup {None}] /\ ops \in 0..MaxOps /\ MaxOps \in Nat
      /\ MaxDepth \in Nat \ {0} /\ L \in Nat
  BY <1>1, LenProperties, ConstantsAssumption DEF Shape
<1>5. /\ pending' \in [Actor -> Sent \cup {None}] /\ pending'[x] = None
      /\ \A y \in Actor \ {x} : pending'[y] = pending[y]
      /\ op \in {"write", "scope", "begin", "release", "rollback"}
  BY <1>2, <1>4 DEF Sent
<1>6. /\ job' \in Job /\ job' # None /\ job'.inv = x /\ job'.op = op /\ job'.base = 0
  BY <1>2, <1>4, <1>5, ConstantsAssumption DEF Job, Op
<1>7. \A b : One(b) \in {0, 1} BY DEF One
<1>8. Counted' /\ L <= MaxOps
  <2>1. /\ One(pending[x] # None) = 1 /\ One(pending'[x] # None) = 0
        /\ One(job # None /\ job.op # "abandon") = 0
        /\ One(job' # None /\ job'.op # "abandon") = 1
    BY <1>2, <1>5, <1>6 DEF One
  <2>2. CASE x = "route"
    <3>1. pending'["service"] = pending["service"] /\ pending'["inline"] = pending["inline"]
      BY <1>5, <2>2 DEF Actor, Worker
    <3> QED BY <1>1, <1>3, <1>4, <1>7, <2>1, <2>2, <3>1 DEF Counted
  <2>3. CASE x = "service"
    <3>1. pending'["route"] = pending["route"] /\ pending'["inline"] = pending["inline"]
      BY <1>5, <2>3 DEF Actor, Worker
    <3> QED BY <1>1, <1>3, <1>4, <1>7, <2>1, <2>3, <3>1 DEF Counted
  <2>4. CASE x = "inline"
    <3>1. pending'["service"] = pending["service"] /\ pending'["route"] = pending["route"]
      BY <1>5, <2>4 DEF Actor, Worker
    <3> QED BY <1>1, <1>3, <1>4, <1>7, <2>1, <2>4, <3>1 DEF Counted
  <2> QED BY <2>2, <2>3, <2>4 DEF Actor, Worker
\* Whose turn it is, seen from its scope.
<1>9. /\ x = "inline" => joined
      /\ op # "write" => x \in Worker
      /\ op = "scope" => OwnIn(scopes, x) = 0
      /\ op \in {"begin", "release", "rollback"} => OwnIn(scopes, x) > 0
      /\ op = "begin" => scopes[OwnIn(scopes, x)].depth < MaxDepth
      /\ OwnIn(scopes, x) > 0 => OwnIn(scopes, x) = N
  <2>1. OwnScope(x) = OwnIn(scopes, x) BY DEF OwnScope, OwnIn
  <2>2. OwnIn(scopes, x) > 0 => OwnIn(scopes, x) = N BY <1>2, <2>1 DEF Level
  <2> QED BY <1>1, <1>2, <2>1, <2>2 DEF QueueFits
<1>10. /\ \A y : OwnScope(y)' = OwnIn(scopes', y)
       /\ \A y : OwnScope(y) = OwnIn(scopes, y)
  BY DEF OwnScope, OwnIn
<1>11. /\ scopes \in Seq(Scope) /\ N \in Nat /\ DOMAIN scopes = 1..N /\ Distinct(scopes)
       /\ \A n \in 1..N : scopes[n].depth \in 1..MaxDepth /\ scopes[n].base \in 0..MaxOps
  BY <1>1, ScopeFacts
\* The scopes, with the one that x opens.
<1>12. /\ scopes' \in Seq(Scope) /\ Distinct(scopes') /\ Len(scopes') \in Nat
       /\ Len(scopes') = IF op = "scope" THEN N + 1 ELSE N
       /\ \A n \in 1..N : scopes'[n] = scopes[n]
       /\ op = "scope" => scopes'[N + 1] = e
       /\ \A y : OwnIn(scopes', y) = IF op = "scope" /\ y = x THEN N + 1 ELSE OwnIn(scopes, y)
  <2>1. CASE op # "scope" BY <1>2, <1>11, <2>1
  <2>2. CASE op = "scope"
    <3>1. e \in Scope /\ e.inv = x BY <1>4, <1>8, <1>9, <2>2 DEF Scope
    <3>2. scopes' = Append(scopes, e) BY <1>2, <2>2
    <3> HIDE DEF e
    <3>3. /\ Append(scopes, e) \in Seq(Scope) /\ Distinct(Append(scopes, e))
          /\ Len(Append(scopes, e)) = Len(scopes) + 1
          /\ \A n \in 1..Len(scopes) : Append(scopes, e)[n] = scopes[n]
          /\ Append(scopes, e)[Len(scopes) + 1] = e
          /\ \A y : OwnIn(Append(scopes, e), y) =
                      IF y = e.inv THEN Len(scopes) + 1 ELSE OwnIn(scopes, y)
      BY <1>9, <1>11, <2>2, <3>1, OwnAppend
    <3> QED BY <1>11, <2>2, <3>1, <3>2, <3>3
  <2> QED BY <2>1, <2>2
<1>13. DOMAIN scopes' = 1..Len(scopes') BY <1>12, LenProperties
<1> HIDE DEF N, L, op, e
<1>14. Shape'
  <2>1. within' \in [Actor -> 0..Len(scopes')] BY <1>1, <1>2, <1>11, <1>12 DEF Shape, N
  <2> QED BY <1>1, <1>2, <1>3, <1>4, <1>5, <1>6, <1>12, <2>1, TurnShape
<1>15. OneScopeEach' BY <1>12, <1>13 DEF OneScopeEach, Distinct
<1>16. QueueFits'
  <2>1. (over' <=> closing' # "none") /\ ~over' BY <1>1, <1>2, <1>3 DEF QueueFits
  <2>2. SUFFICES ASSUME NEW y \in Actor, pending'[y] # None
                 PROVE  /\ x # y
                        /\ y = "inline" => joined
                        /\ pending'[y] # "write" => y \in Worker
                        /\ pending'[y] = "scope" => OwnIn(scopes', y) = 0
                        /\ pending'[y] \in {"begin", "release", "rollback"} =>
                             OwnIn(scopes', y) > 0
                        /\ pending'[y] = "begin" => scopes'[OwnIn(scopes', y)].depth < MaxDepth
    BY <1>3, <1>6, <1>10, <2>1 DEF QueueFits
  <2>3. y # x /\ pending'[y] = pending[y] BY <1>5, <2>2
  <2>4. /\ y = "inline" => joined
        /\ pending[y] # "write" => y \in Worker
        /\ pending[y] = "scope" => OwnIn(scopes, y) = 0
        /\ pending[y] \in {"begin", "release", "rollback"} => OwnIn(scopes, y) > 0
        /\ pending[y] = "begin" => scopes[OwnIn(scopes, y)].depth < MaxDepth
    BY <1>1, <1>2, <1>10, <2>2, <2>3 DEF QueueFits
  <2>5. OwnIn(scopes', y) = OwnIn(scopes, y) BY <1>12, <2>3
  <2>6. OwnIn(scopes, y) > 0 => scopes'[OwnIn(scopes, y)] = scopes[OwnIn(scopes, y)]
    <3>1. OwnIn(scopes, y) \in 0..N BY <1>11, OwnFacts DEF N
    <3> QED BY <1>11, <1>12, <3>1
  <2> QED BY <2>3, <2>4, <2>5, <2>6
<1>17. JobFits'
  <2>1. /\ OwnIn(scopes', x) > 0 => OwnIn(scopes', x) = Len(scopes')
        /\ op # "write" => OwnIn(scopes', x) > 0
    BY <1>5, <1>9, <1>11, <1>12
  <2>2. op = "begin" => scopes'[Len(scopes')].depth < MaxDepth
    <3>1. op = "begin" => N \in 1..N BY <1>9, <1>11
    <3> QED BY <1>9, <1>12, <3>1
  <2>3. op = "scope" => scopes'[Len(scopes')].depth = 1 BY <1>12 DEF e
  <2>4. closing' = "none" BY <1>1, <1>2, <1>3 DEF QueueFits
  <2> QED BY <1>3, <1>5, <1>6, <1>9, <1>10, <2>1, <2>2, <2>3, <2>4 DEF JobFits, ScopeOp
<1>18. Nested'
  <2> DEFINE t(n) == IF n = 0 THEN 0 ELSE scopes'[n].base + scopes'[n].depth
  <2>1. One(Opening) = 0 BY <1>2 DEF Opening, One
  <2>2. One(Opening') = IF op = "scope" THEN 1 ELSE 0 BY <1>6 DEF Opening, One
  <2>3. \A n \in 0..N : t(n) = Top(n) BY <1>12 DEF Top
  <2>4. op = "scope" => t(N + 1) = L + 1
    <3>1. N + 1 # 0 BY <1>11
    <3> QED BY <1>12, <3>1 DEF e
  <2>5. Top(N) \in Nat
    <3>1. N > 0 => N \in 1..N BY <1>11
    <3>2. N > 0 => scopes[N].base \in Nat /\ scopes[N].depth \in Nat
      BY <1>4, <1>11, <3>1
    <3> QED BY <1>11, <3>2 DEF Top
  <2>6. N > 0 => L >= Top(N) BY <1>1, <1>4, <2>1 DEF Nested, N, L
  <2>7. L >= Top(N)
    <3>1. CASE N = 0 BY <1>4, <3>1 DEF Top
    <3>2. CASE N > 0 BY <2>6, <3>2
    <3> QED BY <1>11, <3>1, <3>2
  <2>8. Len(scopes') > 0 => L + One(Opening') >= t(Len(scopes'))
    BY <1>4, <1>11, <1>12, <2>2, <2>3, <2>4, <2>6, <2>7
  <2>9. \A n \in 1..Len(scopes') : scopes'[n].base >= t(n - 1)
    <3>1. SUFFICES ASSUME NEW n \in 1..Len(scopes') PROVE scopes'[n].base >= t(n - 1)
      OBVIOUS
    <3>2. CASE n \in 1..N
      <4>1. t(n - 1) = Top(n - 1) BY <1>11, <2>3, <3>2
      <4> QED BY <1>1, <1>11, <1>12, <3>2, <4>1 DEF Nested
    <3>3. CASE n = N + 1 /\ op = "scope"
      <4>1. n - 1 = N BY <1>11, <3>3
      <4>2. t(n - 1) = Top(N) BY <1>11, <2>3, <4>1
      <4> QED BY <1>12, <2>7, <3>3, <4>2 DEF e
    <3> QED BY <1>11, <1>12, <3>2, <3>3
  <2>10. ASSUME ~over, ~spoiled
         PROVE  /\ L + One(Opening') = t(Len(scopes'))
                /\ \A n \in 1..Len(scopes') : scopes'[n].base = t(n - 1)
                /\ \A n \in 1..Len(scopes') : \A d \in 1..L :
                     d \in scopes'[n].base + 1..scopes'[n].base + scopes'[n].depth =>
                       savepoints[d] = scopes'[n].inv
    <3>1. /\ L = Top(N)
          /\ \A n \in 1..N : scopes[n].base = Top(n - 1)
          /\ \A n \in 1..N : \A d \in 1..L :
               d \in scopes[n].base + 1..scopes[n].base + scopes[n].depth =>
                 savepoints[d] = scopes[n].inv
      <4>1. /\ L + One(Opening) = Top(N)
            /\ \A n \in DOMAIN scopes : scopes[n].base = Top(n - 1)
            /\ \A n \in DOMAIN scopes : \A d \in 1..L :
                 d \in scopes[n].base + 1..scopes[n].base + scopes[n].depth =>
                   savepoints[d] = scopes[n].inv
        BY <1>1, <2>10 DEF Nested, N, L
      <4>2. L = Top(N) BY <1>4, <2>1, <4>1
      <4>3. \A n \in 1..N : scopes[n].base = Top(n - 1) BY <1>11, <4>1
      <4>4. \A n \in 1..N : \A d \in 1..L :
               d \in scopes[n].base + 1..scopes[n].base + scopes[n].depth =>
                 savepoints[d] = scopes[n].inv
        BY <1>11, <4>1
      <4> QED BY <4>2, <4>3, <4>4
    <3>2. L + One(Opening') = t(Len(scopes'))
      BY <1>4, <1>11, <1>12, <2>2, <2>3, <2>4, <3>1
    <3>3. ASSUME NEW n \in 1..Len(scopes')
          PROVE  /\ scopes'[n].base = t(n - 1)
                 /\ \A d \in 1..L :
                     d \in scopes'[n].base + 1..scopes'[n].base + scopes'[n].depth =>
                       savepoints[d] = scopes'[n].inv
      <4>1. CASE n \in 1..N
        <5>1. t(n - 1) = Top(n - 1) BY <1>11, <2>3, <4>1
        <5> QED BY <1>12, <3>1, <4>1, <5>1
      <4>2. CASE n = N + 1 /\ op = "scope"
        <5>1. n - 1 = N /\ t(n - 1) = Top(N) BY <1>11, <2>3, <4>2
        <5>2. scopes'[n].base = L /\ scopes'[n].depth = 1 BY <1>12, <4>2 DEF e
        <5> QED BY <1>4, <3>1, <5>1, <5>2
      <4> QED BY <1>11, <1>12, <3>3, <4>1, <4>2
    <3> QED BY <3>2, <3>3
  <2>11. /\ \A n : Top(n)' = t(n)
         /\ Top(Len(scopes))' = t(Len(scopes'))
         /\ One(Opening)' = One(Opening')
         /\ Len(savepoints') = L
    BY <1>3 DEF Top, L
  <2> HIDE DEF t
  <2> QED BY <1>3, <1>13, <2>8, <2>9, <2>10, <2>11 DEF Nested, L
<1> QED BY <1>8, <1>14, <1>15, <1>16, <1>17, <1>18 DEF Control

LEMMA StartAbandonControl ==
  ASSUME Control, StartAbandon
  PROVE  Control'
<1> DEFINE N == Len(scopes)
<1>1. /\ Shape /\ Counted /\ OneScopeEach /\ QueueFits /\ JobFits /\ Nested
  BY DEF Control
<1>2. /\ ~over /\ OwnScope("service") > 0 /\ pending["service"] = None
      /\ job = None /\ OwnScope("service") = N
      /\ job' = [inv |-> "service", op |-> "abandon", base |-> scopes[N].base, step |-> "prepare"]
      /\ UNCHANGED <<joined, request, commit, answer, service, within, pending, hostVars,
                     scopes, endVars, spoiled, ops, faults>>
  BY DEF StartAbandon, MyTurn, Level
<1>3. UNCHANGED <<savepoints, over, closing>> BY <1>2 DEF hostVars, endVars
<1>4. /\ N \in Nat /\ N \in 1..N /\ scopes[N].base \in 0..MaxOps /\ scopes[N].depth \in 1..MaxDepth
      /\ Len(savepoints) \in Nat /\ MaxOps \in Nat /\ MaxDepth \in Nat
  BY <1>1, <1>2, ScopeFacts, LenProperties, ConstantsAssumption DEF Shape
<1>5. /\ job' \in Job /\ job' # None /\ job'.inv = "service" /\ job'.op = "abandon"
      /\ job'.base = scopes[N].base
  BY <1>2, <1>4, ConstantsAssumption DEF Job, Op, Actor, Worker
<1>6. Shape'
  <2>1. /\ scopes' \in Seq(Scope) /\ pending' \in [Actor -> Sent \cup {None}]
        /\ within' \in [Actor -> 0..Len(scopes')] /\ ops' \in 0..MaxOps
    BY <1>1, <1>2 DEF Shape
  <2> QED BY <1>1, <1>2, <1>5, <2>1, TurnShape
<1>7. Counted'
  <2>1. /\ One(job # None /\ job.op # "abandon") = 0
        /\ One(job' # None /\ job'.op # "abandon") = 0
    BY <1>2, <1>5 DEF One
  <2> QED BY <1>1, <1>2, <1>3, <2>1 DEF Counted
<1>8. OneScopeEach' BY <1>1, <1>2 DEF OneScopeEach
<1>9. \A x : OwnScope(x)' = OwnScope(x) BY <1>2 DEF OwnScope
<1>10. QueueFits'
  <2>1. \A x \in Actor : pending'[x] # None => job'.inv # x BY <1>2, <1>5
  <2> QED BY <1>1, <1>2, <1>3, <1>9, <2>1 DEF QueueFits
<1>11. One(Opening) = 0 /\ One(Opening)' = 0 BY <1>2, <1>5 DEF Opening, One
<1>12. JobFits'
  <2>1. Len(savepoints) >= scopes[N].base + scopes[N].depth
    <3>1. Len(savepoints) + One(Opening) >= Top(N) BY <1>1, <1>4 DEF Nested
    <3>2. Top(N) = scopes[N].base + scopes[N].depth BY <1>4 DEF Top
    <3> QED BY <1>4, <1>11, <3>1, <3>2
  <2>2. job'.base < Len(savepoints) BY <1>4, <1>5, <2>1
  <2>3. closing' = "none" BY <1>1, <1>2, <1>3 DEF QueueFits
  <2>4. OwnScope("service")' = Len(scopes') /\ OwnScope("service")' > 0 BY <1>2, <1>9
  <2> QED BY <1>2, <1>3, <1>5, <2>2, <2>3, <2>4 DEF JobFits, Worker
<1>13. Nested'
  <2>1. \A n : Top(n)' = Top(n) BY <1>2 DEF Top
  <2> QED BY <1>1, <1>2, <1>3, <1>11, <2>1 DEF Nested
<1> QED BY <1>6, <1>7, <1>8, <1>10, <1>12, <1>13 DEF Control

\* The end of the transaction closes its scopes.
LEMMA EndTxnControl ==
  ASSUME Control, NEW c \in BOOLEAN, EndTxn(c),
         UNCHANGED <<joined, answer, service, pending, job, conn, ext, window, savepoints,
                     spoiled, unanswered, ops, faults>>,
         request' \in {"serving", "replied", "answered"}, commit' \in BOOLEAN
  PROVE  Control'
<1>1. /\ Shape /\ Counted /\ OneScopeEach /\ QueueFits /\ JobFits /\ Nested
  BY DEF Control
<1>2. CASE closing # "none"
  <2>1. UNCHANGED <<over, closing, timer, scopes, within>> BY <1>2 DEF EndTxn
  <2>2. Shape' BY <1>1, <2>1 DEF Shape
  <2> QED BY <1>1, <2>1, <2>2, AsideControl DEF JobFits
<1>3. CASE closing = "none"
  <2>1. /\ over' = TRUE /\ timer' = FALSE /\ scopes' = <<>> /\ within' = [x \in Actor |-> 0]
        /\ closing' \in {"commit", "rollback"}
    BY <1>3 DEF EndTxn
  <2>2. scopes' \in Seq(Scope) /\ Len(scopes') = 0 /\ DOMAIN scopes' = {} BY <2>1
  <2>3. Shape'
    <3>1. within' \in [Actor -> 0..Len(scopes')] BY <2>1, <2>2
    <3>2. over' \in BOOLEAN /\ timer' \in BOOLEAN BY <2>1
    <3>3. closing' \in {"none", "commit", "rollback", "true", "false"} BY <2>1
    <3> QED BY <1>1, <2>1, <2>2, <3>1, <3>2, <3>3 DEF Shape
  <2>4. \A x : OwnScope(x)' = 0 BY <2>2 DEF OwnScope
  <2>5. Counted' BY <1>1 DEF Counted
  <2>6. OneScopeEach' BY <2>2 DEF OneScopeEach
  <2>7. QueueFits' BY <1>1, <2>1, <2>2, <2>4 DEF QueueFits
  <2>8. JobFits' BY <1>1, <2>1, <2>4 DEF JobFits
  <2>9. Nested' BY <2>1, <2>2 DEF Nested
  <2> QED BY <2>3, <2>5, <2>6, <2>7, <2>8, <2>9 DEF Control
<1> QED BY <1>2, <1>3

LEMMA OutsideControl ==
  ASSUME Control,
         \/ Call \/ ServiceReturns \/ NothingToAbandon \/ (\E c \in BOOLEAN : Reply(c))
         \/ TimerFires \/ Close \/ Answer \/ UNCHANGED vars
  PROVE  Control'
<1>1. /\ Shape /\ OneScopeEach /\ QueueFits /\ JobFits /\ faults \in 0..MaxFaults
      /\ MaxFaults \in Nat
  BY ConstantsAssumption DEF Control, Shape
<1>2. CASE Call
  <2>1. within' \in [Actor -> 0..Len(scopes)]
    <3>1. Level("route") \in 0..Len(scopes) BY <1>1, LevelFacts DEF Actor, Worker
    <3>2. within' = [within EXCEPT !["service"] = Level("route")] BY <1>2 DEF Call
    <3>3. within \in [Actor -> 0..Len(scopes)] BY <1>1 DEF Shape
    <3> QED BY <3>1, <3>2, <3>3
  <2>2. Shape' BY <1>1, <1>2, <2>1 DEF Call, Shape, hostVars, endVars
  <2> QED BY <1>1, <1>2, <2>2, AsideControl DEF Call, JobFits, hostVars, endVars
<1>3. CASE ServiceReturns
  <2>1. Shape' BY <1>1, <1>3 DEF ServiceReturns, Shape, hostVars, endVars
  <2> QED BY <1>1, <1>3, <2>1, AsideControl DEF ServiceReturns, JobFits, hostVars, endVars
<1>4. CASE NothingToAbandon
  <2>1. Shape' BY <1>1, <1>4 DEF NothingToAbandon, Shape, hostVars, endVars
  <2> QED BY <1>1, <1>4, <2>1, AsideControl DEF NothingToAbandon, JobFits, hostVars, endVars
<1>5. ASSUME NEW c \in BOOLEAN, Reply(c) PROVE Control'
  BY <1>5, EndTxnControl DEF Reply
<1>6. CASE TimerFires
  <2>1. request' \in {"serving", "replied", "answered"} /\ commit' \in BOOLEAN
    BY <1>1, <1>6 DEF TimerFires, Shape
  <2> QED BY <1>6, <2>1, EndTxnControl DEF TimerFires
<1>7. CASE Close
  <2>1. job = None BY <1>7 DEF Close, Settled
  <2>2. /\ closing # "none" /\ closing' \in {"true", "false"}
        /\ conn' \in {"none", "held", "released"}
    BY <1>1, <1>7 DEF Close, GivenBack, Shape
  <2>3. faults' \in 0..MaxFaults BY <1>1, <1>7 DEF Close, Fails
  <2>4. unanswered' \in BOOLEAN /\ spoiled' \in BOOLEAN BY <1>1, <1>7 DEF Close, Shape
  <2>5. over BY <1>1, <2>2 DEF QueueFits
  <2>6. UNCHANGED <<joined, request, commit, answer, service, within, pending, job, ext, window,
                    savepoints, scopes, over, timer, ops>>
    BY <1>7 DEF Close
  <2>7. Shape' BY <1>1, <2>2, <2>3, <2>4, <2>6 DEF Shape
  <2>8. /\ Counted' /\ OneScopeEach' BY <2>6 DEF Control, Counted, OneScopeEach
  <2>9. \A x : OwnScope(x)' = OwnScope(x) BY <2>6 DEF OwnScope
  <2>10. QueueFits' BY <1>1, <2>2, <2>6, <2>9 DEF QueueFits
  <2>11. JobFits' BY <2>1, <2>6 DEF JobFits
  <2>12. Nested'
    <3>1. Len(scopes') = 0 /\ over' BY <1>1, <2>5, <2>6 DEF QueueFits
    <3>2. DOMAIN scopes' = {} BY <1>1, <2>6, <3>1, LenProperties DEF Shape
    <3> QED BY <3>1, <3>2 DEF Nested
  <2> QED BY <2>7, <2>8, <2>10, <2>11, <2>12 DEF Control
<1>8. CASE Answer
  <2>1. Shape' BY <1>1, <1>8 DEF Answer, Given, Shape, hostVars, endVars
  <2> QED BY <1>1, <1>8, <2>1, AsideControl DEF Answer, JobFits, hostVars, endVars
<1>9. CASE UNCHANGED vars
  <2>1. Shape' BY <1>1, <1>9 DEF vars, Shape, hostVars, endVars
  <2> QED BY <1>1, <1>9, <2>1, AsideControl DEF vars, JobFits, hostVars, endVars
<1> QED BY <1>2, <1>3, <1>4, <1>5, <1>6, <1>7, <1>8, <1>9

\* The steps that make a job ready to run, or end it.
LEMMA JobControl ==
  ASSUME Control, Prepare \/ Perform
  PROVE  Control'
<1>1. /\ Shape /\ JobFits /\ HostTypes /\ MaxFaults \in Nat
  BY ConstantsAssumption DEF Control, Shape, HostTypes
<1>2. job # None BY DEF Prepare, Perform, Open, OpenFails, AsBefore, Switch, SwitchRefused,
  SwitchFails, Switching, PassJoined, KeepWindow, OpenWindow, WindowFails, Windowed, Write,
  Savepoint, Release, Rollback, Abandon, StatementFails, SavepointFails, AbandonFails,
  Preparing, Performing
<1>3. job.inv \in Actor /\ (~joined => job.inv \in Worker)
      /\ (job.inv # "inline" => job.inv \in Worker)
  BY <1>1, <1>2 DEF JobFits, Shape, Job, Actor, Worker
<1>4. Fails => faults' \in 0..MaxFaults BY <1>1 DEF Fails, HostTypes
<1>5. CASE Open \/ AsBefore \/ Switch \/ PassJoined \/ KeepWindow \/ OpenWindow
  <2>1. Preparing /\ Ready
    BY <1>5 DEF Open, AsBefore, Switch, Switching, PassJoined, KeepWindow, OpenWindow, Windowed
  <2>2. savepoints' = savepoints
    BY <1>5 DEF Open, AsBefore, Switch, PassJoined, KeepWindow, OpenWindow, hostVars
  <2>3. HostTypes'
    BY <1>1, <1>3, <1>5 DEF HostTypes, Open, AsBefore, Switch, Switching, PassJoined, KeepWindow,
       OpenWindow, Windowed, hostVars
  <2> QED BY <2>1, <2>2, <2>3, ReadyControl
<1>6. CASE \/ OpenFails \/ SwitchRefused \/ SwitchFails \/ WindowFails
           \/ StatementFails \/ SavepointFails \/ AbandonFails
  <2>1. EndJob(FALSE)
    BY <1>6 DEF OpenFails, SwitchRefused, SwitchFails, WindowFails, StatementFails,
       SavepointFails, AbandonFails
  <2>2. savepoints' = savepoints
    BY <1>6 DEF OpenFails, SwitchRefused, SwitchFails, WindowFails, StatementFails,
       SavepointFails, AbandonFails, hostVars
  <2>3. HostTypes'
    <3>1. CASE OpenFails BY <1>1, <1>4, <3>1 DEF HostTypes, OpenFails, hostVars
    <3>2. CASE SwitchRefused BY <1>1, <3>2 DEF HostTypes, SwitchRefused, Forget
    <3>3. CASE SwitchFails BY <1>1, <1>4, <3>3 DEF HostTypes, SwitchFails, Forget
    <3>4. CASE WindowFails BY <1>1, <1>4, <3>4 DEF HostTypes, WindowFails
    <3>5. CASE StatementFails BY <1>1, <1>4, <3>5 DEF HostTypes, StatementFails
    <3>6. CASE SavepointFails BY <1>1, <1>4, <3>6 DEF HostTypes, SavepointFails
    <3>7. CASE AbandonFails BY <1>1, <1>4, <3>7 DEF HostTypes, AbandonFails, Forget
    <3> QED BY <1>6, <3>1, <3>2, <3>3, <3>4, <3>5, <3>6, <3>7
  <2>4. SavepointsMove(FALSE) BY <2>2 DEF SavepointsMove
  <2> QED BY <1>2, <2>1, <2>3, <2>4, EndControl
<1>7. CASE Write \/ Savepoint \/ Release \/ Rollback \/ Abandon
  <2>1. EndJob(TRUE) BY <1>7 DEF Write, Savepoint, Release, Rollback, Abandon
  <2>2. HostTypes'
    BY <1>1, <1>7 DEF HostTypes, Write, Savepoint, Release, Rollback, Abandon, Forget, hostVars
  <2>3. savepoints \in Seq(Worker) BY <1>1 DEF Shape
  <2>4. Mine => Len(savepoints) > 0
    <3>1. savepoints # <<>> => Len(savepoints) > 0 BY <2>3
    <3> QED BY <3>1 DEF Mine
  <2>5. SavepointsMove(TRUE)
    <3>1. CASE Write BY <3>1 DEF Write, SavepointsMove, hostVars
    <3>2. CASE Savepoint BY <3>2 DEF Savepoint, SavepointsMove
    <3>3. CASE Release BY <2>4, <3>3 DEF Release, SavepointsMove
    <3>4. CASE Rollback BY <2>4, <3>4 DEF Rollback, RollbackTo, SavepointsMove
    <3>5. CASE Abandon BY <3>5 DEF Abandon, RollbackTo, SavepointsMove
    <3> QED BY <1>7, <3>1, <3>2, <3>3, <3>4, <3>5
  <2> QED BY <1>2, <2>1, <2>2, <2>5, EndControl
<1> QED BY <1>5, <1>6, <1>7 DEF Prepare, Perform

LEMMA NextControl ==
  ASSUME Control, [Next]_vars
  PROVE  Control'
BY AcceptControl, RefuseControl, StartControl, StartAbandonControl, OutsideControl, JobControl
DEF Next

LEMMA InitControl == Init => Control
<1> SUFFICES ASSUME Init PROVE Control
  OBVIOUS
<1> USE ConstantsAssumption DEF Init
<1>1. /\ pending \in [Actor -> Sent \cup {None}] /\ \A x \in Actor : pending[x] = None
      /\ job = None /\ scopes = <<>> /\ savepoints = <<>> /\ ops = 0 /\ ~over /\ closing = "none"
      /\ spoiled = FALSE
  OBVIOUS
<1>2. scopes \in Seq(Scope) /\ savepoints \in Seq(Worker) /\ Len(scopes) = 0
      /\ Len(savepoints) = 0 /\ DOMAIN scopes = {}
  BY <1>1
<1>3. Shape
  <2>1. within \in [Actor -> 0..Len(scopes)] BY <1>2
  <2>2. /\ joined \in BOOLEAN /\ commit \in BOOLEAN /\ over \in BOOLEAN /\ timer \in BOOLEAN
        /\ spoiled \in BOOLEAN /\ unanswered \in BOOLEAN
    OBVIOUS
  <2>3. /\ request \in {"serving", "replied", "answered"}
        /\ answer \in {"none", "ok", "not_committed", "error"}
        /\ service \in {"idle", "on", "leaving", "off"}
        /\ conn \in {"none", "held", "released"}
        /\ closing \in {"none", "commit", "rollback", "true", "false"}
    OBVIOUS
  <2>4. /\ job \in Job \cup {None}
        /\ ext \in Worker \cup {None} /\ window \in Worker \cup {None}
    OBVIOUS
  <2>5. ops \in 0..MaxOps /\ faults \in 0..MaxFaults OBVIOUS
  <2> QED BY <1>1, <1>2, <2>1, <2>2, <2>3, <2>4, <2>5 DEF Shape
<1>4. Counted
  <2>1. /\ One(job # None /\ job.op # "abandon") = 0
        /\ \A x \in Actor : One(pending[x] # None) = 0
    BY <1>1 DEF One
  <2>2. "route" \in Actor /\ "service" \in Actor /\ "inline" \in Actor BY DEF Actor, Worker
  <2> QED BY <1>1, <1>2, <2>1, <2>2 DEF Counted
<1>5. OneScopeEach /\ QueueFits /\ JobFits
  BY <1>1, <1>2 DEF OneScopeEach, QueueFits, JobFits
<1>6. Nested
  <2>1. One(Opening) = 0 BY <1>1 DEF One, Opening
  <2> QED BY <1>1, <1>2, <2>1 DEF Nested, Top
<1> QED BY <1>3, <1>4, <1>5, <1>6 DEF Control

-----------------------------------------------------------------------------
(* The part about the server, its role, the savepoints' roles and writes,  *)
(* and the account of them.                                                *)

LEMMA UpSame ==
  ASSUME NEW a, NEW b, NEW k, \A j \in 1..k : a[j] = b[j]
  PROVE  UpToIn(a, k) = UpToIn(b, k)
BY DEF UpToIn

LEMMA UpStep ==
  ASSUME NEW b, NEW k \in Nat
  PROVE  UpToIn(b, k + 1) = UpToIn(b, k) \cup b[k + 1]
<1>1. \A j : j \in 1..k + 1 <=> j \in 1..k \/ j = k + 1 OBVIOUS
<1>2. ASSUME NEW w PROVE w \in UpToIn(b, k + 1) <=> w \in UpToIn(b, k) \cup b[k + 1]
  <2>1. w \in UpToIn(b, k + 1) <=> \E j \in 1..k + 1 : w \in b[j] BY Zenon DEF UpToIn
  <2>2. w \in UpToIn(b, k) <=> \E j \in 1..k : w \in b[j] BY Zenon DEF UpToIn
  <2> QED BY <1>1, <2>1, <2>2, Zenon
<1> QED BY <1>2

LEMMA ToldIs ==
  ASSUME Server, savepoints \in Seq(Worker)
  PROVE  Told = UpTo(Len(savepoints) + 1)
<1>1. PICK S : believed \in Seq(S) BY DEF Server, Listed
<1>2. DOMAIN believed = 1..Len(savepoints) + 1 BY <1>1, LenProperties DEF Server
<1> QED BY <1>2 DEF Told, UpTo, UpToIn

\* Steps that change nothing of it: a job may be taken up, or not.
LEMMA DataFrame ==
  ASSUME Data, UNCHANGED <<joined, conn, ext, window, savepoints, db, believed, kept, closing,
                           spoiled, unanswered, commit, request, answer>>,
         job' = job \/ job'.step = "prepare"
  PROVE  Data'
<1>1. Server' BY DEF Data, Server
<1>2. RolesFit' BY DEF Data, RolesFit, Performing
<1>3. BooksBalance' BY DEF Data, BooksBalance, UpTo
<1>4. EndFits' BY DEF Data, EndFits
<1> QED BY <1>1, <1>2, <1>3, <1>4 DEF Data

\* The server's state and role move, its savepoints and writes do not.
ServerMoves ==
  /\ DOMAIN db' = {"state", "role", "marks", "writes"}
  /\ db'.state \in {"none", "open", "aborted", "dead"} /\ db'.role \in Roles
  /\ db'.marks = db.marks /\ db'.writes = db.writes

LEMMA ServerMoved ==
  ASSUME Server, ServerMoves, BooksBalance, UNCHANGED <<savepoints, believed>>
  PROVE  Server' /\ BooksBalance'
<1>1. Server' BY DEF Server, ServerMoves
<1>2. BooksBalance' BY DEF BooksBalance, ServerMoves, UpTo
<1> QED BY <1>1, <1>2

LEMMA EndFitsKept ==
  ASSUME EndFits, JobFits, job # None,
         UNCHANGED <<closing, kept, unanswered, commit, request, answer>>,
         conn' = conn \/ (conn = "none" /\ conn' = "held"),
         conn = "none" => db'.writes = db.writes
  PROVE  EndFits'
BY DEF EndFits, JobFits

LEMMA DbUpdates ==
  ASSUME Server, NEW s \in {"none", "open", "aborted", "dead"}, NEW r \in Roles,
         \/ db' = db
         \/ db' = [db EXCEPT !.state = s]
         \/ db' = [db EXCEPT !.role = r]
         \/ db' = [db EXCEPT !.state = s, !.role = r]
  PROVE  /\ ServerMoves
         /\ db'.state \in {s, db.state} /\ db'.role \in {r, db.role}
         /\ db' = [db EXCEPT !.role = r] => db'.role = r /\ db'.state = db.state
         /\ db' = [db EXCEPT !.state = s] => db'.state = s /\ db'.role = db.role
         /\ db' = [db EXCEPT !.state = s, !.role = r] => db'.state = s /\ db'.role = r
BY DEF Server, ServerMoves

\* A job that becomes ready, as the role it runs as.
LEMMA ReadyData ==
  ASSUME Control, Data,
         Open \/ AsBefore \/ Switch \/ PassJoined \/ KeepWindow \/ OpenWindow
  PROVE  Data'
<1>1. /\ Server /\ RolesFit /\ BooksBalance /\ EndFits /\ JobFits /\ Shape
  BY DEF Control, Data
<1>2. /\ Preparing /\ Ready /\ job # None /\ job.step = "prepare"
  BY DEF Open, AsBefore, Switch, Switching, PassJoined, KeepWindow, OpenWindow, Windowed,
     Preparing
<1>3. job \in Job /\ job' \in Job /\ job'.inv = job.inv /\ job'.op = job.op
  BY <1>1, <1>2 DEF Shape, Ready, Job
<1>4. /\ UNCHANGED <<joined, closing, kept, unanswered, commit, request, answer, believed>>
  BY <1>2 DEF Ready, endVars
<1>5. savepoints' = savepoints
  BY DEF Open, AsBefore, Switch, PassJoined, KeepWindow, OpenWindow, hostVars
<1>6. /\ "caller" \in Roles
      /\ job.inv # "inline" => job.inv \in Roles
      /\ job.inv = "inline" => joined
  BY <1>1, <1>2, <1>3 DEF JobFits, Job, Actor, Roles
<1>7. job.inv # "inline" => job.inv \in Worker BY <1>3 DEF Job, Actor
<1>8. None \notin Worker BY ConstantsAssumption DEF Actor
<1>9. ServerMoves /\ RolesFit' /\ (conn' = conn \/ (conn = "none" /\ conn' = "held"))
  <2>1. CASE Open
    <3>1. job.inv \in Roles BY <1>6, <2>1 DEF Open
    <3>2. /\ ServerMoves /\ db'.role = job.inv
      BY <1>1, <2>1, <3>1, DbUpdates DEF Open
    <3>3. RolesFit'
      BY <1>1, <1>3, <1>4, <1>5, <2>1, <3>2 DEF Open, RolesFit
    <3> QED BY <2>1, <3>2, <3>3 DEF Open
  <2>2. CASE AsBefore
    <3>1. ServerMoves BY <1>1, <2>2 DEF AsBefore, Server, ServerMoves
    <3>2. RolesFit' BY <1>1, <1>3, <1>4, <1>5, <2>2 DEF AsBefore, RolesFit, hostVars
    <3> QED BY <2>2, <3>1, <3>2 DEF AsBefore, hostVars
  <2>3. CASE Switch
    <3>1. job.inv \in Roles BY <1>6, <2>3 DEF Switch, Switching
    <3>2. /\ ServerMoves /\ db'.role = job.inv BY <1>1, <2>3, <3>1, DbUpdates DEF Switch
    <3>3. RolesFit' BY <1>1, <1>3, <1>4, <1>5, <2>3, <3>2 DEF Switch, Switching, RolesFit
    <3> QED BY <2>3, <3>2, <3>3 DEF Switch
  <2>4. CASE PassJoined
    <3>1. RestoredRole \in Roles BY <1>1, <1>6 DEF RestoredRole, Server
    <3>2. /\ ServerMoves /\ db'.role = RestoredRole /\ db'.state = db.state
      BY <1>1, <2>4, <3>1, DbUpdates DEF PassJoined
    <3>3. db.state = "open" => RestoredRole = "caller"
      BY <1>1, <2>4 DEF RestoredRole, RolesFit, PassJoined
    <3>4. RolesFit'
      BY <1>1, <1>3, <1>4, <1>5, <2>4, <3>2, <3>3 DEF PassJoined, RolesFit, ServerMoves
    <3> QED BY <2>4, <3>2, <3>4 DEF PassJoined
  <2>5. CASE KeepWindow
    <3>1. ServerMoves BY <1>1, <2>5 DEF KeepWindow, Server, ServerMoves
    <3>2. RolesFit'
      BY <1>1, <1>3, <1>4, <1>5, <2>5 DEF KeepWindow, Windowed, SameWindow, RolesFit, hostVars
    <3> QED BY <2>5, <3>1, <3>2 DEF KeepWindow, hostVars
  <2>6. CASE OpenWindow
    <3>1. job.inv \in Roles /\ job.inv # None BY <1>6, <1>7, <1>8, <2>6 DEF OpenWindow, Windowed
    <3>2. /\ ServerMoves /\ db'.role = job.inv BY <1>1, <2>6, <3>1, DbUpdates DEF OpenWindow
    <3>3. RolesFit'
      BY <1>1, <1>3, <1>4, <1>5, <2>6, <3>1, <3>2 DEF OpenWindow, Windowed, RolesFit, ServerMoves
    <3> QED BY <2>6, <3>2, <3>3 DEF OpenWindow
  <2> QED BY <2>1, <2>2, <2>3, <2>4, <2>5, <2>6
<1>10. Server' /\ BooksBalance' BY <1>1, <1>4, <1>5, <1>9, ServerMoved
<1>11. EndFits' BY <1>1, <1>2, <1>4, <1>9, EndFitsKept DEF ServerMoves
<1> QED BY <1>9, <1>10, <1>11 DEF Data

\* A job that ends without success.
LEMMA FailedData ==
  ASSUME Control, Data,
         \/ OpenFails \/ SwitchRefused \/ SwitchFails \/ WindowFails
         \/ StatementFails \/ SavepointFails \/ AbandonFails
  PROVE  Data'
<1>1. /\ Server /\ RolesFit /\ BooksBalance /\ EndFits /\ JobFits /\ Shape
  BY DEF Control, Data
<1>2. EndJob(FALSE) /\ job # None
  BY DEF OpenFails, SwitchRefused, SwitchFails, Switching, WindowFails, Windowed,
     StatementFails, SavepointFails, AbandonFails, Preparing, Performing
<1>3. /\ job' = None
      /\ UNCHANGED <<joined, closing, kept, unanswered, commit, request, answer>>
  BY <1>2 DEF EndJob, endVars
<1>4. /\ savepoints' = savepoints /\ believed' = believed /\ conn' = conn
  BY DEF OpenFails, SwitchRefused, SwitchFails, WindowFails, StatementFails, SavepointFails,
     AbandonFails, hostVars
<1>5. "caller" \in Roles /\ "login" \in Roles BY DEF Roles
<1>6. db.state \in {"none", "open", "aborted", "dead"} /\ db.role \in Roles BY <1>1 DEF Server
<1>7. ~Performing' BY <1>3 DEF Performing
<1>8. Breaks => /\ ServerMoves
                /\ db'.state # "open" /\ db'.role = db.role
  <2>1. SUFFICES ASSUME NEW s \in {"aborted", "dead"}, db' = [db EXCEPT !.state = s]
                 PROVE  ServerMoves /\ db'.state # "open" /\ db'.role = db.role
    BY DEF Breaks
  <2> QED BY <1>1, <1>5, <2>1, DbUpdates
<1>9. db' = db => ServerMoves BY <1>1 DEF ServerMoves, Server
<1>10. ServerMoves /\ RolesFit'
  <2>1. CASE OpenFails
    <3>1. db' = db /\ ext' = ext /\ window' = window BY <2>1 DEF OpenFails, hostVars
    <3> QED BY <1>1, <1>3, <1>4, <1>7, <1>9, <3>1 DEF RolesFit
  <2>2. CASE SwitchRefused
    <3>1. db' = db /\ ext' = None /\ window' = window BY <2>2 DEF SwitchRefused, Forget
    <3> QED BY <1>1, <1>3, <1>4, <1>7, <1>9, <3>1 DEF RolesFit
  <2>3. CASE SwitchFails
    <3>1. /\ ext' = None /\ window' = window /\ ~joined
          /\ db' = [db EXCEPT !.state = "aborted"] \/ db' = [db EXCEPT !.role = "login"]
      BY <2>3 DEF SwitchFails, Switching, Forget
    <3>2. ServerMoves BY <1>1, <1>5, <3>1, DbUpdates
    <3> QED BY <1>1, <1>3, <1>4, <1>7, <3>1, <3>2 DEF RolesFit
  <2>4. CASE WindowFails
    <3>1. /\ window' = None /\ ext' = ext /\ joined
          /\ \/ db.state # "open" /\ db' = db
             \/ db' = [db EXCEPT !.state = "aborted"]
             \/ db' = [db EXCEPT !.role = "caller"]
      BY <2>4 DEF WindowFails, Windowed
    <3>2. ServerMoves /\ (db'.state = "open" => db'.role = "caller")
      BY <1>1, <1>5, <1>9, <3>1, DbUpdates
    <3> QED BY <1>1, <1>3, <1>4, <1>7, <3>1, <3>2 DEF RolesFit, ServerMoves
  <2>5. CASE StatementFails
    <3>1. /\ window' = None /\ ext' = ext
          /\ (db.state # "open" /\ db' = db) \/ Breaks
      BY <2>5 DEF StatementFails
    <3>2. ServerMoves /\ db'.state # "open" /\ db'.role = db.role BY <1>8, <1>9, <3>1
    <3> QED BY <1>1, <1>3, <1>4, <1>7, <3>1, <3>2 DEF RolesFit, ServerMoves
  <2>6. CASE SavepointFails
    <3>1. /\ window' = window /\ ext' \in {ext, None} /\ (db' = db \/ Breaks)
      BY <2>6 DEF SavepointFails
    <3>2. ServerMoves /\ db'.role = db.role /\ (db'.state = "open" => db.state = "open")
      BY <1>8, <1>9, <3>1
    <3> QED BY <1>1, <1>3, <1>4, <1>7, <3>1, <3>2 DEF RolesFit, ServerMoves
  <2>7. CASE AbandonFails
    <3>1. /\ window' = window /\ ext' = None /\ (db' = db \/ Breaks)
      BY <2>7 DEF AbandonFails, Forget
    <3>2. ServerMoves /\ db'.role = db.role /\ (db'.state = "open" => db.state = "open")
      BY <1>8, <1>9, <3>1
    <3> QED BY <1>1, <1>3, <1>4, <1>7, <3>1, <3>2 DEF RolesFit, ServerMoves
  <2> QED BY <2>1, <2>2, <2>3, <2>4, <2>5, <2>6, <2>7
<1>11. Server' /\ BooksBalance' BY <1>1, <1>4, <1>10, ServerMoved
<1>12. EndFits' BY <1>1, <1>2, <1>3, <1>4, <1>10, EndFitsKept DEF ServerMoves
<1> QED BY <1>10, <1>11, <1>12 DEF Data

\* What a job that runs may rely on.
LEMMA RunningFacts ==
  ASSUME Control, Data, Performing
  PROVE  /\ Server /\ RolesFit /\ BooksBalance /\ EndFits /\ JobFits /\ Shape
         /\ job # None /\ conn = "held"
         /\ savepoints \in Seq(Worker) /\ Len(savepoints) \in Nat
         /\ joined /\ job.op # "write" => window = None
<1>1. /\ Server /\ RolesFit /\ BooksBalance /\ EndFits /\ JobFits /\ Shape
  BY DEF Control, Data
<1>2. job # None /\ job.step = "perform" BY DEF Performing
<1>3. conn = "held" BY <1>1, <1>2 DEF RolesFit, EndFits, JobFits, Shape
<1>4. savepoints \in Seq(Worker) /\ Len(savepoints) \in Nat BY <1>1, LenProperties DEF Shape
<1>5. joined /\ job.op # "write" => window = None BY <1>1 DEF RolesFit
<1> QED BY <1>1, <1>2, <1>3, <1>4, <1>5

LEMMA WriteData ==
  ASSUME Control, Data, Write
  PROVE  Data'
<1> DEFINE L == Len(savepoints)
<1>1. /\ Server /\ RolesFit /\ BooksBalance /\ EndFits /\ JobFits /\ Shape
      /\ job # None /\ conn = "held" /\ savepoints \in Seq(Worker) /\ L \in Nat
  BY RunningFacts DEF Write
<1>2. /\ job' = None
      /\ UNCHANGED <<joined, closing, kept, unanswered, commit, request, answer>>
      /\ UNCHANGED <<conn, ext, window, savepoints>>
  BY DEF Write, EndJob, endVars, hostVars
<1>3. PICK w : /\ db' = [db EXCEPT !.writes = @ \cup {w}]
               /\ believed' = [believed EXCEPT ![Len(believed)] = @ \cup {w}]
  BY DEF Write
<1>4. Len(believed) = L + 1 /\ Listed(believed) BY <1>1 DEF Server
<1>5. /\ DOMAIN db' = {"state", "role", "marks", "writes"}
      /\ db'.state = db.state /\ db'.role = db.role /\ db'.marks = db.marks
      /\ db'.writes = db.writes \cup {w}
  BY <1>1, <1>3 DEF Server
<1>6. /\ Listed(believed') /\ Len(believed') = L + 1
      /\ \A j \in 1..L : believed'[j] = believed[j]
      /\ believed'[L + 1] = believed[L + 1] \cup {w}
  <2> DEFINE i == L + 1
             v == believed[L + 1] \cup {w}
  <2>1. believed' = Put(believed, i, v) BY <1>3, <1>4 DEF Put
  <2>2. i \in 1..Len(believed) BY <1>1, <1>4
  <2> HIDE DEF i, v
  <2>3. /\ Listed(Put(believed, i, v)) /\ Len(Put(believed, i, v)) = Len(believed)
        /\ \A j \in 1..Len(believed) :
             Put(believed, i, v)[j] = IF j = i THEN v ELSE believed[j]
    BY <1>4, <2>2, PutListed
  <2>4. believed'[L + 1] = v BY <2>1, <2>2, <2>3 DEF i
  <2>5. \A j \in 1..L : j \in 1..Len(believed) /\ j # L + 1 BY <1>1, <1>4
  <2> QED BY <1>4, <2>1, <2>3, <2>4, <2>5 DEF i, v
<1> HIDE DEF L
<1>7. Server' BY <1>1, <1>2, <1>5, <1>6 DEF Server, L
<1>8. \A k \in 0..L : UpToIn(believed', k) = UpToIn(believed, k)
  <2>1. SUFFICES ASSUME NEW k \in 0..L PROVE UpToIn(believed', k) = UpToIn(believed, k)
    OBVIOUS
  <2>2. \A j \in 1..k : believed'[j] = believed[j] BY <1>1, <1>6
  <2> QED BY <2>2, UpSame
<1>9. UpToIn(believed', L + 1) = UpToIn(believed, L + 1) \cup {w}
  <2>1. /\ UpToIn(believed', L + 1) = UpToIn(believed', L) \cup believed'[L + 1]
        /\ UpToIn(believed, L + 1) = UpToIn(believed, L) \cup believed[L + 1]
    BY <1>1, UpStep
  <2>2. UpToIn(believed', L) = UpToIn(believed, L) BY <1>1, <1>8
  <2> QED BY <1>6, <2>1, <2>2
<1>10. BooksBalance'
  <2>1. /\ db.writes = UpToIn(believed, L + 1)
        /\ \A k \in 1..L : db.marks[k].writes = UpToIn(believed, k)
    BY <1>1 DEF BooksBalance, UpTo, L
  <2>2. db'.writes = UpToIn(believed', L + 1) BY <1>5, <1>9, <2>1
  <2>3. \A k \in 1..L : db'.marks[k].writes = UpToIn(believed', k)
    <3>1. \A k \in 1..L : k \in 0..L BY <1>1
    <3> QED BY <1>5, <1>8, <2>1, <3>1
  <2> QED BY <1>2, <2>2, <2>3 DEF BooksBalance, UpTo, L
<1>11. RolesFit' BY <1>1, <1>2, <1>5 DEF RolesFit, Performing
<1>12. EndFits' BY <1>1, <1>2, EndFitsKept
<1> QED BY <1>7, <1>10, <1>11, <1>12 DEF Data

LEMMA SavepointData ==
  ASSUME Control, Data, Savepoint
  PROVE  Data'
<1> DEFINE L == Len(savepoints)
           m == [role |-> db.role, writes |-> db.writes]
<1>1. /\ Server /\ RolesFit /\ BooksBalance /\ EndFits /\ JobFits /\ Shape
      /\ job # None /\ conn = "held" /\ savepoints \in Seq(Worker) /\ L \in Nat
      /\ joined => window = None
  BY RunningFacts DEF Savepoint
<1>2. /\ job' = None
      /\ UNCHANGED <<joined, closing, kept, unanswered, commit, request, answer>>
      /\ UNCHANGED <<conn, ext, window>>
      /\ db' = [db EXCEPT !.marks = Append(@, m)]
      /\ believed' = Append(believed, {})
      /\ db.state = "open"
  BY DEF Savepoint, EndJob, endVars
<1>3. Len(savepoints') = L + 1
  <2>1. job.inv \in Worker BY <1>1 DEF Savepoint, JobFits, ScopeOp
  <2>2. savepoints' = Append(savepoints, job.inv) BY DEF Savepoint
  <2> QED BY <1>1, <2>1, <2>2, AppendProperties
<1>4. /\ Len(believed) = L + 1 /\ Listed(believed) /\ Listed(db.marks) /\ Len(db.marks) = L
  BY <1>1 DEF Server
<1>5. /\ m.role = db.role /\ m.writes = db.writes OBVIOUS
<1> HIDE DEF m
<1>6. /\ DOMAIN db' = {"state", "role", "marks", "writes"}
      /\ db'.state = db.state /\ db'.role = db.role /\ db'.writes = db.writes
      /\ db'.marks = Append(db.marks, m)
  BY <1>1, <1>2 DEF Server
<1>7. /\ Listed(db'.marks) /\ Len(db'.marks) = L + 1
      /\ \A k \in 1..L : db'.marks[k] = db.marks[k]
      /\ db'.marks[L + 1] = m
  BY <1>4, <1>6, AppendListed
<1>8. /\ Listed(believed') /\ Len(believed') = L + 2
      /\ \A j \in 1..L + 1 : believed'[j] = believed[j]
      /\ believed'[L + 2] = {}
  <2>1. /\ Listed(believed') /\ Len(believed') = Len(believed) + 1
        /\ \A j \in 1..Len(believed) : believed'[j] = believed[j]
        /\ believed'[Len(believed) + 1] = {}
    BY <1>2, <1>4, AppendListed
  <2>2. Len(believed) + 1 = L + 2 BY <1>1, <1>4
  <2> QED BY <1>4, <2>1, <2>2
<1> HIDE DEF L
<1>9. \A k \in 1..L + 1 : k \in 1..L \/ k = L + 1 BY <1>1
<1>10. Server'
  <2>1. \A k \in 1..L + 1 : db'.marks[k].role \in Roles
    BY <1>1, <1>5, <1>7, <1>9 DEF Server, L
  <2>2. Len(believed') = Len(savepoints') + 1 BY <1>1, <1>3, <1>8
  <2> QED BY <1>1, <1>3, <1>6, <1>7, <1>8, <2>1, <2>2 DEF Server
<1>11. \A k \in 0..L + 1 : UpToIn(believed', k) = UpToIn(believed, k)
  <2>1. SUFFICES ASSUME NEW k \in 0..L + 1 PROVE UpToIn(believed', k) = UpToIn(believed, k)
    OBVIOUS
  <2>2. \A j \in 1..k : believed'[j] = believed[j] BY <1>1, <1>8
  <2> QED BY <2>2, UpSame
<1>12. BooksBalance'
  <2>1. /\ db.writes = UpToIn(believed, L + 1)
        /\ \A k \in 1..L : db.marks[k].writes = UpToIn(believed, k)
    BY <1>1 DEF BooksBalance, UpTo, L
  <2>2. /\ UpToIn(believed', L + 1) = UpToIn(believed, L + 1)
        /\ \A k \in 1..L : UpToIn(believed', k) = UpToIn(believed, k)
    BY <1>1, <1>11
  <2>3. UpToIn(believed', L + 2) = UpToIn(believed', L + 1)
    <3>1. UpToIn(believed', (L + 1) + 1) = UpToIn(believed', L + 1) \cup believed'[(L + 1) + 1]
      <4>1. L + 1 \in Nat BY <1>1
      <4> QED BY <4>1, UpStep
    <3>2. (L + 1) + 1 = L + 2 BY <1>1
    <3> QED BY <1>8, <3>1, <3>2
  <2>4. db'.writes = UpToIn(believed', (L + 1) + 1)
    <3>1. (L + 1) + 1 = L + 2 BY <1>1
    <3> QED BY <1>6, <2>1, <2>2, <2>3, <3>1
  <2>5. \A k \in 1..L + 1 : db'.marks[k].writes = UpToIn(believed', k)
    BY <1>5, <1>7, <1>9, <2>1, <2>2
  <2> QED BY <1>3, <2>4, <2>5 DEF BooksBalance, UpTo
<1>13. RolesFit'
  <2>1. joined => \A k \in 1..L + 1 : db'.marks[k].role = "caller"
    BY <1>1, <1>2, <1>5, <1>7, <1>9 DEF RolesFit, L
  <2> QED BY <1>1, <1>2, <1>3, <1>6, <2>1 DEF RolesFit, Performing
<1>14. EndFits' BY <1>1, <1>2, EndFitsKept
<1> QED BY <1>10, <1>12, <1>13, <1>14 DEF Data

LEMMA ReleaseData ==
  ASSUME Control, Data, Release
  PROVE  Data'
<1> DEFINE L == Len(savepoints)
           c == Cut(believed, L)
           v == believed[L] \cup believed[L + 1]
<1>1. /\ Server /\ RolesFit /\ BooksBalance /\ EndFits /\ JobFits /\ Shape
      /\ job # None /\ conn = "held" /\ savepoints \in Seq(Worker) /\ L \in Nat
  BY RunningFacts DEF Release
<1>2. /\ job' = None
      /\ UNCHANGED <<joined, closing, kept, unanswered, commit, request, answer>>
      /\ UNCHANGED <<conn, ext, window>>
      /\ db' = [db EXCEPT !.marks = Cut(@, L - 1)]
      /\ savepoints' = Cut(savepoints, L - 1)
      /\ believed' = [Cut(believed, Len(believed) - 1) EXCEPT
                        ![Len(believed) - 1] = @ \cup Last(believed)]
  BY DEF Release, EndJob, endVars
<1>3. L > 0
  <2>1. savepoints # <<>> BY DEF Release, Mine
  <2> QED BY <1>1, <2>1
<1>4. /\ Len(believed) = L + 1 /\ Listed(believed) /\ Listed(db.marks) /\ Len(db.marks) = L
      /\ Len(believed) - 1 = L /\ Last(believed) = believed[L + 1]
  BY <1>1 DEF Server, Last
<1>5. Len(savepoints') = L - 1
  <2>1. L - 1 \in 0..Len(savepoints) BY <1>1, <1>3
  <2> QED BY <1>1, <1>2, <2>1, CutTyped
<1>6. /\ DOMAIN db' = {"state", "role", "marks", "writes"}
      /\ db'.state = db.state /\ db'.role = db.role /\ db'.writes = db.writes
      /\ db'.marks = Cut(db.marks, L - 1)
  BY <1>1, <1>2 DEF Server
<1> HIDE DEF L
<1>7. /\ Listed(db'.marks) /\ Len(db'.marks) = L - 1
      /\ \A k \in 1..L - 1 : db'.marks[k] = db.marks[k]
  <2>1. L - 1 \in 0..Len(db.marks) BY <1>1, <1>3, <1>4
  <2> QED BY <1>4, <1>6, <2>1, CutListed
<1>8. /\ Listed(c) /\ Len(c) = L /\ \A j \in 1..L : c[j] = believed[j]
  <2>1. L \in 0..Len(believed) BY <1>1, <1>4
  <2> QED BY <1>4, <2>1, CutListed
<1>9. believed' = Put(c, L, v)
  <2>1. c[L] = believed[L]
    <3>1. L \in 1..L BY <1>1, <1>3
    <3> QED BY <1>8, <3>1
  <2>2. believed' = [c EXCEPT ![L] = c[L] \cup believed[L + 1]] BY <1>2, <1>4
  <2> HIDE DEF c
  <2> QED BY <2>1, <2>2 DEF Put
<1>10. /\ Listed(believed') /\ Len(believed') = L
       /\ \A j \in 1..L - 1 : believed'[j] = believed[j]
       /\ believed'[L] = v
  <2>1. L \in 1..Len(c) BY <1>1, <1>3, <1>8
  <2> HIDE DEF c, v
  <2>2. /\ Listed(Put(c, L, v)) /\ Len(Put(c, L, v)) = Len(c)
        /\ \A j \in 1..Len(c) : Put(c, L, v)[j] = IF j = L THEN v ELSE c[j]
    BY <1>8, <2>1, PutListed
  <2>3. \A j \in 1..L - 1 : j \in 1..Len(c) /\ j # L /\ j \in 1..L BY <1>1, <1>8
  <2> QED BY <1>8, <1>9, <2>1, <2>2, <2>3
<1> HIDE DEF c
<1>11. Server'
  <2>1. \A k \in 1..L - 1 : k \in 1..L BY <1>1
  <2>2. \A k \in 1..L - 1 : db'.marks[k].role \in Roles BY <1>1, <1>7, <2>1 DEF Server, L
  <2>3. Len(believed') = Len(savepoints') + 1 BY <1>1, <1>5, <1>10
  <2> QED BY <1>1, <1>5, <1>6, <1>7, <1>10, <2>2, <2>3 DEF Server
<1>12. \A k \in 0..L - 1 : UpToIn(believed', k) = UpToIn(believed, k)
  <2>1. SUFFICES ASSUME NEW k \in 0..L - 1 PROVE UpToIn(believed', k) = UpToIn(believed, k)
    OBVIOUS
  <2>2. \A j \in 1..k : believed'[j] = believed[j] BY <1>1, <1>10
  <2> QED BY <2>2, UpSame
<1>13. UpToIn(believed', L) = UpToIn(believed, L + 1)
  <2> DEFINE l == L - 1
  <2>1. l \in Nat /\ l + 1 = L /\ L \in Nat BY <1>1, <1>3
  <2>2. UpToIn(believed', l) = UpToIn(believed, l) BY <1>12, <2>1
  <2> HIDE DEF l
  <2>3. /\ UpToIn(believed', l + 1) = UpToIn(believed', l) \cup believed'[l + 1]
        /\ UpToIn(believed, l + 1) = UpToIn(believed, l) \cup believed[l + 1]
        /\ UpToIn(believed, L + 1) = UpToIn(believed, L) \cup believed[L + 1]
    BY <2>1, UpStep
  <2>4. /\ UpToIn(believed', L) = UpToIn(believed', l) \cup believed'[L]
        /\ UpToIn(believed, L) = UpToIn(believed, l) \cup believed[L]
    BY <2>1, <2>3
  <2> QED BY <1>10, <2>2, <2>3, <2>4
<1>14. BooksBalance'
  <2>1. /\ db.writes = UpToIn(believed, L + 1)
        /\ \A k \in 1..L : db.marks[k].writes = UpToIn(believed, k)
    BY <1>1 DEF BooksBalance, UpTo, L
  <2>2. Len(savepoints') + 1 = L BY <1>1, <1>5
  <2>3. \A k \in 1..L - 1 : k \in 1..L /\ k \in 0..L - 1 BY <1>1
  <2>4. \A k \in 1..L - 1 : db'.marks[k].writes = UpToIn(believed', k)
    BY <1>7, <1>12, <2>1, <2>3
  <2> QED BY <1>5, <1>6, <1>13, <2>1, <2>2, <2>4 DEF BooksBalance, UpTo
<1>15. RolesFit'
  <2>1. \A k \in 1..L - 1 : k \in 1..L BY <1>1
  <2>2. joined => \A k \in 1..L - 1 : db'.marks[k].role = "caller"
    BY <1>1, <1>7, <2>1 DEF RolesFit, L
  <2> QED BY <1>1, <1>2, <1>5, <1>6, <2>2 DEF RolesFit, Performing
<1>16. EndFits' BY <1>1, <1>2, EndFitsKept
<1> QED BY <1>11, <1>14, <1>15, <1>16 DEF Data

\* Back to a savepoint: its role, its writes, and what was told by then.
LEMMA RollbackData ==
  ASSUME Control, Data, Performing, job.op # "write",
         NEW n \in 0..Len(savepoints) - 1, RollbackTo(n), Forget, EndJob(TRUE),
         UNCHANGED <<conn, window>>
  PROVE  Data'
<1> DEFINE L == Len(savepoints)
<1>1. /\ Server /\ RolesFit /\ BooksBalance /\ EndFits /\ JobFits /\ Shape
      /\ job # None /\ conn = "held" /\ savepoints \in Seq(Worker) /\ L \in Nat
      /\ joined => window = None
  BY RunningFacts
<1>2. /\ job' = None /\ ext' = None
      /\ UNCHANGED <<joined, closing, kept, unanswered, commit, request, answer>>
      /\ db' = [state |-> "open", role |-> db.marks[n + 1].role,
                marks |-> Cut(db.marks, n), writes |-> db.marks[n + 1].writes]
      /\ savepoints' = Cut(savepoints, n)
      /\ believed' = Cut(believed, n + 1)
  BY DEF RollbackTo, EndJob, endVars, Forget
<1>3. /\ n \in Nat /\ n <= L /\ n + 1 \in 1..L /\ n + 1 \in 0..L + 1 /\ n \in 0..L
  BY <1>1
<1>4. /\ Len(believed) = L + 1 /\ Listed(believed) /\ Listed(db.marks) /\ Len(db.marks) = L
  BY <1>1 DEF Server
<1>5. Len(savepoints') = n BY <1>1, <1>2, <1>3, CutTyped
<1>6. /\ DOMAIN db' = {"state", "role", "marks", "writes"}
      /\ db'.state = "open" /\ db'.role = db.marks[n + 1].role
      /\ db'.marks = Cut(db.marks, n) /\ db'.writes = db.marks[n + 1].writes
  BY <1>2
<1> HIDE DEF L
<1>7. /\ Listed(db'.marks) /\ Len(db'.marks) = n
      /\ \A k \in 1..n : db'.marks[k] = db.marks[k]
  BY <1>3, <1>4, <1>6, CutListed
<1>8. /\ Listed(believed') /\ Len(believed') = n + 1
      /\ \A j \in 1..n + 1 : believed'[j] = believed[j]
  BY <1>2, <1>3, <1>4, CutListed
<1>9. \A k \in 1..n : k \in 1..L BY <1>1, <1>3
<1>10. Server'
  <2>1. \A k \in 1..n : db'.marks[k].role \in Roles BY <1>1, <1>7, <1>9 DEF Server, L
  <2>2. db'.role \in Roles BY <1>1, <1>3, <1>6 DEF Server, L
  <2> QED BY <1>5, <1>6, <1>7, <1>8, <2>1, <2>2 DEF Server
<1>11. \A k \in 0..n + 1 : UpToIn(believed', k) = UpToIn(believed, k)
  <2>1. SUFFICES ASSUME NEW k \in 0..n + 1 PROVE UpToIn(believed', k) = UpToIn(believed, k)
    OBVIOUS
  <2>2. \A j \in 1..k : believed'[j] = believed[j] BY <1>3, <1>8
  <2> QED BY <2>2, UpSame
<1>12. BooksBalance'
  <2>1. \A k \in 1..L : db.marks[k].writes = UpToIn(believed, k)
    BY <1>1 DEF BooksBalance, UpTo, L
  <2>2. db'.writes = UpToIn(believed', n + 1)
    <3>1. n + 1 \in 0..n + 1 BY <1>3
    <3> QED BY <1>3, <1>6, <1>11, <2>1, <3>1
  <2>3. \A k \in 1..n : k \in 0..n + 1 BY <1>3
  <2>4. \A k \in 1..n : db'.marks[k].writes = UpToIn(believed', k)
    BY <1>7, <1>9, <1>11, <2>1, <2>3
  <2> QED BY <1>5, <2>2, <2>4 DEF BooksBalance, UpTo
<1>13. RolesFit'
  <2>1. joined => /\ db'.role = "caller"
                  /\ \A k \in 1..n : db'.marks[k].role = "caller"
    BY <1>1, <1>3, <1>6, <1>7, <1>9 DEF RolesFit, L
  <2> QED BY <1>1, <1>2, <1>5, <1>6, <2>1 DEF RolesFit, Performing
<1>14. EndFits' BY <1>1, <1>2, EndFitsKept
<1> QED BY <1>10, <1>12, <1>13, <1>14 DEF Data

LEMMA PerformData ==
  ASSUME Control, Data, Perform
  PROVE  Data'
<1>1. CASE Write BY <1>1, WriteData
<1>2. CASE Savepoint BY <1>2, SavepointData
<1>3. CASE Release BY <1>3, ReleaseData
<1>4. CASE Rollback
  <2>1. Performing /\ Len(savepoints) \in Nat BY <1>4, RunningFacts DEF Rollback
  <2>2. Len(savepoints) > 0
    <3>1. savepoints \in Seq(Worker) /\ savepoints # <<>>
      BY <1>4, <2>1, RunningFacts DEF Rollback, Mine
    <3> QED BY <3>1
  <2>3. Len(savepoints) - 1 \in 0..Len(savepoints) - 1 BY <2>1, <2>2
  <2> QED BY <1>4, <2>1, <2>3, RollbackData DEF Rollback
<1>5. CASE Abandon
  <2>1. Performing /\ Len(savepoints) \in Nat BY <1>5, RunningFacts DEF Abandon
  <2>2. job.base \in Nat /\ job.base < Len(savepoints)
    BY <1>5, <2>1, RunningFacts, ConstantsAssumption DEF Abandon, JobFits, Shape, Job
  <2>3. job.base \in 0..Len(savepoints) - 1 BY <2>1, <2>2
  <2> QED BY <1>5, <2>1, <2>3, RollbackData DEF Abandon
<1>6. CASE StatementFails \/ SavepointFails \/ AbandonFails BY <1>6, FailedData
<1> QED BY <1>1, <1>2, <1>3, <1>4, <1>5, <1>6 DEF Perform

\* The steps outside of the connection.
LEMMA OutsideData ==
  ASSUME Control, Data,
         \/ (\E x \in Actor : Start(x) \/ Refuse(x) \/ \E op \in Op : Accept(x, op))
         \/ Call \/ ServiceReturns \/ StartAbandon \/ NothingToAbandon
         \/ (\E c \in BOOLEAN : Reply(c)) \/ TimerFires \/ Close \/ Answer \/ UNCHANGED vars
  PROVE  Data'
<1>1. /\ Server /\ RolesFit /\ BooksBalance /\ EndFits /\ Shape
  BY DEF Control, Data
<1>2. ASSUME NEW x \in Actor, Start(x) PROVE Data'
  <2>1. job'.step = "prepare" BY <1>2 DEF Start
  <2> QED BY <1>2, <2>1, DataFrame DEF Start, hostVars, endVars
<1>3. ASSUME NEW x \in Actor, Refuse(x) \/ \E op \in Op : Accept(x, op) PROVE Data'
  BY <1>3, DataFrame DEF Refuse, Accept, hostVars, endVars
<1>4. CASE Call \/ ServiceReturns \/ NothingToAbandon \/ UNCHANGED vars
  BY <1>4, DataFrame DEF Call, ServiceReturns, NothingToAbandon, vars, hostVars, endVars
<1>5. CASE StartAbandon
  <2>1. job'.step = "prepare" BY <1>5 DEF StartAbandon
  <2> QED BY <1>5, <2>1, DataFrame DEF StartAbandon, hostVars, endVars
<1>6. ASSUME UNCHANGED <<joined, job, conn, ext, window, savepoints, db, believed>>, EndFits'
      PROVE  Data'
  <2>1. Server' BY <1>1, <1>6 DEF Server
  <2>2. RolesFit' BY <1>1, <1>6 DEF RolesFit, Performing
  <2>3. BooksBalance' BY <1>1, <1>6 DEF BooksBalance, UpTo
  <2> QED BY <1>6, <2>1, <2>2, <2>3 DEF Data
<1>7. ASSUME NEW c \in BOOLEAN, Reply(c) PROVE Data'
  <2>1. /\ request = "serving" /\ request' = "replied" /\ commit' = c
        /\ UNCHANGED <<joined, answer, job, conn, ext, window, savepoints, db, kept, believed,
                       spoiled, unanswered>>
        /\ EndTxn(c)
    BY <1>7 DEF Reply
  <2>2. answer = "none" BY <1>1, <2>1 DEF EndFits
  <2>3. closing' = closing \/ (closing = "none" /\ closing' = IF c THEN "commit" ELSE "rollback")
    BY <2>1 DEF EndTxn
  <2>4. EndFits' BY <1>1, <2>1, <2>2, <2>3 DEF EndFits
  <2> QED BY <1>6, <2>1, <2>4
<1>8. CASE TimerFires
  <2>1. /\ closing = "none" /\ closing' = "rollback"
        /\ UNCHANGED <<joined, request, commit, answer, job, conn, ext, window, savepoints, db,
                       kept, believed, spoiled, unanswered>>
    BY <1>8 DEF TimerFires, EndTxn
  <2>2. EndFits' BY <1>1, <2>1 DEF EndFits
  <2> QED BY <1>6, <2>1, <2>2
<1>9. CASE Close
  <2>1. /\ closing \in {"commit", "rollback"} /\ job = None /\ conn' = GivenBack
        /\ UNCHANGED <<joined, request, commit, answer, job, ext, window, savepoints, db,
                       believed>>
    BY <1>9 DEF Close, Settled
  <2>2. /\ kept = {} /\ ~unanswered /\ conn # "released"
        /\ closing = "commit" => commit
        /\ request = "serving" => closing = "rollback"
        /\ answer = "none"
    BY <1>1, <2>1 DEF EndFits, Shape
  <2>3. conn \in {"none", "held"} /\ (conn' = "none" => conn = "none")
    BY <1>1, <2>1, <2>2 DEF Shape, GivenBack
  <2>4. EndFits'
    <3>1. CASE /\ conn = "held" /\ closing = "commit" /\ db.state = "open"
               /\ kept' = db.writes
               /\ closing' = "true" /\ UNCHANGED <<spoiled, unanswered, faults>>
      BY <1>1, <2>1, <2>2, <2>3, <3>1 DEF EndFits
    <3>2. CASE /\ closing = "commit"
               /\ \E w \in {{}, db.writes} : kept' = w /\ unanswered' = (w # {})
               /\ closing' = "false" /\ UNCHANGED spoiled
      BY <1>1, <2>1, <2>2, <2>3, <3>2 DEF EndFits
    <3>3. CASE /\ closing = "commit" /\ spoiled' = TRUE
               /\ closing' = "true" /\ UNCHANGED <<kept, unanswered, faults>>
      BY <1>1, <2>1, <2>2, <2>3, <3>3 DEF EndFits
    <3>4. CASE closing' = "false" /\ UNCHANGED <<kept, spoiled, unanswered, faults>>
      BY <1>1, <2>1, <2>2, <2>3, <3>4 DEF EndFits
    <3>5. CASE /\ conn = "none"
               /\ closing' = IF closing = "commit" THEN "true" ELSE "false"
               /\ UNCHANGED <<kept, spoiled, unanswered, faults>>
      BY <1>1, <2>1, <2>2, <2>3, <3>5 DEF EndFits
    <3> QED BY <1>9, <3>1, <3>2, <3>3, <3>4, <3>5 DEF Close
  <2>5. RolesFit' BY <1>1, <2>1, <2>3 DEF RolesFit, Performing
  <2>6. Server' BY <1>1, <2>1 DEF Server
  <2>7. BooksBalance' BY <1>1, <2>1 DEF BooksBalance, UpTo
  <2> QED BY <2>4, <2>5, <2>6, <2>7 DEF Data
<1>10. CASE Answer
  <2>1. /\ closing \in {"true", "false"} /\ request' = "answered" /\ answer' = Given
        /\ UNCHANGED <<joined, commit, job, conn, ext, window, savepoints, db, kept, closing,
                       believed, spoiled, unanswered>>
    BY <1>10 DEF Answer, hostVars, endVars
  <2>2. EndFits' BY <1>1, <2>1 DEF EndFits, Given
  <2> QED BY <1>6, <2>1, <2>2
<1> QED BY <1>2, <1>3, <1>4, <1>5, <1>7, <1>8, <1>9, <1>10

LEMMA InitData == Init => Data
<1> SUFFICES ASSUME Init PROVE Data
  OBVIOUS
<1> USE DEF Init
<1>1. /\ savepoints = <<>> /\ Len(savepoints) = 0 /\ believed = <<{}>> /\ job = None
      /\ ext = None /\ window = None
  OBVIOUS
<1>2. /\ DOMAIN db = {"state", "role", "marks", "writes"}
      /\ db.state = (IF joined THEN "open" ELSE "none") /\ db.role = "caller"
      /\ db.marks = <<>> /\ db.writes = {}
  BY DEF Caller
<1>3. Server
  <2>1. Listed(db.marks) /\ Len(db.marks) = 0
    <3>1. <<>> \in Seq({}) /\ Len(<<>>) = 0 OBVIOUS
    <3> QED BY <1>2, <3>1 DEF Listed
  <2>2. Listed(believed) /\ Len(believed) = 1
    <3>1. <<{}>> \in Seq({{}}) /\ Len(<<{}>>) = 1 OBVIOUS
    <3> QED BY <1>1, <3>1 DEF Listed
  <2>3. db.role \in Roles BY <1>2 DEF Roles
  <2>4. db.state \in {"none", "open", "aborted", "dead"} BY <1>2
  <2> QED BY <1>1, <1>2, <2>1, <2>2, <2>3, <2>4 DEF Server
<1>4. RolesFit BY <1>1, <1>2 DEF RolesFit, Performing
<1>5. BooksBalance
  <2>1. \A j \in 1..1 : believed[j] = {}
    <3>1. \A j \in 1..1 : j = 1 OBVIOUS
    <3> QED BY <1>1, <3>1
  <2>2. UpToIn(believed, 1) = {} BY <2>1 DEF UpToIn
  <2>3. Len(savepoints) + 1 = 1 /\ 1..Len(savepoints) = {} BY <1>1
  <2> QED BY <1>2, <2>2, <2>3 DEF BooksBalance, UpTo
<1>6. EndFits BY <1>2 DEF EndFits
<1> QED BY <1>3, <1>4, <1>5, <1>6 DEF Data

LEMMA NextIInv ==
  ASSUME IInv, [Next]_vars
  PROVE  IInv'
<1>1. Control /\ Data BY DEF IInv
<1>2. Control' BY <1>1, NextControl
<1>3. Data'
  <2>1. CASE Prepare BY <1>1, <2>1, ReadyData, FailedData DEF Prepare
  <2>2. CASE Perform BY <1>1, <2>2, PerformData
  <2>3. CASE ~Prepare /\ ~Perform BY <1>1, <2>3, OutsideData DEF Next
  <2> QED BY <2>1, <2>2, <2>3
<1> QED BY <1>2, <1>3 DEF IInv

-----------------------------------------------------------------------------
\* worker-extension-host.ts, RequestTxn: turns, scopes and savepoints fit, the
\* host's idea of the role fits the server's, and the accounts balance.
THEOREM Inductive == Spec => []IInv
<1>1. Init => IInv BY InitControl, InitData DEF IInv
<1>2. IInv /\ [Next]_vars => IInv' BY NextIInv
<1> QED BY <1>1, <1>2, PTL DEF Spec

\* The state of a request's transaction stays well typed: at most two scopes,
\* none deeper than its bound.
THEOREM TypeCorrect == Spec => []TypeOK
<1>1. ASSUME IInv PROVE TypeOK
  <2>1. /\ Shape /\ Server /\ OneScopeEach BY <1>1 DEF IInv, Control, Data
  <2>2. /\ Len(scopes) <= 2
        /\ \A n \in DOMAIN scopes : scopes[n].depth \in 1..MaxDepth
    BY <2>1, ScopeFacts, AtMostTwo
  <2>3. \A x \in Actor : pending[x] # None => pending[x] \in Op BY <2>1 DEF Shape, Sent, Op
  <2> QED BY <2>1, <2>2, <2>3 DEF Shape, Server, TypeOK
<1> QED BY <1>1, Inductive, PTL

\* setWorkerRole, joinedStatement and savepointOp: whatever ran and failed
\* before it, a statement runs as the role of its own extension, and a
\* statement of inline code as its caller's.
THEOREM EachAsItself == Spec => []RunsAsItself
<1>1. ASSUME IInv PROVE RunsAsItself
  <2>1. Shape /\ JobFits /\ RolesFit BY <1>1 DEF IInv, Control, Data
  <2>2. job # None => job.inv \in Worker \cup {"inline"} BY <2>1 DEF Shape, Job, Actor
  <2>3. None \notin Worker BY ConstantsAssumption DEF Actor
  <2> QED BY <2>1, <2>2, <2>3 DEF RunsAsItself, RolesFit, JobFits, Performing
<1> QED BY <1>1, Inductive, PTL

\* endRequestTxn and mountProxyRoutes: "ok" is said only of what was kept, and
\* nothing else that is said leaves a write behind unheard.
THEOREM AnswersAreTrue == Spec => []AnswerTells
<1>1. ASSUME IInv PROVE AnswerTells
  <2>1. Shape /\ Server /\ EndFits /\ BooksBalance BY <1>1 DEF IInv, Control, Data
  <2>2. db.writes = Told BY <2>1, ToldIs DEF BooksBalance, Shape
  <2> QED BY <2>1, <2>2 DEF AnswerTells, EndFits
<1> QED BY <1>1, Inductive, PTL

\* savepointOp and abandonScopes: the host's list of savepoints is the server's,
\* and each lies in the scope of the extension that took it.
THEOREM SavepointsAgree == Spec => []SavepointsMatch
<1>1. ASSUME IInv PROVE SavepointsMatch
  <2> DEFINE N == Len(scopes)
             L == Len(savepoints)
  <2>1. /\ Shape /\ OneScopeEach /\ QueueFits /\ JobFits /\ Nested /\ Server
    BY <1>1 DEF IInv, Control, Data
  <2>2. L = Len(db.marks) BY <2>1 DEF Server
  <2>3. SUFFICES ASSUME NEW n \in DOMAIN scopes, ~spoiled,
                        ~(job # None /\ job.inv = scopes[n].inv /\ job.op = "scope"),
                        NEW d \in scopes[n].base + 1..scopes[n].base + scopes[n].depth
                 PROVE  d \in DOMAIN savepoints /\ savepoints[d] = scopes[n].inv
    BY <2>2 DEF SavepointsMatch
  <2>4. /\ N \in 1..2 /\ n \in 1..N /\ DOMAIN scopes = 1..N
        /\ \A k \in 1..N : scopes[k].base \in Nat /\ scopes[k].depth \in Nat
    BY <2>1, <2>3, ScopeFacts, AtMostTwo, ConstantsAssumption
  <2>5. ~over BY <2>1, <2>4 DEF QueueFits
  <2>6. L \in Nat /\ DOMAIN savepoints = 1..L BY <2>1, LenProperties DEF Shape
  <2>7. /\ L + One(Opening) = scopes[N].base + scopes[N].depth
        /\ N = 2 => scopes[2].base = scopes[1].base + scopes[1].depth
    <3>1. L + One(Opening) = Top(N) BY <2>1, <2>3, <2>5 DEF Nested
    <3>2. Top(N) = scopes[N].base + scopes[N].depth BY <2>4 DEF Top
    <3>3. N = 2 => scopes[2].base = Top(2 - 1) BY <2>1, <2>3, <2>4, <2>5 DEF Nested
    <3> QED BY <3>1, <3>2, <3>3 DEF Top
  <2>8. d <= L
    <3>a. d \in Nat /\ d <= scopes[n].base + scopes[n].depth BY <2>3, <2>4
    <3>b. n = N \/ (n = 1 /\ N = 2)
      <4> HIDE DEF N
      <4>1. N \in 1..2 /\ n \in 1..N BY <2>4
      <4> QED BY <4>1
    <3>1. CASE ~Opening
      <4>1. One(Opening) = 0 BY <3>1 DEF One
      <4> QED BY <2>4, <2>6, <2>7, <3>a, <3>b, <4>1
    <3>2. CASE Opening
      <4>1. One(Opening) = 1 BY <3>2 DEF One
      <4>2. job # None /\ job.op = "scope" BY <3>2 DEF Opening
      <4>3. /\ scopes[N].depth = 1
            /\ OwnScope(job.inv) > 0 /\ OwnScope(job.inv) = N
        BY <2>1, <2>5, <4>2 DEF JobFits, ScopeOp
      <4>4. scopes[N].inv = job.inv
        <5>1. OwnIn(scopes, job.inv) > 0 /\ OwnIn(scopes, job.inv) = N BY <2>1, <4>3, ScopeFacts
        <5> QED BY <2>1, <5>1, ScopeFacts, OwnFacts
      <4>5. n = 1 /\ N = 2
        <5>1. n # N BY <2>3, <4>2, <4>4
        <5> QED BY <2>4, <5>1
      <4> QED BY <2>4, <2>6, <2>7, <3>a, <4>1, <4>3, <4>5
    <3> QED BY <3>1, <3>2
  <2>9. d \in 1..L BY <2>3, <2>4, <2>6, <2>8
  <2> QED BY <2>1, <2>3, <2>5, <2>6, <2>9 DEF Nested
<1> QED BY <1>1, Inductive, PTL

\* onConnection and endRequestTxn: nothing runs on a connection that was given
\* back.
THEOREM NothingIsSentLate == Spec => []NothingAfterEnd
<1>1. ASSUME IInv PROVE NothingAfterEnd
  BY <1>1 DEF IInv, Control, Data, JobFits, EndFits, NothingAfterEnd
<1> QED BY <1>1, Inductive, PTL

=============================================================================
