----------------------------- MODULE QueryCache -----------------------------
(***************************************************************************)
(* The query cache in Valkey (lib/data/query-cache.ts) and the time-travel *)
(* counts that share its user index (lib/data/time-travel-count.ts).       *)
(* A reader that misses reads the database, then files what it read with   *)
(* one command after the other: SETEX the page, and for each index of the  *)
(* page SADD and EXPIRE.  A change commits and then, index by index, reads *)
(* the members (SMEMBERS) and deletes them with the index (DEL).  Every    *)
(* process interleaves between two commands, and a command that fails ends *)
(* the filing or the invalidation it belongs to.                           *)
(*                                                                         *)
(* A page holds what its reader saw: per index, the version of the thing   *)
(* the index stands for (a tenant's rows and rules of the collection, or a *)
(* user's authorization).  Authorization and rows are read in one step:    *)
(* every property is about one index at a time.                            *)
(***************************************************************************)
EXTENDS Integers, Sequences, FiniteSets, SequencesExt

CONSTANTS
  Page,        \* cache keys
  CountPage,   \* the ones that hold a time-travel count, the others hold a list
  Tenants,     \* collection indexes qc_keys:{tenant}:{collection}, of one collection
  Users,       \* user indexes user:qc-keys:{user}
  Order,       \* Order[p]: the indexes p is filed in, in order
  Reader,      \* requests that can be filing a page
  Changer,     \* writes and authorization changes that can be under way
  None,
  ListTtl,     \* CACHE_TTL
  CountTtl,    \* TTL_SECONDS
  Slack,       \* the 5 seconds an index is to outlive its pages
  MaxReads,    \* bound: misses that read the database
  MaxChanges,  \* bound: changes started
  MaxFaults    \* bound: commands that fail

Index == Tenants \cup Users
Filed(p) == ToSet(Order[p])

ASSUME ConstantsAssumption ==
  /\ CountPage \subseteq Page
  /\ Tenants \cap Users = {}
  /\ \A p \in Page : Order[p] \in Seq(Index) /\ Order[p] # <<>>
  /\ \A p \in Page \ CountPage : \E i \in Filed(p) : i \in Tenants
  /\ \A p \in CountPage : Filed(p) \subseteq Users
  /\ ListTtl \in Nat \ {0} /\ CountTtl \in Nat \ {0} /\ Slack \in Nat
  /\ MaxReads \in Nat /\ MaxChanges \in Nat /\ MaxFaults \in Nat

VARIABLES
  truth,     \* truth[i]: version of what index i stands for, committed
  page,      \* page[p]: [ver, left], what p holds and its seconds to live, or None
  index,     \* index[i]: members; an empty set is no key at all
  left,      \* left[i]: seconds index i has to live, 0 when it does not expire
  fill,      \* fill[r]: [page, next, ver, late], the filing r has under way, or None
             \* (ver and late until it has stored the page)
  change,    \* change[w]: [kind, on, at, todo, named, keys, seen], or None (named: what
             \* a rule's SCAN has found, todo: what is not invalidated yet)
  swept,     \* history: the version of i the last finished invalidation was for
  excuse,    \* history: excuse[p]: the indexes that need not reach what p holds
  reads,
  started,
  faults

store == <<page, index, left>>
vars == <<truth, page, index, left, fill, change, swept, excuse, reads, started, faults>>

Ttl(p) == IF p \in CountPage THEN CountTtl ELSE ListTtl
Fails == faults < MaxFaults /\ faults' = faults + 1
Filing(r) == fill[r] # None

\* The next command of filing r: SETEX, or the SADD or EXPIRE of an index.
Storing(r) == Filing(r) /\ fill[r].next = 1
Adding(r) == Filing(r) /\ fill[r].next > 1 /\ fill[r].next % 2 = 0
Expiring(r) == Filing(r) /\ fill[r].next > 1 /\ fill[r].next % 2 = 1
At(r) == Order[fill[r].page][fill[r].next \div 2]

\* The indexes filing r has not added its page to yet, or not kept alive yet.
Unadded(r) == {Order[fill[r].page][n] :
                 n \in {m \in 1..Len(Order[fill[r].page]) : fill[r].next <= 2 * m}}
Unkept(r) == {Order[fill[r].page][n] :
                n \in {m \in 1..Len(Order[fill[r].page]) : fill[r].next <= 2 * m + 1}}

\* What is cached, after the step, need not be reached through these indexes.
Excuse(is, cached) ==
  excuse' = [p \in Page |-> IF cached[p] = None THEN {} ELSE excuse[p] \cup is[p]]

\* The next command, or the end of the filing.
Advance(r) ==
  fill' = [fill EXCEPT ![r] =
             IF @.next = 2 * Len(Order[@.page]) + 1 THEN None ELSE [@ EXCEPT !.next = fill[r].next + 1]]

-----------------------------------------------------------------------------
Init ==
  /\ truth = [i \in Index |-> 0]
  /\ page = [p \in Page |-> None]
  /\ index = [i \in Index |-> {}]
  /\ left = [i \in Index |-> 0]
  /\ fill = [r \in Reader |-> None]
  /\ change = [w \in Changer |-> None]
  /\ swept = [i \in Index |-> 0]
  /\ excuse = [p \in Page |-> {}]
  /\ reads = 0
  /\ started = 0
  /\ faults = 0

-----------------------------------------------------------------------------
(* listRecords, getQueryCache and setQueryCache.                           *)

\* Mutant: a hit starts the page's life anew, and its indexes'.
HitRenews(p) ==
  /\ page[p] # None
  /\ page' = [page EXCEPT ![p] = [@ EXCEPT !.left = Ttl(p)]]
  /\ left' = [i \in Index |-> IF p \in index[i] /\ left[i] < Ttl(p) + Slack
                              THEN Ttl(p) + Slack ELSE left[i]]
  /\ UNCHANGED <<truth, index, fill, change, swept, excuse, reads, started, faults>>

\* A hit is served as it is stored, and nothing of it changes.
Hit(p) == page[p] # None /\ UNCHANGED vars

\* A miss: the database is read.  A response too large is not filed at all.
Read(r, p) ==
  /\ fill[r] = None
  /\ reads < MaxReads /\ reads' = reads + 1
  /\ fill' = [fill EXCEPT ![r] = [page |-> p, next |-> 1, late |-> {},
                                  ver |-> [i \in Filed(p) |-> truth[i]]]]
  /\ UNCHANGED <<truth, store, change, swept, excuse, started>>

Miss(r, p) == page[p] = None /\ Read(r, p) /\ UNCHANGED faults

\* The GET fails: a miss as well, whatever is stored.
GetFails(r, p) == page[p] # None /\ Read(r, p) /\ Fails

Setex(r) ==
  LET key == fill[r].page IN
  /\ Storing(r)
  /\ page' = [page EXCEPT ![key] = [ver |-> fill[r].ver, left |-> Ttl(key)]]
  /\ excuse' = [excuse EXCEPT ![key] = fill[r].late]
  /\ fill' = [fill EXCEPT ![r] = [@ EXCEPT !.next = 2, !.ver = None, !.late = {}]]
  /\ UNCHANGED <<truth, index, left, change, swept, reads, started, faults>>

Sadd(r) ==
  /\ Adding(r)
  /\ index' = [index EXCEPT ![At(r)] = @ \cup {fill[r].page}]
  /\ Advance(r)
  /\ UNCHANGED <<truth, page, left, change, swept, excuse, reads, started, faults>>

\* Mutant: a life already set is left as it is.
ExpireOnce(r) ==
  /\ Expiring(r)
  /\ left' = [left EXCEPT ![At(r)] =
                IF index[At(r)] = {} \/ @ > 0 THEN @ ELSE Ttl(fill[r].page) + Slack]
  /\ Advance(r)
  /\ UNCHANGED <<truth, page, index, change, swept, excuse, reads, started, faults>>

\* EXPIRE of a key that is gone does nothing; it shortens a life as it lengthens
\* one, and a count may then outlive the index it shares with a list.
Expire(r) ==
  LET i == At(r)
      life == Ttl(fill[r].page) + Slack
  IN /\ Expiring(r)
     /\ left' = [left EXCEPT ![i] = IF index[i] = {} THEN @ ELSE life]
     /\ Excuse([p \in Page |-> IF p \in index[i] /\ page[p] # None /\ page[p].left > life
                              THEN {i} ELSE {}], page)
     /\ Advance(r)
     /\ UNCHANGED <<truth, page, index, change, swept, reads, started, faults>>

\* A command fails: the filing ends where it is.
FillFails(r) ==
  /\ Filing(r)
  /\ Fails
  /\ fill' = [fill EXCEPT ![r] = None]
  /\ Excuse([p \in Page |-> IF ~Storing(r) /\ fill[r].page = p THEN Unkept(r) ELSE {}], page)
  /\ UNCHANGED <<truth, store, change, swept, reads, started>>

-----------------------------------------------------------------------------
(* A change.  A write to a collection (on one tenant's index) invalidates  *)
(* after its commit only.  A change of a user's authorization (on the      *)
(* user's index), or of a row or column rule of the collection (on every   *)
(* tenant's), invalidates at once and again after the commit.              *)

Kinds == {"write", "user", "rule"}
Scope(kind) == CASE kind = "write" -> {{i} : i \in Tenants}
                 [] kind = "user" -> {{i} : i \in Users}
                 [] kind = "rule" -> {Tenants}

\* The places of a change: invalidating before the commit, about to commit,
\* invalidating after it.
Places == {"before", "commit", "after"}

Begin(w, kind, on) ==
  /\ change[w] = None
  /\ started < MaxChanges /\ started' = started + 1
  /\ on \in Scope(kind)
  /\ change' = [change EXCEPT ![w] =
                  [kind |-> kind, on |-> on, named |-> {}, keys |-> {}, seen |-> None,
                   at |-> IF kind = "write" THEN "commit" ELSE "before",
                   todo |-> IF kind = "write" THEN {} ELSE on]]
  /\ UNCHANGED <<truth, store, fill, swept, excuse, reads, faults>>

\* Mutant: what was dropped before the commit is taken for enough.
CommitNoSecond(w) ==
  /\ change[w] # None /\ change[w].at = "commit"
  /\ truth' = [i \in Index |-> truth[i] + IF i \in change[w].on THEN 1 ELSE 0]
  /\ change' = [change EXCEPT ![w] =
                  IF @.kind = "write" THEN [@ EXCEPT !.at = "after", !.todo = @ \cup change[w].on]
                  ELSE None]
  /\ swept' = IF change[w].kind = "write" THEN swept
              ELSE [i \in Index |-> IF i \in change[w].on THEN truth'[i] ELSE swept[i]]
  /\ UNCHANGED <<store, fill, excuse, reads, started, faults>>

Commit(w) ==
  /\ change[w] # None /\ change[w].at = "commit"
  /\ truth' = [i \in Index |-> truth[i] + IF i \in change[w].on THEN 1 ELSE 0]
  /\ change' = [change EXCEPT ![w] = [@ EXCEPT !.at = "after", !.todo = change[w].on]]
  /\ UNCHANGED <<store, fill, swept, excuse, reads, started, faults>>

Rollback(w) ==
  /\ change[w] # None /\ change[w].at = "commit"
  /\ change' = [change EXCEPT ![w] = None]
  /\ UNCHANGED <<truth, store, fill, swept, excuse, reads, started, faults>>

Invalidating(w) == change[w] # None /\ change[w].at \in {"before", "after"}

\* The filings that have not added their page to one of is, when is is read.
Missed(is) ==
  /\ fill' = [r \in Reader |->
                IF Storing(r) THEN [fill[r] EXCEPT !.late = @ \cup (Unadded(r) \cap is)]
                ELSE fill[r]]
  /\ Excuse([p \in Page |->
               UNION {Unadded(r) \cap is :
                 r \in {q \in Reader : Filing(q) /\ ~Storing(q) /\ fill[q].page = p}}], page)

\* An invalidation with no index left to do: the next place of the change.
Done(w, todo, sw) ==
  /\ change' = [change EXCEPT ![w] =
                  IF todo # {}
                  THEN [@ EXCEPT !.todo = todo, !.named = change[w].named \cap todo,
                                 !.keys = {}, !.seen = None]
                  ELSE IF @.at = "before"
                       THEN [@ EXCEPT !.at = "commit", !.todo = {}, !.named = {},
                                      !.keys = {}, !.seen = None]
                       ELSE None]
  /\ swept' = [i \in Index |-> IF i \in DOMAIN sw /\ sw[i] > swept[i] THEN sw[i] ELSE swept[i]]

\* invalidateQueryCacheForCollection's SCAN finds an index.
Scan(w, i) ==
  /\ Invalidating(w) /\ change[w].kind = "rule"
  /\ i \in change[w].todo \ change[w].named
  /\ index[i] # {}
  /\ change' = [change EXCEPT ![w] = [@ EXCEPT !.named = change[w].named \cup {i}]]
  /\ UNCHANGED <<truth, store, fill, swept, excuse, reads, started, faults>>

\* There is no DEL to send: SMEMBERS finds nothing for a write, or the SCAN of a
\* rule's change does not name the index.
FindsNone(w, i) ==
  /\ Invalidating(w) /\ change[w].seen = None
  /\ change[w].kind # "user" /\ i \in change[w].todo \ change[w].named
  /\ index[i] = {}
  /\ Missed({i})
  /\ Done(w, change[w].todo \ {i}, [j \in {i} |-> truth[i]])
  /\ UNCHANGED <<truth, store, reads, started, faults>>

\* A user's index, and one that a SCAN has named, is deleted whatever is found; the
\* SCAN is over by then.
Smembers(w, i) ==
  /\ Invalidating(w) /\ i \in change[w].todo /\ change[w].seen = None
  /\ change[w].kind = "write" => index[i] # {}
  /\ change[w].kind = "rule" => change[w].named = change[w].todo
  /\ Missed({i})
  /\ change' = [change EXCEPT ![w] = [@ EXCEPT !.keys = index[i], !.seen = <<i, truth[i]>>]]
  /\ UNCHANGED <<truth, store, swept, reads, started, faults>>

\* DEL of the keys and the index, in one command.  A page added to the index
\* since SMEMBERS stays, and is in the index no more.
Del(w) ==
  LET i == change[w].seen[1] IN
  /\ Invalidating(w) /\ change[w].seen # None
  /\ page' = [p \in Page |-> IF p \in change[w].keys THEN None ELSE page[p]]
  /\ index' = [index EXCEPT ![i] = {}]
  /\ left' = [left EXCEPT ![i] = 0]
  /\ Excuse([p \in Page |-> IF p \in index[i] THEN {i} ELSE {}], page')
  /\ Done(w, change[w].todo \ {i}, [j \in {i} |-> change[w].seen[2]])
  /\ UNCHANGED <<truth, fill, reads, started, faults>>

\* A command fails.  SCAN or SMEMBERS: the invalidation ends.  DEL: so it does, but
\* invalidateQueryCacheForCollection goes on with the next index.
InvalidationFails(w) ==
  /\ Invalidating(w)
  /\ Fails
  /\ LET on == IF change[w].seen # None /\ change[w].kind = "rule"
               THEN change[w].todo \ {change[w].seen[1]} ELSE {}
     IN Done(w, on, [j \in {} |-> 0])
  /\ UNCHANGED <<truth, store, fill, excuse, reads, started>>

-----------------------------------------------------------------------------
\* A second passes.  An index that expires takes its members with it: the
\* filing that added one and has not sent EXPIRE yet finds it gone.
Tick ==
  /\ \E p \in Page : page[p] # None \/ \E i \in Index : left[i] > 0
  /\ page' = [p \in Page |->
                IF page[p] = None \/ page[p].left = 1 THEN None
                ELSE [page[p] EXCEPT !.left = IF @ = 0 THEN 0 ELSE @ - 1]]
  /\ index' = [i \in Index |-> IF left[i] = 1 THEN {} ELSE index[i]]
  /\ left' = [i \in Index |-> IF left[i] = 0 THEN 0 ELSE left[i] - 1]
  /\ Excuse([p \in Page |-> {At(r) : r \in {q \in Reader :
               Expiring(q) /\ fill[q].page = p /\ left[At(q)] = 1}}], page')
  /\ UNCHANGED <<truth, fill, change, swept, reads, started, faults>>

FillStep(r) == Setex(r) \/ Sadd(r) \/ Expire(r)
ChangeStep(w) ==
  \/ Commit(w) \/ Del(w)
  \/ \E i \in Index : Scan(w, i) \/ FindsNone(w, i) \/ Smembers(w, i)

Next ==
  \/ \E r \in Reader :
       \/ \E p \in Page : Miss(r, p) \/ GetFails(r, p)
       \/ FillStep(r) \/ FillFails(r)
  \/ \E w \in Changer :
       \/ \E kind \in Kinds : \E on \in Scope(kind) : Begin(w, kind, on)
       \/ ChangeStep(w) \/ Rollback(w) \/ InvalidationFails(w)
  \/ \E p \in Page : Hit(p)
  \/ Tick

\* A filing is a promise chain on live connections, and time passes.
Fairness == WF_vars(Tick) /\ \A r \in Reader : WF_vars(FillStep(r))

Spec == Init /\ [][Next]_vars
FairSpec == Spec /\ Fairness

-----------------------------------------------------------------------------
Version == Nat
Lives == 0..(ListTtl + CountTtl + Slack)

\* What page, fill and change hold, of a page filed in is, and a change's seen.
PageOf(is) == [ver : [is -> Version], left : Nat]
FilingOf(is) ==
  [page : Page, next : Nat, ver : [is -> Version] \cup {None}, late : SUBSET Index]
Changes == [kind : Kinds, on : SUBSET Index, at : Places, todo : SUBSET Index,
            named : SUBSET Index, keys : SUBSET Page, seen : (Index \X Version) \cup {None}]

ASSUME NoneAssumption ==
  /\ None \notin Changes \cup (Index \X Version)
  /\ \A is \in SUBSET Index : None \notin PageOf(is) \cup FilingOf(is) \cup [is -> Version]

TypeOK ==
  /\ truth \in [Index -> Version] /\ swept \in [Index -> Version]
  /\ \A p \in Page : page[p] # None =>
       page[p].ver \in [Filed(p) -> Version] /\ page[p].left \in 0..Ttl(p)
  /\ index \in [Index -> SUBSET Page]
  /\ left \in [Index -> Lives]
  /\ \A i \in Index : index[i] = {} => left[i] = 0
  /\ \A r \in Reader : Filing(r) =>
       /\ fill[r].page \in Page
       /\ Storing(r) => fill[r].ver \in [Filed(fill[r].page) -> Version]
       /\ fill[r].next \in 1..(2 * Len(Order[fill[r].page]) + 1)
       /\ fill[r].late \subseteq Filed(fill[r].page)
  /\ \A w \in Changer : change[w] # None =>
       /\ change[w].kind \in Kinds /\ change[w].on \in Scope(change[w].kind)
       /\ change[w].at \in Places /\ change[w].todo \subseteq change[w].on
       /\ change[w].named \subseteq change[w].todo /\ change[w].keys \subseteq Page
  /\ excuse \in [Page -> SUBSET Index]
  /\ reads \in 0..MaxReads /\ started \in 0..MaxChanges /\ faults \in 0..MaxFaults

\* A filing of p that has not yet put it in index i, or may have to.
Underway(p, i) == \E r \in Reader : Filing(r) /\ fill[r].page = p /\ i \in Unkept(r)

Stale(p, i) == page[p] # None /\ page[p].ver[i] < truth[i]

(***************************************************************************)
(* query-cache.ts files a page in its index so that a change can find it.  *)
(* A cached page is in each of its indexes for as long as it lives, unless *)
(* it is still being filed, a command of its filing failed, an             *)
(* invalidation deleted the index with a member it had not read, the index *)
(* ran out between the SADD and the EXPIRE, or, for a time-travel count, a *)
(* list filed later shortened the life of the index they share.            *)
(***************************************************************************)
PageReachable ==
  \A p \in Page : page[p] # None =>
    \A i \in Filed(p) : p \in index[i] \/ i \in excuse[p] \/ Underway(p, i)

(***************************************************************************)
(* "All keys are dropped on any write" (query-cache.ts): once an           *)
(* invalidation of an index is done, nothing older than it is cached under *)
(* the index, with these exceptions only: the page was being filed when    *)
(* the members were read, or it could not be reached (PageReachable).      *)
(***************************************************************************)
StaleExplained ==
  \A p \in Page : page[p] # None =>
    \A i \in Filed(p) : page[p].ver[i] < swept[i] => i \in excuse[p]

(***************************************************************************)
(* Whatever races and failures left stale pages behind, none is served for *)
(* good: once no more changes come, every one of them leaves the cache or  *)
(* is replaced by a newer one, and none comes back (the TTL of             *)
(* query-cache.ts, and filings that end).                                  *)
(***************************************************************************)
StaleGoes == <>[](\A p \in Page : \A i \in Filed(p) : ~Stale(p, i))
=============================================================================
